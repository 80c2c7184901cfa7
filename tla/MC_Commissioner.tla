--------------------------- MODULE MC_Commissioner ---------------------------
(***************************************************************************)
(* A small instance of Commissioner for TLC.  Four PINs: two of the        *)
(* policy, one too short and one too long.  For each parameter the user    *)
(* may type the largest legal value and the smallest illegal one above it. *)
(***************************************************************************)
EXTENDS Commissioner, TLC

MCPins == {"1234", "12345678", "123", "L64"}

MCPinLen == "1234" :> 4 @@ "12345678" :> 8 @@ "123" :> 3 @@ "L64" :> 64

MCInputs ==
    "PHY_UP_BTN" :> {255, 256} @@ "PHY_LED_GPIO" :> {29, 30} @@
    "PHY_LED_BTNESS" :> {-1, 0} @@ "PHY_OPTS" :> {4, 16}

\* 0x2E8A:0x10FE is the Raspberry Pi default; a VID of -1 parses (int("-1", 16))
\* and must be refused.
MCVidPidInputs == {<<11914, 4350>>, <<-1, 4350>>}

=============================================================================
