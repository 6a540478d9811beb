-------------------------------- MODULE CellMap --------------------------------
(***************************************************************************)
(* The entries of the cell map the models use: of each kind of gate one,    *)
(* every kind of flip-flop the passes tell apart, the scan and the boundary *)
(* cells.  In an ff entry "" stands for a key it does not have; its         *)
(* asynchronous controls are active low.                                    *)
(***************************************************************************)
MapGateInputs ==
  [inv |-> <<"A">>, buf |-> <<"A">>, and |-> <<"A", "B">>, or |-> <<"A", "B">>, xor |-> <<"A", "B">>,
   wbc_in |-> <<"FROM_SYS">>, wbc_in_scan |-> <<"FROM_SYS">>,
   wbc_out |-> <<"FROM_CORE">>, wbc_out_scan |-> <<"FROM_CORE">>]

MapGateOutput ==
  [inv |-> "Y", buf |-> "Y", and |-> "Y", or |-> "Y", xor |-> "Y", wbc_in |-> "TO_CORE",
   wbc_in_scan |-> "TO_CORE", wbc_out |-> "TO_SYS", wbc_out_scan |-> "TO_SYS"]

PlainFF == [trigger |-> "POSEDGE", clock |-> "CLK", data |-> "D", output |-> "Q", clear |-> "",
            preset |-> "", enable |-> "", level |-> "HIGH", si |-> "", se |-> ""]
ScanFF == [PlainFF EXCEPT !.si = "SDI", !.se = "SE"]
WrapperFF(data) == [PlainFF EXCEPT !.data = data, !.output = "CTO", !.si = "CTI", !.se = "SE"]

MapFFs ==
  [dfxtp |-> PlainFF,
   dfrtp |-> [PlainFF EXCEPT !.clear = "RESET_B"],
   dfstp |-> [PlainFF EXCEPT !.preset = "SET_B"],
   dfbbp |-> [PlainFF EXCEPT !.clear = "RESET_B", !.preset = "SET_B"],
   dfxtn |-> [PlainFF EXCEPT !.trigger = "NEGEDGE"],
   edfxtp |-> [PlainFF EXCEPT !.enable = "DE"],
   edfxtl |-> [PlainFF EXCEPT !.enable = "DE", !.level = "LOW"],
   sdfxtp |-> [PlainFF EXCEPT !.si = "SCD", !.se = "SCE"],
   scanff |-> ScanFF,
   scanff_r |-> [ScanFF EXCEPT !.clear = "RESET_B"],
   scanff_s |-> [ScanFF EXCEPT !.preset = "SET_B"],
   wbc_in_scan |-> WrapperFF("FROM_SYS"), wbc_out_scan |-> WrapperFF("FROM_CORE")]
===============================================================================
