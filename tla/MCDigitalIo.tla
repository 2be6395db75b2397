---------------------------- MODULE MCDigitalIo ----------------------------
(***************************************************************************)
(* A small instance of DigitalIo for TLC: two boards and two lines, the    *)
(* second one of a chip with 16 lines only.                                *)
(***************************************************************************)
EXTENDS DigitalIo, TLC

CONSTANTS x20, x21, x38  \* addresses

Is(mode, invert, debounce) ==
  [mode |-> mode, invert |-> invert, debounce |-> debounce]
Out == Is("Output", FALSE, 0)
OutInverted == Is("Output", TRUE, 0)
In == Is("Input", FALSE, 0)
InSlow == Is("Input", FALSE, 2)
InInverted == Is("InputPullup", TRUE, 0)

At(type, address, first, second) ==
  [type |-> type, address |-> address, lines |-> (1 :> first @@ 2 :> second)]
None == At("None", x20, Unused, Unused)
With(own, first, second) ==
  [pins |-> own, boards |-> (1 :> first @@ 2 :> second)]
NoPins == (1 :> Unused @@ 2 :> Unused)

(* Two boards whose inputs take turns. *)
TwoInputs == With(NoPins, At("TCA9534", x38, InInverted, Unused),
                  At("MCP23017", x21, Unused, In))
IoSettings ==
  { TwoInputs,
    (* the node's own pins *)
    With((1 :> Out @@ 2 :> InSlow), None, None),
    (* a chip without directions, and a board whose address is taken *)
    With(NoPins, At("PCF8574", x21, OutInverted, Unused),
         At("MCP23017", x21, Out, Unused)),
    (* an input and an output of one board *)
    With(NoPins, None, At("MCP23017", x21, In, Out)) }

=============================================================================
