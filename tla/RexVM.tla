------------------------------- MODULE RexVM -------------------------------
(***************************************************************************)
(* The contract machine of src/src/vm: the compiler's bytecode, run under  *)
(* a gas limit.  A byte is named for its opcode, a character of a literal  *)
(* for the opcode it happens to be.  Values on the stack are strings, a    *)
(* hash the tagged value it was made of.  Gas is a natural number: used    *)
(* plus a cost passes 2^64 only after 2^56 opcodes.                        *)
(***************************************************************************)
EXTENDS Naturals, Sequences, SequencesExt

Keywords == {"PUSH", "POP", "ADD", "SUB", "MUL", "DIV", "SHA256", "SSTORE", "SLOAD",
             "TRANSFER", "HALT", "REVERT", "RETURN"}

\* A token is a keyword or, under "literal", the bytes of its characters,
\* which are embedded after a PUSH.
Emit(token) == IF "keyword" \in DOMAIN token THEN <<token.keyword>>
               ELSE Cons("PUSH", token.literal)

Compile(tokens) == FoldLeft(LAMBDA bytecode, token : bytecode \o Emit(token), <<>>, tokens)

OpcodeGasCost(op) ==
  CASE op \in {"ADD", "SUB", "MUL"} -> 3
    [] op \in {"DIV", "MOD"}        -> 5
    [] op \in {"SHA256", "HASH"}    -> 30
    [] op = "SSTORE"                -> 200
    [] op = "SLOAD"                 -> 50
    [] op = "TRANSFER"              -> 100
    [] op = "LOG"                   -> 75
    [] OTHER                        -> 1

\* The empty input is not pushed.
Start(input) ==
  [stack |-> IF input = "" THEN <<>> ELSE <<input>>, storage |-> [k \in {} |-> k],
   gasUsed |-> 0, halted |-> FALSE, reverted |-> FALSE]

Load(storage, key) == IF key \in DOMAIN storage THEN storage[key] ELSE ""

\* What an opcode does: nothing when the stack is too short or the opcode, as
\* most are, has no case of its own.  The top of the stack is its head.
Perform(s, op) ==
  CASE op = "HALT"   -> [s EXCEPT !.halted = TRUE]
    [] op = "REVERT" -> [s EXCEPT !.reverted = TRUE]
    [] op = "SHA256" /\ s.stack # <<>> ->
         [s EXCEPT !.stack = Cons("sha256:" \o Head(@), Tail(@))]
    [] op = "SSTORE" /\ Len(s.stack) >= 2 ->
         [s EXCEPT !.stack = Tail(Tail(@)),
                   !.storage = [k \in DOMAIN @ \cup {s.stack[2]} |->
                                  IF k = s.stack[2] THEN s.stack[1] ELSE @[k]]]
    [] op = "SLOAD" /\ s.stack # <<>> ->
         [s EXCEPT !.stack = Cons(Load(s.storage, Head(@)), Tail(@))]
    [] OTHER -> s

Consumes(s, op, gasLimit) == s.gasUsed + OpcodeGasCost(op) <= gasLimit

\* Mutant: an opcode there is no gas for is skipped.
StepSkipping(s, op, gasLimit) ==
  IF s.halted \/ s.reverted \/ ~Consumes(s, op, gasLimit) THEN s
  ELSE Perform([s EXCEPT !.gasUsed = @ + OpcodeGasCost(op)], op)

\* One round of the loop: without gas the run reverts.
Step(s, op, gasLimit) ==
  IF s.halted \/ s.reverted THEN s
  ELSE IF ~Consumes(s, op, gasLimit) THEN [s EXCEPT !.reverted = TRUE]
  ELSE Perform([s EXCEPT !.gasUsed = @ + OpcodeGasCost(op)], op)

Execute(bytecode, input, gasLimit) ==
  FoldLeft(LAMBDA s, op : Step(s, op, gasLimit), Start(input), bytecode)
=============================================================================
