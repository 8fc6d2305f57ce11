----------------------------- MODULE Contracts -----------------------------
(***************************************************************************)
(* The contracts deployed on the machine of src/src/vm/vm.cpp: a table     *)
(* from addresses to contracts, and calls on it.  An address and bytecode  *)
(* are sequences of characters; an opcode is the character of its byte.    *)
(***************************************************************************)
EXTENDS RexVM

CONSTANTS Owner,    \* addresses of those who deploy
          Bytecode  \* what they deploy

VARIABLE contracts  \* address -> owner and bytecode of what is deployed there

\* Mutant: the address is made of the owner alone.
OwnerAddress(owner, bytecode) == <<"contract", owner>>

\* The hash of the owner followed by the bytecode.
GenerateAddress(owner, bytecode) == <<"contract", owner \o bytecode>>

Init == contracts = [a \in {} |-> a]

\* What is deployed at an address replaces what was there.
DeployContract(owner, bytecode) ==
  LET address == GenerateAddress(owner, bytecode)
  IN  contracts' = [a \in DOMAIN contracts \cup {address} |->
                      IF a = address THEN [owner |-> owner, bytecode |-> bytecode]
                                     ELSE contracts[a]]

\* A call runs the bytecode on a storage of its own and keeps nothing of it.
Call(address, input, gasLimit) ==
  IF address \in DOMAIN contracts
  THEN Execute(contracts[address].bytecode, input, gasLimit)
  ELSE [Start("") EXCEPT !.reverted = TRUE]

Next == \E owner \in Owner, bytecode \in Bytecode : DeployContract(owner, bytecode)

-----------------------------------------------------------------------------
Deployed == DOMAIN contracts

(* What a caller relies on: a deployed contract stays, with its owner, and  *)
(* the same call gives the same result whatever is deployed later, unless   *)
(* the new owner's address is a beginning of the old one's or the other way *)
(* round, when the concatenation in generateAddress can be split in two     *)
(* ways (vm.cpp:10-30, 93-101).                                             *)
ContractKept ==
  [][\A a \in Deployed :
       LET old == contracts[a]  new == contracts'[a]
       IN  /\ a \in Deployed'
           /\ \/ new.owner = old.owner /\ Call(a, "in", 300)' = Call(a, "in", 300)
              \/ IsStrictPrefix(old.owner, new.owner)
              \/ IsStrictPrefix(new.owner, old.owner)]_contracts
=============================================================================
