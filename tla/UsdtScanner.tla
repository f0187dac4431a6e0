----------------------------- MODULE UsdtScanner -----------------------------
(***************************************************************************)
(* The scanner of internal/payment/provider/usdt: how it walks the chain   *)
(* and moves the cursor of table chain_scan_cursor.                        *)
(*                                                                         *)
(* Step reads the head of the chain, the cursor and the transfers of one   *)
(* batch of blocks, hands each transfer to USDTReceived, whose errors it   *)
(* swallows, and stores the cursor: five calls to three systems.  It runs  *)
(* as a queue task every 15 s, and nothing keeps a task from starting      *)
(* while an earlier one is still under way, so several Steps overlap.      *)
(*                                                                         *)
(* What USDTReceived does with a transfer is module Payments.              *)
(***************************************************************************)
EXTENDS Integers, FiniteSets

CONSTANTS
    Transfer,       \* transfers of the USDT contract that are ever mined
    Worker,         \* Steps that may be under way at one time
    Confirmations,  \* Scanner.Confirmations
    BatchBlocks,    \* Scanner.BatchBlocks
    ForkDepth,      \* how many blocks below the head the chain may still change
    Starts,         \* heads and cursors before the first Step, cursor 0 = no row
    MaxHead,        \* bound: the last block that is produced
    MaxFaults       \* bound: Steps that fail or die

ASSUME ScannerAssumption ==
    /\ Confirmations \in Nat
    /\ BatchBlocks \in Int
    /\ ForkDepth \in Nat
    /\ Starts \subseteq [head : Nat, cursor : Nat]
    /\ \A s \in Starts : s.cursor = 0 \/ s.cursor + Confirmations <= s.head
    /\ MaxHead \in Nat
    /\ MaxFaults \in Nat

\* Confirmations are for this: a block that has as many of them is final.
ASSUME ConfirmedBlocksAreFinal == ForkDepth <= Confirmations

VARIABLES
    head,      \* the newest block
    block,     \* the block a transfer is in, 0 = in none
    seed,      \* the cursor before the first Step (never changes)
    cursor,    \* chain_scan_cursor.last_block
    run,       \* each worker's Step: the call it makes next and its locals
    handed,    \* transfers that USDTReceived was called with
    faults     \* Steps lost so far

chainVars == <<head, block>>
vars == <<head, block, seed, cursor, run, handed, faults>>

Stages == {"idle", "get", "list", "hand", "set"}

RunType == [at : Stages, tip : Nat, from : Nat, to : Nat, todo : SUBSET Transfer]

Idle == [at |-> "idle", tip |-> 0, from |-> 0, to |-> 0, todo |-> {}]

Init ==
    /\ \E s \in Starts : head = s.head /\ seed = s.cursor
    /\ block \in [Transfer -> 0 .. head]
    /\ cursor = seed
    /\ run = [w \in Worker |-> Idle]
    /\ handed = {}
    /\ faults = 0

-----------------------------------------------------------------------------
(* The chain.                                                              *)

\* A block is produced with some of the transfers that are in none.
Mine ==
    /\ head < MaxHead
    /\ head' = head + 1
    /\ \E S \in SUBSET {t \in Transfer : block[t] = 0} :
         block' = [t \in Transfer |-> IF t \in S THEN head + 1 ELSE block[t]]
    /\ UNCHANGED <<seed, cursor, run, handed, faults>>

\* A fork wins: a recent transfer is in another recent block now, or in none.
Fork(t) ==
    /\ block[t] > 0
    /\ block[t] > head - ForkDepth
    /\ \E b \in {0} \cup {x \in 1 .. head : x > head - ForkDepth} :
         block' = [block EXCEPT ![t] = b]
    /\ UNCHANGED <<head, seed, cursor, run, handed, faults>>

-----------------------------------------------------------------------------
(* Step.                                                                   *)

TipUnconfirmed == head

\* The newest block with enough confirmations.
Tip == head - Confirmations

\* Blocks per call; the default is 50.
Batch == IF BatchBlocks <= 0 THEN 50 ELSE BatchBlocks

FirstBlockAtTip(last, tip) == IF last = 0 THEN tip ELSE last + 1

\* The first block of a batch is behind the cursor, without a row behind the tip.
FirstBlock(last, tip) == (IF last = 0 THEN tip ELSE last) + 1

\* The last block of a batch.
BatchEnd(from, tip) ==
    IF from + Batch - 1 > tip THEN tip ELSE from + Batch - 1

\* The transfers that ListTRC20Transfers returns for a range of blocks.
Listed(from, to) == {t \in Transfer : block[t] \in from .. to}

\* NowBlock; a chain that is too young has nothing to scan.
StepNow(w) ==
    /\ run[w].at = "idle"
    /\ Tip > 0
    /\ run' = [run EXCEPT ![w] = [Idle EXCEPT !.at = "get", !.tip = Tip]]
    /\ UNCHANGED <<chainVars, seed, cursor, handed, faults>>

\* Cursor.Get; Step returns when there is no block to scan.
StepGet(w) ==
    /\ run[w].at = "get"
    /\ LET tip  == run[w].tip
           from == FirstBlock(cursor, tip)
       IN run' = [run EXCEPT ![w] =
                    IF from > tip THEN Idle
                    ELSE [@ EXCEPT !.at = "list", !.from = from,
                                   !.to = BatchEnd(from, tip)]]
    /\ UNCHANGED <<chainVars, seed, cursor, handed, faults>>

\* ListTRC20Transfers, at whatever length the chain has by now.
StepList(w) ==
    /\ run[w].at = "list"
    /\ run' = [run EXCEPT ![w].at = "hand",
                          ![w].todo = Listed(run[w].from, run[w].to)]
    /\ UNCHANGED <<chainVars, seed, cursor, handed, faults>>

\* USDTReceived with one transfer of the list; whether it returns an error
\* makes no difference to Step.
StepHand(w) ==
    /\ run[w].at = "hand"
    /\ \E t \in run[w].todo :
         /\ handed' = handed \cup {t}
         /\ run' = [run EXCEPT ![w].todo = @ \ {t}]
    /\ UNCHANGED <<chainVars, seed, cursor, faults>>

StepHandedEarly(w) ==
    /\ run[w].at = "hand"
    /\ run' = [run EXCEPT ![w].at = "set"]
    /\ UNCHANGED <<chainVars, seed, cursor, handed, faults>>

\* The loop ends with the list.
StepHanded(w) ==
    /\ run[w].at = "hand"
    /\ run[w].todo = {}
    /\ run' = [run EXCEPT ![w].at = "set"]
    /\ UNCHANGED <<chainVars, seed, cursor, handed, faults>>

StepSetFrom(w) ==
    /\ run[w].at = "set"
    /\ cursor' = run[w].from - 1
    /\ run' = [run EXCEPT ![w] = Idle]
    /\ UNCHANGED <<chainVars, seed, handed, faults>>

\* Cursor.Set, an upsert without a condition, and Step returns.
StepSet(w) ==
    /\ run[w].at = "set"
    /\ cursor' = run[w].to
    /\ run' = [run EXCEPT ![w] = Idle]
    /\ UNCHANGED <<chainVars, seed, handed, faults>>

\* A call fails and Step returns its error, or the process dies.
StepFails(w) ==
    /\ run[w].at # "idle"
    /\ faults < MaxFaults
    /\ faults' = faults + 1
    /\ run' = [run EXCEPT ![w] = Idle]
    /\ UNCHANGED <<chainVars, seed, cursor, handed>>

Step(w) ==
    \/ StepNow(w)
    \/ StepGet(w)
    \/ StepList(w)
    \/ StepHand(w)
    \/ StepHanded(w)
    \/ StepSet(w)

Next ==
    \/ Mine
    \/ \E t \in Transfer : Fork(t)
    \/ \E w \in Worker : Step(w) \/ StepFails(w)

Spec == Init /\ [][Next]_vars

\* The chain grows, the queue starts a Step every 15 s, and its calls return.
FairSpec ==
    /\ Spec
    /\ WF_vars(Mine)
    /\ \A w \in Worker : WF_vars(Step(w))

-----------------------------------------------------------------------------
(* Properties.                                                             *)

\* Types; the locals of a Step are natural numbers, a batch is never empty
\* and ends at the confirmed tip at the latest.
ScanTypeOK ==
    /\ head \in Nat
    /\ block \in [Transfer -> 0 .. head]
    /\ seed \in Nat
    /\ cursor \in Nat
    /\ run \in [Worker -> RunType]
    /\ handed \subseteq Transfer
    /\ faults \in 0 .. MaxFaults
    /\ \A w \in Worker :
         run[w].at \in {"list", "hand", "set"} =>
            run[w].from \in 1 .. run[w].to /\ run[w].to <= run[w].tip

\* usdt.go:126-173: no transfer between the first cursor and the present one
\* was left out, although Steps overlap, die between two calls, store the
\* cursor in any order (also backwards) and see recent blocks change.
NothingSkipped ==
    \A t \in Transfer : block[t] \in (seed + 1) .. cursor => t \in handed

\* usdt.go:142-148: without a row Step begins behind the tip, finds nothing to
\* scan and returns before Cursor.Set, so the row never appears and no transfer
\* is ever handed on: the scanner depends on a row that somebody else wrote.
NoRowNoScan == seed = 0 => cursor = 0 /\ handed = {}

\* usdt.go:134: a transfer that was handed on stays in its block for good, so
\* no order is paid with money that a fork takes back.
HandedIsFinal ==
    [][\A t \in handed : block[t] > 0 /\ block'[t] = block[t]]_vars

\* usdt.go:126-173: once the cursor has a row, a transfer that stays in a
\* confirmed block behind it is handed on in the end, whatever the overlap.
ConfirmedIsHanded ==
    \A t \in Transfer :
        (seed > 0 /\ block[t] > seed /\ block[t] <= Tip) ~> (t \in handed)
=============================================================================
