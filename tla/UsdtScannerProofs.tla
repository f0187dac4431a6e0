-------------------------- MODULE UsdtScannerProofs --------------------------
(***************************************************************************)
(* What the scanner guarantees for every chain, batch size and number of   *)
(* overlapping Steps.                                                      *)
(*                                                                         *)
(* NothingSkipped is not inductive: a Step that is about to store its end  *)
(* must have handed on its batch, and everything before the batch must     *)
(* have been handed on when it read the cursor, which another Step may     *)
(* have moved in either direction since.  ScanInv says so.  It rests on    *)
(* the blocks up to a confirmed tip being final, or a transfer could move  *)
(* behind the cursor after its range was listed.                           *)
(***************************************************************************)
EXTENDS UsdtScanner, TLAPS

-----------------------------------------------------------------------------
(* The inductive invariant.                                                *)

\* A block that has its confirmations.
Confirmed(b) == b + Confirmations <= head

\* Everything behind the first cursor up to block b was handed on.
Scanned(b) == \A t \in Transfer : block[t] \in (seed + 1) .. b => t \in handed

\* Cursors and batches end at confirmed blocks.
EndsConfirmed ==
    /\ cursor = 0 \/ Confirmed(cursor)
    /\ \A w \in Worker : run[w].at # "idle" => Confirmed(run[w].tip)

\* Nothing was left out before a batch, nor in one that was handed on.
BatchesScanned ==
    \A w \in Worker :
        /\ run[w].at \in {"list", "hand", "set"} => Scanned(run[w].from - 1)
        /\ run[w].at = "hand" =>
              /\ \A t \in run[w].todo : block[t] \in run[w].from .. run[w].to
              /\ Listed(run[w].from, run[w].to) \subseteq handed \cup run[w].todo
        /\ run[w].at = "set" => Listed(run[w].from, run[w].to) \subseteq handed

\* What was handed on is in a confirmed block.
HandedConfirmed == \A t \in handed : block[t] > 0 /\ Confirmed(block[t])

\* Without a row no Step comes to list a block.
RowMissing ==
    seed = 0 => /\ cursor = 0
                /\ handed = {}
                /\ \A w \in Worker : run[w].at \in {"idle", "get"}

ScanInv ==
    /\ ScanTypeOK
    /\ EndsConfirmed
    /\ BatchesScanned
    /\ NothingSkipped
    /\ HandedConfirmed
    /\ RowMissing

-----------------------------------------------------------------------------
(* Lemmas.                                                                 *)

\* A batch has at least one block.
LEMMA BatchPositive == Batch \in Nat \ {0}
BY ScannerAssumption DEF Batch

\* The end of a batch of confirmed blocks is one of them.
LEMMA BatchEndBounds ==
    ASSUME NEW from \in Nat, NEW tip \in Nat, from <= tip
    PROVE  BatchEnd(from, tip) \in from .. tip
BY BatchPositive DEF BatchEnd

\* The chain never changes a confirmed block: its transfers stay, and no
\* other comes to be in it.
LEMMA ChainKeepsConfirmed ==
    ASSUME ScanTypeOK, Mine \/ (\E t \in Transfer : Fork(t)),
           NEW t \in Transfer, NEW b \in Nat, b > 0, Confirmed(b)
    PROVE  (block'[t] = b) <=> (block[t] = b)
<1>1. head \in Nat /\ block \in [Transfer -> 0 .. head]
  BY DEF ScanTypeOK
<1>2. CASE Mine
  BY <1>1, <1>2, ScannerAssumption DEF Mine, Confirmed
<1>3. ASSUME NEW s \in Transfer, Fork(s) PROVE (block'[t] = b) <=> (block[t] = b)
  BY <1>1, <1>3, ScannerAssumption, ConfirmedBlocksAreFinal DEF Fork, Confirmed
<1>4. QED
  BY <1>2, <1>3

\* The chain never loses a confirmation.
LEMMA ChainGrows ==
    ASSUME ScanTypeOK, Mine \/ (\E t \in Transfer : Fork(t))
    PROVE  /\ head' \in Nat /\ head' >= head
           /\ block' \in [Transfer -> 0 .. head']
           /\ UNCHANGED <<seed, cursor, run, handed, faults>>
<1>1. head \in Nat /\ block \in [Transfer -> 0 .. head]
  BY DEF ScanTypeOK
<1>2. CASE Mine
  BY <1>1, <1>2 DEF Mine
<1>3. ASSUME NEW s \in Transfer, Fork(s)
      PROVE  /\ head' \in Nat /\ head' >= head
             /\ block' \in [Transfer -> 0 .. head']
             /\ UNCHANGED <<seed, cursor, run, handed, faults>>
  BY <1>1, <1>3 DEF Fork
<1>4. QED
  BY <1>2, <1>3

-----------------------------------------------------------------------------
(* Types.                                                                  *)

LEMMA ScanTypeInit == Init => ScanTypeOK
BY ScannerAssumption DEF Init, ScanTypeOK, RunType, Stages, Idle

LEMMA ScanTypeNext == ScanTypeOK /\ [Next]_vars => ScanTypeOK'
<1> SUFFICES ASSUME ScanTypeOK, [Next]_vars PROVE ScanTypeOK'
  OBVIOUS
<1> USE ScannerAssumption
<1>1. CASE Mine \/ \E t \in Transfer : Fork(t)
  <2>1. /\ head' \in Nat
        /\ block' \in [Transfer -> 0 .. head']
        /\ UNCHANGED <<seed, cursor, run, handed, faults>>
    BY <1>1, ChainGrows
  <2>2. QED
    BY <2>1 DEF ScanTypeOK
<1>2. ASSUME NEW w \in Worker, StepNow(w) PROVE ScanTypeOK'
  <2>1. Tip \in Nat
    BY <1>2 DEF StepNow, Tip, ScanTypeOK
  <2>2. QED
    BY <1>2, <2>1 DEF StepNow, ScanTypeOK, RunType, Stages, Idle, chainVars
<1>3. ASSUME NEW w \in Worker, StepGet(w) PROVE ScanTypeOK'
  <2> DEFINE tip == run[w].tip
             from == FirstBlock(cursor, tip)
  <2>1. tip \in Nat /\ from \in Nat /\ from > 0
    BY DEF ScanTypeOK, RunType, FirstBlock
  <2>2. CASE from > tip
    BY <1>3, <2>2 DEF StepGet, ScanTypeOK, RunType, Stages, Idle, chainVars
  <2>3. CASE ~ (from > tip)
    <3>1. BatchEnd(from, tip) \in from .. tip
      BY <2>1, <2>3, BatchEndBounds
    <3> HIDE DEF from
    <3>2. run' = [run EXCEPT ![w] =
                    [@ EXCEPT !.at = "list", !.from = from, !.to = BatchEnd(from, tip)]]
      BY <1>3, <2>3 DEF StepGet, from
    <3> HIDE DEF tip
    <3>3. PICK to \in Nat : /\ to = BatchEnd(from, tip)
                            /\ from \in 1 .. to /\ to <= tip
      BY <2>1, <3>1
    <3>4. run'[w] = [run[w] EXCEPT !.at = "list", !.from = from, !.to = to]
      BY <3>2, <3>3 DEF ScanTypeOK
    <3>5. run'[w] \in RunType /\ run' \in [Worker -> RunType]
      <4>1. run[w] \in RunType
        BY DEF ScanTypeOK
      <4>2. run'[w] \in RunType
        BY <2>1, <3>3, <3>4, <4>1 DEF RunType, Stages
      <4>3. run' = [run EXCEPT ![w] = run'[w]]
        BY <3>2 DEF ScanTypeOK
      <4>4. QED
        BY <4>2, <4>3 DEF ScanTypeOK
    <3>6. run'[w].from = from /\ run'[w].to = to /\ run'[w].tip = tip
      BY <3>4 DEF ScanTypeOK, RunType, tip
    <3>7. \A v \in Worker : v # w => run'[v] = run[v]
      BY <3>2 DEF ScanTypeOK
    <3>8. \A v \in Worker : run'[v].at \in {"list", "hand", "set"} =>
             run'[v].from \in 1 .. run'[v].to /\ run'[v].to <= run'[v].tip
      BY <3>3, <3>6, <3>7 DEF ScanTypeOK
    <3>9. QED
      BY <1>3, <3>5, <3>8 DEF StepGet, ScanTypeOK, chainVars
  <2>4. QED
    BY <2>2, <2>3
<1>4. ASSUME NEW w \in Worker, StepList(w) PROVE ScanTypeOK'
  BY <1>4 DEF StepList, Listed, ScanTypeOK, RunType, Stages, chainVars
<1>5. ASSUME NEW w \in Worker, StepHand(w) PROVE ScanTypeOK'
  BY <1>5 DEF StepHand, ScanTypeOK, RunType, Stages, chainVars
<1>6. ASSUME NEW w \in Worker, StepHanded(w) PROVE ScanTypeOK'
  BY <1>6 DEF StepHanded, ScanTypeOK, RunType, Stages, chainVars
<1>7. ASSUME NEW w \in Worker, StepSet(w) PROVE ScanTypeOK'
  BY <1>7 DEF StepSet, ScanTypeOK, RunType, Stages, Idle, chainVars
<1>8. ASSUME NEW w \in Worker, StepFails(w) PROVE ScanTypeOK'
  BY <1>8 DEF StepFails, ScanTypeOK, RunType, Stages, Idle, chainVars
<1>9. CASE UNCHANGED vars
  BY <1>9 DEF vars, chainVars, ScanTypeOK
<1>10. QED
  BY <1>1, <1>2, <1>3, <1>4, <1>5, <1>6, <1>7, <1>8, <1>9 DEF Next, Step

\* Every behaviour keeps the types, and no batch is empty or passes the tip.
THEOREM ScanTypeCorrect == Spec => []ScanTypeOK
BY ScanTypeInit, ScanTypeNext, PTL DEF Spec

-----------------------------------------------------------------------------
(* The invariant.                                                          *)

LEMMA ScanInvInit == Init => ScanInv
<1> SUFFICES ASSUME Init PROVE ScanInv
  OBVIOUS
<1>1. PICK s \in Starts : head = s.head /\ seed = s.cursor /\ cursor = s.cursor
  BY DEF Init
<1>2. cursor = 0 \/ Confirmed(cursor)
  BY <1>1, ScannerAssumption DEF Confirmed
<1>3. ScanTypeOK
  BY ScanTypeInit
<1>4. \A w \in Worker : run[w] = Idle
  BY DEF Init
<1>5. EndsConfirmed
  BY <1>2, <1>4 DEF EndsConfirmed, Idle
<1>6. BatchesScanned
  BY <1>4 DEF BatchesScanned, Idle
<1>7. NothingSkipped
  BY <1>3 DEF Init, NothingSkipped, ScanTypeOK
<1>8. HandedConfirmed /\ RowMissing
  BY <1>4 DEF Init, HandedConfirmed, RowMissing, Idle
<1>9. QED
  BY <1>3, <1>5, <1>6, <1>7, <1>8 DEF ScanInv

\* The chain may do what it likes: everything ScanInv speaks of is confirmed.
LEMMA ScanInvChain ==
    ASSUME ScanInv, Mine \/ (\E t \in Transfer : Fork(t))
    PROVE  ScanInv'
<1> USE ScannerAssumption
<1>1. ScanTypeOK
  BY DEF ScanInv
<1>2. ScanTypeOK'
  BY <1>1, ScanTypeNext DEF Next
<1>3. /\ head' \in Nat /\ head \in Nat /\ head' >= head
      /\ UNCHANGED <<seed, cursor, run, handed, faults>>
  BY <1>1, ChainGrows DEF ScanTypeOK
<1>4. ASSUME NEW b \in Nat, Confirmed(b) PROVE Confirmed(b)'
  BY <1>3, <1>4 DEF Confirmed
<1>5. ASSUME NEW t \in Transfer, NEW b \in Nat, b > 0, Confirmed(b)
      PROVE  (block'[t] = b) <=> (block[t] = b)
  BY <1>1, <1>5, ChainKeepsConfirmed
<1>6. \A t \in Transfer : block[t] \in Nat /\ block'[t] \in Nat
  BY <1>1, <1>2 DEF ScanTypeOK
<1>7. ASSUME NEW a \in Nat, a > 0, NEW e \in Nat, Confirmed(e), NEW t \in Transfer
      PROVE  (block'[t] \in a .. e) <=> (block[t] \in a .. e)
  <2>1. ASSUME NEW b \in a .. e PROVE (block'[t] = b) <=> (block[t] = b)
    <3>1. b \in Nat /\ b > 0 /\ Confirmed(b)
      BY <1>3, <1>7 DEF Confirmed
    <3>2. QED
      BY <3>1, <1>5
  <2>2. QED
    BY <2>1
<1>8. EndsConfirmed'
  BY <1>1, <1>3, <1>4 DEF EndsConfirmed, ScanInv, ScanTypeOK, RunType
<1>9. ASSUME NEW b \in Nat, b = 0 \/ Confirmed(b), Scanned(b) PROVE Scanned(b)'
  <2>1. CASE b = 0
    BY <2>1, <1>1, <1>3 DEF Scanned, ScanTypeOK
  <2>2. CASE Confirmed(b)
    BY <2>2, <1>1, <1>3, <1>7, <1>9 DEF Scanned, ScanTypeOK
  <2>3. QED
    BY <1>9, <2>1, <2>2
<1>10. BatchesScanned'
  <2> SUFFICES ASSUME NEW w \in Worker
               PROVE  /\ run[w].at \in {"list", "hand", "set"} => Scanned(run[w].from - 1)'
                      /\ run[w].at = "hand" =>
                           /\ \A t \in run[w].todo : block'[t] \in run[w].from .. run[w].to
                           /\ Listed(run[w].from, run[w].to)' \subseteq handed \cup run[w].todo
                      /\ run[w].at = "set" => Listed(run[w].from, run[w].to)' \subseteq handed
    BY <1>3 DEF BatchesScanned, Scanned, Listed
  <2> SUFFICES ASSUME run[w].at \in {"list", "hand", "set"}
               PROVE  /\ Scanned(run[w].from - 1)'
                      /\ Listed(run[w].from, run[w].to)' = Listed(run[w].from, run[w].to)
                      /\ \A t \in Transfer : block[t] \in run[w].from .. run[w].to
                                          => block'[t] \in run[w].from .. run[w].to
    <3>1. run[w].todo \subseteq Transfer
      BY <1>1 DEF ScanTypeOK, RunType
    <3>2. QED
      BY <3>1 DEF ScanInv, BatchesScanned
  <2>1. /\ run[w].from \in Nat /\ run[w].from > 0 /\ run[w].to \in Nat
        /\ run[w].from - 1 \in Nat /\ run[w].from <= run[w].to
    BY <1>1 DEF ScanTypeOK, RunType
  <2>2. Confirmed(run[w].to) /\ Confirmed(run[w].from - 1)
    BY <1>1, <2>1 DEF ScanInv, EndsConfirmed, Confirmed, ScanTypeOK, RunType
  <2>3. Scanned(run[w].from - 1)
    BY DEF ScanInv, BatchesScanned
  <2>4. Scanned(run[w].from - 1)'
    <3> DEFINE b == run[w].from - 1
    <3>1. b \in Nat /\ Confirmed(b) /\ Scanned(b)
      BY <2>1, <2>2, <2>3
    <3> HIDE DEF b
    <3>2. b' = b
      BY <1>3 DEF b
    <3>3. \A t \in Transfer : block'[t] \in (seed + 1) .. b => t \in handed
      BY <1>3, <1>9, <3>1, <3>2 DEF Scanned
    <3>4. QED
      BY <1>3, <3>3 DEF Scanned, b
  <2>5. QED
    BY <1>3, <1>7, <2>1, <2>2, <2>4 DEF Listed
<1>11. NothingSkipped'
  BY <1>1, <1>3, <1>9 DEF ScanInv, EndsConfirmed, NothingSkipped, Scanned, ScanTypeOK
<1>12. HandedConfirmed'
  BY <1>1, <1>3, <1>4, <1>5, <1>6 DEF ScanInv, HandedConfirmed, ScanTypeOK
<1>13. RowMissing'
  BY <1>3 DEF ScanInv, RowMissing
<1>14. QED
  BY <1>2, <1>8, <1>10, <1>11, <1>12, <1>13 DEF ScanInv

\* A Step touches neither the chain nor another Step, except through the
\* cursor and what was handed on.
LEMMA ScanInvStep ==
    ASSUME ScanInv, NEW w \in Worker, Step(w) \/ StepFails(w)
    PROVE  ScanInv'
<1> USE ScannerAssumption
<1>1. ScanTypeOK
  BY DEF ScanInv
<1>2. ScanTypeOK'
  BY <1>1, ScanTypeNext DEF Next
<1>3. UNCHANGED <<head, block, seed>>
  BY DEF Step, StepNow, StepGet, StepList, StepHand, StepHanded, StepSet, StepFails, chainVars
<1>4. \A v \in Worker : v # w => run'[v] = run[v]
  BY <1>1 DEF Step, StepNow, StepGet, StepList, StepHand, StepHanded, StepSet, StepFails,
              ScanTypeOK
<1>5. handed \subseteq handed'
  BY DEF Step, StepNow, StepGet, StepList, StepHand, StepHanded, StepSet, StepFails
\* What the other Steps have done stays done.
<1>6. ASSUME NEW v \in Worker, v # w
      PROVE  /\ run'[v].at # "idle" => Confirmed(run[v].tip)'
             /\ run'[v].at \in {"list", "hand", "set"} => Scanned(run[v].from - 1)'
             /\ run'[v].at = "hand" =>
                  /\ \A t \in run'[v].todo : block'[t] \in run'[v].from .. run'[v].to
                  /\ Listed(run[v].from, run[v].to)' \subseteq handed' \cup run'[v].todo
             /\ run'[v].at = "set" => Listed(run[v].from, run[v].to)' \subseteq handed'
             /\ seed = 0 => run'[v].at \in {"idle", "get"}
  <2>1. run'[v] = run[v]
    BY <1>4, <1>6
  <2>2. /\ run[v].at # "idle" => Confirmed(run[v].tip)
        /\ run[v].at \in {"list", "hand", "set"} => Scanned(run[v].from - 1)
        /\ run[v].at = "hand" =>
             /\ \A t \in run[v].todo : block[t] \in run[v].from .. run[v].to
             /\ Listed(run[v].from, run[v].to) \subseteq handed \cup run[v].todo
        /\ run[v].at = "set" => Listed(run[v].from, run[v].to) \subseteq handed
        /\ seed = 0 => run[v].at \in {"idle", "get"}
    BY DEF ScanInv, EndsConfirmed, BatchesScanned, RowMissing
  <2>3. run'[v].at # "idle" => Confirmed(run[v].tip)'
    BY <1>3, <2>1, <2>2 DEF Confirmed
  <2>4. run'[v].at \in {"list", "hand", "set"} => Scanned(run[v].from - 1)'
    BY <1>3, <1>5, <2>1, <2>2 DEF Scanned
  <2>5. Listed(run[v].from, run[v].to)' = Listed(run[v].from, run[v].to)
    BY <1>3, <2>1 DEF Listed
  <2>6. QED
    BY <1>3, <1>5, <2>1, <2>2, <2>3, <2>4, <2>5
\* So only this Step, the cursor and what it hands on are left to look at.
<1>7. SUFFICES
        /\ cursor' = 0 \/ Confirmed(cursor)'
        /\ run'[w].at # "idle" => Confirmed(run[w].tip)'
        /\ run'[w].at \in {"list", "hand", "set"} => Scanned(run[w].from - 1)'
        /\ run'[w].at = "hand" =>
             /\ \A t \in run'[w].todo : block'[t] \in run'[w].from .. run'[w].to
             /\ Listed(run[w].from, run[w].to)' \subseteq handed' \cup run'[w].todo
        /\ run'[w].at = "set" => Listed(run[w].from, run[w].to)' \subseteq handed'
        /\ Scanned(cursor)'
        /\ \A t \in handed' : block[t] > 0 /\ Confirmed(block[t])
        /\ seed = 0 => cursor' = 0 /\ handed' = {} /\ run'[w].at \in {"idle", "get"}
  <2>1. EndsConfirmed'
    <3>1. \A v \in Worker : run'[v].at # "idle" => Confirmed(run[v].tip)'
      BY <1>6, <1>7
    <3>2. QED
      BY <1>7, <3>1 DEF EndsConfirmed
  <2>2. BatchesScanned'
    BY <1>6, <1>7 DEF BatchesScanned, Scanned, Listed
  <2>3. NothingSkipped' /\ HandedConfirmed'
    BY <1>3, <1>7 DEF NothingSkipped, HandedConfirmed, Scanned, Confirmed
  <2>4. RowMissing'
    <3>1. \A v \in Worker : seed = 0 => run'[v].at \in {"idle", "get"}
      BY <1>6, <1>7
    <3>2. QED
      BY <1>3, <1>7, <3>1 DEF RowMissing
  <2>5. QED
    BY <1>2, <2>1, <2>2, <2>3, <2>4 DEF ScanInv
<1>8. /\ cursor = 0 \/ Confirmed(cursor)
      /\ Scanned(cursor)
      /\ \A t \in handed : block[t] > 0 /\ Confirmed(block[t])
      /\ seed = 0 => cursor = 0 /\ handed = {} /\ run[w].at \in {"idle", "get"}
  BY DEF ScanInv, EndsConfirmed, NothingSkipped, Scanned, HandedConfirmed, RowMissing
<1>9. run \in [Worker -> RunType] /\ run[w] \in RunType
  BY <1>1 DEF ScanTypeOK
<1>10. CASE StepNow(w)
  <2>1. run'[w] = [Idle EXCEPT !.at = "get", !.tip = Tip]
    BY <1>9, <1>10 DEF StepNow
  <2>2. Confirmed(Tip)
    BY <1>1 DEF Confirmed, Tip, ScanTypeOK
  <2>3. QED
    BY <1>3, <1>8, <1>10, <2>1, <2>2 DEF StepNow, Idle, Confirmed, Scanned
<1>11. CASE StepGet(w)
  <2> DEFINE from == FirstBlock(cursor, run[w].tip)
  <2>1. CASE from > run[w].tip
    <3>1. run'[w] = Idle
      BY <1>9, <1>11, <2>1 DEF StepGet
    <3>2. QED
      <4>1. cursor' = cursor /\ handed' = handed
        BY <1>11 DEF StepGet
      <4>2. run'[w].at = "idle"
        BY <3>1 DEF Idle
      <4>3. QED
        BY <1>3, <1>8, <4>1, <4>2 DEF Confirmed, Scanned
  <2>2. CASE ~ (from > run[w].tip)
    <3>1. run'[w] = [run[w] EXCEPT !.at = "list", !.from = from,
                                   !.to = BatchEnd(from, run[w].tip)]
      BY <1>9, <1>11, <2>2 DEF StepGet
    <3>2. cursor \in Nat /\ run[w].tip \in Nat
      BY <1>1, <1>9 DEF ScanTypeOK, RunType
    <3>3. cursor # 0 /\ from - 1 = cursor
      BY <2>2, <3>2 DEF FirstBlock
    <3>4. run'[w].at = "list" /\ run'[w].from = from /\ run'[w].tip = run[w].tip
      BY <1>9, <3>1 DEF RunType
    <3>5. Confirmed(run[w].tip)
      BY <1>11 DEF ScanInv, EndsConfirmed, StepGet
    <3>6. Scanned(from - 1)
      BY <1>8, <3>3
    <3> HIDE DEF from
    <3>7. handed' = handed /\ cursor' = cursor
      BY <1>11 DEF StepGet
    <3>8. Scanned(run[w].from - 1)'
      BY <1>3, <3>4, <3>6, <3>7 DEF Scanned
    <3>9. QED
      BY <1>3, <1>8, <3>3, <3>4, <3>5, <3>7, <3>8 DEF Confirmed, Scanned
  <2>3. QED
    BY <2>1, <2>2
<1>12. CASE StepList(w)
  <2>1. run'[w] = [run[w] EXCEPT !.at = "hand", !.todo = Listed(run[w].from, run[w].to)]
    BY <1>9, <1>12 DEF StepList
  <2>2. /\ run'[w].at = "hand" /\ run'[w].todo = Listed(run[w].from, run[w].to)
        /\ run'[w].tip = run[w].tip /\ run'[w].from = run[w].from /\ run'[w].to = run[w].to
    BY <1>9, <2>1 DEF RunType
  <2>3. Confirmed(run[w].tip) /\ Scanned(run[w].from - 1)
    BY <1>12 DEF ScanInv, EndsConfirmed, BatchesScanned, StepList
  <2>4. QED
    BY <1>3, <1>8, <1>12, <2>2, <2>3 DEF StepList, Confirmed, Scanned, Listed
<1>13. CASE StepHand(w)
  <2>1. PICK t \in run[w].todo : /\ handed' = handed \cup {t}
                                 /\ run' = [run EXCEPT ![w].todo = @ \ {t}]
    BY <1>13 DEF StepHand
  <2>2. /\ run'[w].at = "hand" /\ run'[w].todo = run[w].todo \ {t}
        /\ run'[w].tip = run[w].tip /\ run'[w].from = run[w].from /\ run'[w].to = run[w].to
    BY <1>9, <1>13, <2>1 DEF RunType, StepHand
  <2>3. /\ Confirmed(run[w].tip) /\ Scanned(run[w].from - 1)
        /\ \A u \in run[w].todo : block[u] \in run[w].from .. run[w].to
        /\ Listed(run[w].from, run[w].to) \subseteq handed \cup run[w].todo
    BY <1>13 DEF ScanInv, EndsConfirmed, BatchesScanned, StepHand
  <2>4. /\ run[w].from \in 1 .. run[w].to /\ run[w].to <= run[w].tip
        /\ run[w].from \in Nat /\ run[w].to \in Nat /\ run[w].tip \in Nat /\ head \in Nat
        /\ t \in Transfer
    BY <1>1, <1>9, <1>13 DEF ScanTypeOK, RunType, StepHand
  <2>5. block[t] > 0 /\ Confirmed(block[t])
    BY <1>1, <2>3, <2>4 DEF Confirmed, ScanTypeOK
  <2>6. seed # 0
    BY <1>8, <1>13 DEF StepHand
  <2>7. cursor' = cursor
    BY <1>13 DEF StepHand
  <2>8. Scanned(cursor)' /\ Scanned(run[w].from - 1)'
    BY <1>3, <1>5, <1>8, <2>2, <2>3, <2>7 DEF Scanned
  <2>9. /\ \A u \in run'[w].todo : block'[u] \in run'[w].from .. run'[w].to
        /\ Listed(run[w].from, run[w].to)' \subseteq handed' \cup run'[w].todo
    BY <1>3, <2>1, <2>2, <2>3 DEF Listed
  <2>10. QED
    BY <1>3, <1>8, <2>1, <2>2, <2>3, <2>5, <2>6, <2>7, <2>8, <2>9 DEF Confirmed
<1>14. CASE StepHanded(w)
  <2>1. run'[w] = [run[w] EXCEPT !.at = "set"]
    BY <1>9, <1>14 DEF StepHanded
  <2>2. /\ run'[w].at = "set"
        /\ run'[w].tip = run[w].tip /\ run'[w].from = run[w].from /\ run'[w].to = run[w].to
    BY <1>9, <2>1 DEF RunType
  <2>3. /\ Confirmed(run[w].tip) /\ Scanned(run[w].from - 1)
        /\ Listed(run[w].from, run[w].to) \subseteq handed
    BY <1>14 DEF ScanInv, EndsConfirmed, BatchesScanned, StepHanded
  <2>4. QED
    BY <1>3, <1>8, <1>14, <2>2, <2>3 DEF StepHanded, Confirmed, Scanned, Listed
<1>15. CASE StepSet(w)
  <2>1. run'[w] = Idle /\ cursor' = run[w].to /\ handed' = handed
    BY <1>9, <1>15 DEF StepSet
  <2>2. /\ Confirmed(run[w].tip) /\ Scanned(run[w].from - 1)
        /\ Listed(run[w].from, run[w].to) \subseteq handed
    BY <1>15 DEF ScanInv, EndsConfirmed, BatchesScanned, StepSet
  <2>3. /\ run[w].from \in 1 .. run[w].to /\ run[w].to <= run[w].tip
        /\ run[w].from \in Nat /\ run[w].to \in Nat /\ run[w].tip \in Nat
        /\ head \in Nat /\ seed \in Nat
    BY <1>1, <1>9, <1>15 DEF ScanTypeOK, RunType, StepSet
  <2>4. Confirmed(cursor)'
    BY <1>3, <2>1, <2>2, <2>3 DEF Confirmed
  <2>5. Scanned(run[w].to)
    <3> SUFFICES ASSUME NEW t \in Transfer, block[t] \in (seed + 1) .. run[w].to
                 PROVE  t \in handed
      BY DEF Scanned
    <3>1. CASE block[t] <= run[w].from - 1
      BY <2>2, <2>3, <3>1 DEF Scanned
    <3>2. CASE block[t] \in run[w].from .. run[w].to
      BY <2>2, <3>2 DEF Listed
    <3>3. QED
      BY <2>3, <3>1, <3>2
  <2>6. seed # 0
    BY <1>8, <1>15 DEF StepSet
  <2>7. QED
    BY <1>3, <1>8, <2>1, <2>4, <2>5, <2>6 DEF Scanned, Idle, Confirmed
<1>16. CASE StepFails(w)
  <2>1. run'[w] = Idle
    BY <1>9, <1>16 DEF StepFails
  <2>2. QED
    BY <1>3, <1>8, <1>16, <2>1 DEF StepFails, Idle, Confirmed, Scanned
<1>17. QED
  BY <1>10, <1>11, <1>12, <1>13, <1>14, <1>15, <1>16 DEF Step

LEMMA ScanInvNext == ScanInv /\ [Next]_vars => ScanInv'
<1>1. ASSUME ScanInv, UNCHANGED vars PROVE ScanInv'
  BY <1>1 DEF ScanInv, vars, chainVars, ScanTypeOK, EndsConfirmed, BatchesScanned,
     NothingSkipped, HandedConfirmed, RowMissing, Scanned, Confirmed, Listed
<1>2. QED
  BY <1>1, ScanInvChain, ScanInvStep DEF Next

LEMMA ScanInvariant == Spec => []ScanInv
BY ScanInvInit, ScanInvNext, PTL DEF Spec

-----------------------------------------------------------------------------
(* Theorems.                                                               *)

\* usdt.go:126-173: no transfer between the first cursor and the present one is
\* left out, for any number of overlapping, failing and dying Steps.
THEOREM NoTransferSkipped == Spec => []NothingSkipped
BY ScanInvariant, PTL DEF ScanInv

\* usdt.go:142-148: without a row the scanner never starts.
THEOREM FreshScannerIsIdle == Spec => []NoRowNoScan
<1>1. ScanInv => NoRowNoScan
  BY DEF ScanInv, RowMissing, NoRowNoScan
<1>2. QED
  BY <1>1, ScanInvariant, PTL

\* usdt.go:134: a transfer that was handed on stays in its block.
THEOREM HandedStaysFinal == Spec => HandedIsFinal
<1>1. ScanInv /\ [Next]_vars
        => [\A t \in handed : block[t] > 0 /\ block'[t] = block[t]]_vars
  <2> SUFFICES ASSUME ScanInv, Next, NEW t \in handed
               PROVE  block[t] > 0 /\ block'[t] = block[t]
    OBVIOUS
  <2>1. /\ ScanTypeOK /\ t \in Transfer /\ block[t] \in Nat
        /\ block[t] > 0 /\ Confirmed(block[t])
    BY DEF ScanInv, HandedConfirmed, ScanTypeOK
  <2>2. CASE Mine \/ \E s \in Transfer : Fork(s)
    BY <2>1, <2>2, ChainKeepsConfirmed
  <2>3. ASSUME NEW w \in Worker, Step(w) \/ StepFails(w) PROVE block' = block
    BY <2>3 DEF Step, StepNow, StepGet, StepList, StepHand, StepHanded, StepSet, StepFails,
                chainVars
  <2>4. QED
    BY <2>1, <2>2, <2>3 DEF Next
<1>2. QED
  BY <1>1, ScanInvariant, PTL DEF Spec, HandedIsFinal
=============================================================================
