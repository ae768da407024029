------------------------ MODULE ProtectedCallProofs ------------------------
(***************************************************************************)
(* Proofs about ProtectedCall, for any number of threads, executions and   *)
(* approvals, with or without fail-open, in every environment that the     *)
(* theorem does not exclude.                                               *)
(***************************************************************************)
EXTENDS ProtectedCall, TLAPS

(* Where a caller has an approval to wait for or to act on *)
Awaiting == {"register", "wait", "timedOut", "resolved"}

(* The approval a caller awaits, and the one whose push is being handled,  *)
(* exist.                                                                  *)
Named ==
  /\ \A c \in Callers : pc[c] \in Awaiting => appr[c] \in Approvals
  /\ hand.step # "idle" => hand.a \in Approvals

TypeInv == TypeOK /\ Named

(* The steps of the budget gate and the tool gate keep the types. *)
LEMMA GateTypes ==
  ASSUME TypeInv, NEW c \in Callers,
         Call(c) \/ CallUnscoped(c) \/ BudgetGate(c) \/ ToolGate(c)
  PROVE  TypeInv'
<1> USE DEF TypeInv, TypeOK, Named, Awaiting, Goto, Capture, Mint, MintApproval, AskApproval,
            backend, waiting, history, Places, Decisions, Outcomes, NoAnswer, Fallback
<1>1. CASE Call(c) \/ CallUnscoped(c)
  BY <1>1 DEF Call, CallUnscoped
<1>2. CASE LookUp(c)
  BY <1>2, SMTT(30) DEF LookUp, Decide
<1>3. CASE BudgetAnswer(c)
  <2>1. PICK answer \in [decision : Decisions, exec : Execs \cup {None},
                          appr : Approvals \cup {None}] :
          /\ IF answer.exec # None THEN Mint(answer.exec) ELSE UNCHANGED exec
          /\ IF answer.appr # None THEN MintApproval(answer.exec, answer.appr)
             ELSE UNCHANGED <<row, bound>>
          /\ Decide(c, answer)
          /\ cache' = IF CacheEnabled THEN answer ELSE cache
    BY <1>3 DEF BudgetAnswer
  <2>2. UNCHANGED <<verdict, push, stopped, waiting, index, got, history>>
    BY <1>3 DEF BudgetAnswer
  <2>3. /\ exec' \in [Execs -> {"unused", "open", "settled", "cancelled"}]
        /\ row' \in [Approvals -> {"unused", "PENDING", "APPROVED", "DENIED", "EXPIRED", "CONSUMED"}]
        /\ bound' \in [Approvals -> Execs \cup {None}]
    BY <2>1, SMTT(30)
  <2>4. cache' \in [decision : Decisions \cup {"none", "fallback"}, exec : Execs \cup {None},
                    appr : Approvals \cup {None}]
    BY <2>1
  <2>5. /\ eid' \in [Callers -> Execs \cup {None}]
        /\ \/ /\ \E place \in {"tool", "raise"} : Goto(c, place)
              /\ UNCHANGED <<gate, appr, needed>>
           \/ answer.appr \in Approvals /\ AskApproval(c, "budget", answer.appr)
    BY <2>1 DEF Decide
  <2>6. CASE (\E place \in {"tool", "raise"} : Goto(c, place)) /\ UNCHANGED <<gate, appr, needed>>
    BY <2>2, <2>3, <2>4, <2>5, <2>6
  <2>7. CASE answer.appr \in Approvals /\ AskApproval(c, "budget", answer.appr)
    <3>1. /\ pc' = [pc EXCEPT ![c] = "register"] /\ gate' = [gate EXCEPT ![c] = "budget"]
          /\ appr' = [appr EXCEPT ![c] = answer.appr]
          /\ needed' = [needed EXCEPT ![c] = @ \cup {answer.appr}]
      BY <2>7
    <3> QED
      BY <2>2, <2>3, <2>4, <2>5, <2>7, <3>1
  <2> QED
    BY <2>5, <2>6, <2>7
<1>4. CASE BudgetUnreachable(c)
  BY <1>4 DEF BudgetUnreachable, Decide
<1>5. CASE BudgetError(c)
  BY <1>5 DEF BudgetError
<1>6. CASE ToolAllow(c)
  BY <1>6 DEF ToolAllow
<1>7. CASE ToolBlock(c)
  BY <1>7 DEF ToolBlock
<1>8. CASE ToolApproval(c)
  <2>1. PICK x \in Execs :
          /\ Mint(x)
          /\ Capture(c, x)
          /\ \/ \E a \in Approvals : MintApproval(x, a) /\ AskApproval(c, "tool", a)
             \/ /\ "error" \in Env
                /\ Goto(c, "raise")
                /\ UNCHANGED <<row, bound, gate, appr, needed>>
    BY ONLY <1>8, Zenon DEF ToolApproval
  <2>2. UNCHANGED <<verdict, push, stopped, cache, waiting, index, got, history>>
    BY <1>8 DEF ToolApproval
  <2>3. CASE \E a \in Approvals : MintApproval(x, a) /\ AskApproval(c, "tool", a)
    <3>1. PICK a \in Approvals : MintApproval(x, a) /\ AskApproval(c, "tool", a)
      BY <2>3
    <3>2. /\ exec' \in [Execs -> {"unused", "open", "settled", "cancelled"}]
          /\ row' \in [Approvals -> {"unused", "PENDING", "APPROVED", "DENIED", "EXPIRED",
                                    "CONSUMED"}]
          /\ bound' \in [Approvals -> Execs \cup {None}]
          /\ eid' \in [Callers -> Execs \cup {None}]
      BY <2>1, <3>1
    <3>3. /\ pc' = [pc EXCEPT ![c] = "register"] /\ gate' = [gate EXCEPT ![c] = "tool"]
          /\ appr' = [appr EXCEPT ![c] = a] /\ needed' = [needed EXCEPT ![c] = @ \cup {a}]
      BY <3>1
    <3> QED
      BY <2>2, <3>2, <3>3
  <2>4. CASE Goto(c, "raise") /\ UNCHANGED <<row, bound, gate, appr, needed>>
    BY <2>1, <2>2, <2>4
  <2> QED
    BY <2>1, <2>3, <2>4
<1>9. CASE ToolError(c)
  BY <1>9 DEF ToolError
<1>10. CASE ToolUnreachable(c)
  BY <1>10 DEF ToolUnreachable
<1> QED
  BY <1>1, <1>2, <1>3, <1>4, <1>5, <1>6, <1>7, <1>8, <1>9, <1>10 DEF BudgetGate, ToolGate

(* So do the wait, what follows it, the body and the cleanup. *)
LEMMA CallTypes ==
  ASSUME TypeInv, NEW c \in Callers, Await(c) \/ Outcome(c) \/ Body(c)
  PROVE  TypeInv'
<1> USE DEF TypeInv, TypeOK, Named, Awaiting, Goto, Capture, Act, ConsumeApproval, Read,
            backend, waiting, history, Places, Outcomes
<1>1. CASE Register(c)
  BY <1>1 DEF Register
<1>2. CASE Wake(c)
  BY <1>2 DEF Wake
<1>3. CASE TimeOut(c)
  BY <1>3 DEF TimeOut
<1>4. CASE Unregister(c)
  BY <1>4, SMTT(30) DEF Unregister
<1>5. CASE Refused(c)
  BY <1>5 DEF Refused
<1>6. CASE BudgetApproved(c)
  BY <1>6 DEF BudgetApproved
<1>7. CASE Unindex(c)
  BY <1>7 DEF Unindex
<1>8. CASE ReCheck(c)
  <2>1. /\ row' \in [Approvals -> {"unused", "PENDING", "APPROVED", "DENIED", "EXPIRED", "CONSUMED"}]
        /\ UNCHANGED <<exec, bound, verdict, push, stopped, cache, waiting, index, eid, gate,
                       appr, needed, history>>
    BY <1>8 DEF ReCheck
  <2>2. /\ got' = [got EXCEPT ![c] = "none"]
        /\ \E place \in {"body", "raise"} : pc' = [pc EXCEPT ![c] = place]
    BY <1>8 DEF ReCheck
  <2>3. /\ got' \in [Callers -> Outcomes \cup {"none", "timeout"}]
        /\ pc' \in [Callers -> Places]
    BY <2>2
  <2>4. \A d \in Callers : pc'[d] \in Awaiting => pc[d] \in Awaiting
    BY <2>2
  <2> QED
    BY <2>1, <2>3, <2>4
<1>9. CASE BodyReturns(c)
  BY <1>9 DEF BodyReturns
<1>10. CASE BodyRaises(c)
  BY <1>10 DEF BodyRaises
<1>11. CASE Cancel(c)
  BY <1>11 DEF Cancel
<1>12. CASE CloseOrphan(c)
  BY <1>12 DEF CloseOrphan
<1> QED
  BY <1>1, <1>2, <1>3, <1>4, <1>5, <1>6, <1>7, <1>8, <1>9, <1>10, <1>11, <1>12
     DEF Await, Outcome, Body

(* So do the WebSocket thread and the backend. *)
LEMMA OtherTypes ==
  ASSUME TypeInv,
         \/ \E a \in Approvals : Deliver(a) \/ Resolve(a) \/ SweepGrant(a) \/ LosePush(a)
         \/ \E x \in Execs : Settle(x)
         \/ Handler \/ Control \/ CacheExpires
  PROVE  TypeInv'
<1> USE DEF TypeInv, TypeOK, Named, Awaiting, backend, waiting, history, Outcomes, NoAnswer, Idle
<1>1. ASSUME NEW a \in Approvals, Deliver(a) PROVE TypeInv'
  BY <1>1 DEF Deliver
<1>2. ASSUME NEW a \in Approvals, Resolve(a) PROVE TypeInv'
  BY <1>2 DEF Resolve
<1>3. ASSUME NEW a \in Approvals, SweepGrant(a) PROVE TypeInv'
  BY <1>3 DEF SweepGrant
<1>4. ASSUME NEW a \in Approvals, LosePush(a) PROVE TypeInv'
  BY <1>4 DEF LosePush
<1>5. ASSUME NEW x \in Execs, Settle(x) PROVE TypeInv'
  BY <1>5 DEF Settle
<1>6. CASE Mark
  BY <1>6 DEF Mark
<1>7. CASE SetEvent
  BY <1>7 DEF SetEvent
<1>8. CASE Stash
  BY <1>8 DEF Stash
<1>9. CASE Control
  BY <1>9 DEF Control
<1>10. CASE CacheExpires
  BY <1>10 DEF CacheExpires
<1> QED
  BY <1>1, <1>2, <1>3, <1>4, <1>5, <1>6, <1>7, <1>8, <1>9, <1>10 DEF Handler

(* The types, strengthened with what the pushes and the waits name *)
LEMMA TypesHold == Spec => []TypeInv
<1>1. Init => TypeInv
  <2> SUFFICES ASSUME Init PROVE TypeInv
    OBVIOUS
  <2>1. /\ cache \in [decision : Decisions \cup {"none", "fallback"}, exec : Execs \cup {None},
                      appr : Approvals \cup {None}]
        /\ hand \in [step : {"idle", "mark", "set", "stash"}, a : Approvals \cup {None},
                     who : Callers \cup {None}]
        /\ hand.step = "idle"
    BY DEF Init, NoAnswer, Idle
  <2>2. /\ needed \in [Callers -> SUBSET Approvals]
        /\ event \in [Callers -> BOOLEAN]
    BY DEF Init
  <2>3. /\ pc \in [Callers -> Places]
        /\ \A c \in Callers : pc[c] \notin Awaiting
    BY DEF Init, Places, Awaiting
  <2> QED
    BY <2>1, <2>2, <2>3 DEF Init, TypeInv, TypeOK, Named, Outcomes
<1>2. TypeInv /\ [Next]_vars => TypeInv'
  <2> SUFFICES ASSUME TypeInv, [Next]_vars PROVE TypeInv'
    OBVIOUS
  <2>1. CASE UNCHANGED vars
    BY <2>1 DEF vars, backend, waiting, history, TypeInv, TypeOK, Named, Awaiting
  <2>2. CASE Next
    BY <2>2, GateTypes, CallTypes, OtherTypes DEF Next, Step
  <2> QED
    BY <2>1, <2>2
<1> QED
  BY <1>1, <1>2, PTL DEF Spec

(* Every variable keeps its type: in particular nobody ever waits for, is  *)
(* woken by or marks an approval that no gate has named.                   *)
THEOREM TypeCorrect == Spec => []TypeOK
<1>1. TypeInv => TypeOK
  BY DEF TypeInv
<1> QED
  BY <1>1, TypesHold, PTL

----------------------------------------------------------------------------
(* A body only runs when what it needs is granted.  The invariant follows  *)
(* a grant from the row to the body.                                       *)

(* A row that is not resolved has no verdict, so a verdict never changes.  *)
Unresolved == \A a \in Approvals : row[a] \in {"unused", "PENDING"} => verdict[a] = "none"

(* An entry, registered or in the handler's hands, is of a caller that     *)
(* waits for that very approval, and is in one of the two places: an entry *)
(* whose event is set is registered no longer.                             *)
Waiting(c) == pc[c] \in {"wait", "timedOut"}
Owned ==
  /\ \A a \in Approvals : pending[a] # None => Waiting(pending[a]) /\ appr[pending[a]] = a
  /\ hand.who # None => /\ Waiting(hand.who) /\ appr[hand.who] = hand.a /\ hand.step # "idle"
                        /\ \A a \in Approvals : pending[a] # hand.who
  /\ \A c \in Callers : event[c] => Waiting(c) /\ \A a \in Approvals : pending[a] # c

(* What is in an entry or has been read from it is the operator's answer.  *)
Truthful ==
  \A c \in Callers :
    /\ outcome[c] # "none" => Waiting(c)
    /\ outcome[c] = "approved" => appr[c] \in Granted
    /\ got[c] = "approved" => pc[c] = "resolved" /\ appr[c] \in Granted

(* What the gates have asked for so far is granted, except for what the    *)
(* caller still waits for.                                                 *)
Met(c) ==
  /\ pc[c] \in {"budget", "asking"} => needed[c] = {}
  /\ pc[c] \in Awaiting => needed[c] \subseteq Granted \cup {appr[c]}
  /\ pc[c] \in {"unindex", "tool", "body"} => needed[c] \subseteq Granted
NeedsMet == \A c \in Callers : Met(c)

(* Approvals are only granted, never taken back. *)
LEMMA GrantsLast ==
  ASSUME TypeInv, Unresolved, Next
  PROVE  Unresolved' /\ Granted \subseteq Granted'
<1> USE DEF TypeInv, TypeOK, Unresolved, Granted, backend, Goto, Act, AskApproval
<1>1. CASE UNCHANGED <<row, verdict>>
  BY <1>1
<1>2. ASSUME NEW a \in Approvals, row[a] = "unused", row' = [row EXCEPT ![a] = "PENDING"],
             UNCHANGED verdict
      PROVE  Unresolved' /\ Granted \subseteq Granted'
  BY <1>2
<1>3. ASSUME NEW a \in Approvals, row[a] = "APPROVED", UNCHANGED verdict,
             \E s \in {"CONSUMED", "EXPIRED"} : row' = [row EXCEPT ![a] = s]
      PROVE  Unresolved' /\ Granted \subseteq Granted'
  BY <1>3
<1>4. ASSUME NEW a \in Approvals, Resolve(a)
      PROVE  Unresolved' /\ Granted \subseteq Granted'
  BY <1>4 DEF Resolve, Outcomes
<1>5. ASSUME NEW c \in Callers, BudgetAnswer(c)
      PROVE  Unresolved' /\ Granted \subseteq Granted'
  BY <1>1, <1>2, <1>5 DEF BudgetAnswer, MintApproval
<1>6. ASSUME NEW c \in Callers, ToolApproval(c)
      PROVE  Unresolved' /\ Granted \subseteq Granted'
  BY <1>1, <1>2, <1>6 DEF ToolApproval, MintApproval
<1>7. ASSUME NEW c \in Callers, BudgetApproved(c) \/ ReCheck(c) \/ CloseOrphan(c)
      PROVE  Unresolved' /\ Granted \subseteq Granted'
  <2>1. appr[c] \in Approvals \/ CloseOrphan(c)
    BY <1>7 DEF Named, Awaiting, BudgetApproved, ReCheck
  <2>2. CASE BudgetApproved(c)
    BY <1>1, <1>3, <2>1, <2>2 DEF BudgetApproved, ConsumeApproval, CloseOrphan
  <2>3. CASE ReCheck(c)
    BY <1>1, <1>3, <2>1, <2>3 DEF ReCheck, CloseOrphan
  <2>4. CASE CloseOrphan(c)
    BY <1>1, <2>4 DEF CloseOrphan, ConsumeApproval
  <2> QED
    BY <1>7, <2>2, <2>3, <2>4
<1>8. ASSUME NEW a \in Approvals, SweepGrant(a)
      PROVE  Unresolved' /\ Granted \subseteq Granted'
  BY <1>3, <1>8 DEF SweepGrant
<1>9. ASSUME NEW c \in Callers,
             \/ Call(c) \/ CallUnscoped(c) \/ LookUp(c) \/ BudgetUnreachable(c) \/ BudgetError(c) \/ ToolAllow(c)
             \/ ToolBlock(c) \/ ToolError(c) \/ ToolUnreachable(c) \/ Await(c) \/ Refused(c)
             \/ Unindex(c) \/ BodyReturns(c) \/ BodyRaises(c) \/ Cancel(c)
      PROVE  UNCHANGED <<row, verdict>>
  BY <1>9, Zenon DEF Call, CallUnscoped, LookUp, BudgetUnreachable, BudgetError, ToolAllow, ToolBlock, ToolError,
     ToolUnreachable, Await, Register, Wake, TimeOut, Unregister, Refused, Unindex, BodyReturns,
     BodyRaises, Cancel
<1>10. ASSUME \/ \E a \in Approvals : Deliver(a) \/ LosePush(a)
              \/ \E x \in Execs : Settle(x)
              \/ Handler \/ Control \/ CacheExpires
       PROVE  UNCHANGED <<row, verdict>>
  BY <1>10, Zenon DEF Deliver, LosePush, Settle, Handler, Mark, SetEvent, Stash, Control, CacheExpires
<1> QED
  BY <1>1, <1>4, <1>5, <1>6, <1>7, <1>8, <1>9, <1>10
     DEF Next, Step, BudgetGate, ToolGate, Outcome, Body

Chain == Owned /\ Truthful /\ NeedsMet

(* A step of c's own, before or after its wait *)
Quiet(c) ==
  /\ ~Waiting(c) /\ ~Waiting(c)'
  /\ UNCHANGED waiting
  /\ \A d \in Callers \ {c} : /\ pc'[d] = pc[d] /\ appr'[d] = appr[d]
                             /\ got'[d] = got[d] /\ needed'[d] = needed[d]
  /\ got'[c] # "approved"

LEMMA QuietStep ==
  ASSUME TypeInv, Chain, Granted \subseteq Granted', NEW c \in Callers, Quiet(c), Met(c)'
  PROVE  Chain'
<1> USE DEF Quiet, Chain, waiting, Waiting
<1>1. Owned'
  BY DEF Owned, TypeInv, TypeOK
<1>2. Truthful'
  BY DEF Truthful
<1>3. NeedsMet'
  <2> SUFFICES ASSUME NEW d \in Callers, d # c PROVE Met(d)'
    BY DEF NeedsMet
  <2> QED
    BY DEF NeedsMet, Met
<1> QED
  BY <1>1, <1>2, <1>3

(* The gates, the body and the cleanup *)
LEMMA GateChain ==
  ASSUME TypeInv, Chain, Granted \subseteq Granted', NEW c \in Callers,
         Call(c) \/ CallUnscoped(c) \/ BudgetGate(c) \/ ToolGate(c) \/ Outcome(c) \/ Body(c)
  PROVE  Chain'
<1> SUFFICES Quiet(c) /\ Met(c)'
  BY QuietStep
<1> USE DEF TypeInv, TypeOK, Chain, Truthful, Waiting, Quiet, Goto, Act, waiting, AskApproval
<1>1. Met(c)
  BY DEF NeedsMet
<1>2. CASE Call(c) \/ CallUnscoped(c)
  BY <1>2 DEF Call, CallUnscoped, Met, Awaiting
<1>3. CASE LookUp(c)
  BY <1>1, <1>3 DEF LookUp, Decide, Met, Awaiting
<1>4. CASE BudgetAnswer(c)
  BY <1>1, <1>4 DEF BudgetAnswer, Decide, Met, Awaiting
<1>5. CASE BudgetUnreachable(c) \/ BudgetError(c)
  BY <1>1, <1>5 DEF BudgetUnreachable, BudgetError, Decide, Fallback, Met, Awaiting
<1>6. CASE ToolAllow(c) \/ ToolBlock(c) \/ ToolError(c) \/ ToolUnreachable(c)
  BY <1>1, <1>6 DEF ToolAllow, ToolBlock, ToolError, ToolUnreachable, Met, Awaiting
<1>7. CASE ToolApproval(c)
  BY <1>1, <1>7 DEF ToolApproval, Met, Awaiting
<1>8. CASE Refused(c) \/ BudgetApproved(c)
  BY <1>1, <1>8 DEF Refused, BudgetApproved, Met, Awaiting
<1>9. CASE Unindex(c)
  BY <1>1, <1>9 DEF Unindex, Met, Awaiting
<1>10. CASE ReCheck(c)
  BY <1>1, <1>10 DEF ReCheck, Met, Awaiting
<1>11. CASE Body(c)
  BY <1>1, <1>11 DEF Body, BodyReturns, BodyRaises, Cancel, CloseOrphan, Met, Awaiting
<1> QED
  BY <1>2, <1>3, <1>4, <1>5, <1>6, <1>7, <1>8, <1>9, <1>10, <1>11
     DEF BudgetGate, ToolGate, Outcome

(* The wait *)
LEMMA AwaitChain ==
  ASSUME TypeInv, Chain, Granted \subseteq Granted', NEW c \in Callers, Await(c)
  PROVE  Chain'
<1> USE DEF TypeInv, TypeOK, Chain, Waiting, Goto, Read, Named, Awaiting, waiting
<1>1. CASE Register(c)
  <2>1. Owned'
    BY <1>1, Distinct DEF Register, Owned
  <2>2. Truthful' /\ NeedsMet'
    BY <1>1 DEF Register, Truthful, NeedsMet, Met
  <2> QED
    BY <2>1, <2>2
<1>2. CASE Wake(c)
  <2>1. Owned'
    BY <1>2, Distinct DEF Wake, Owned
  <2>2. Truthful'
    BY <1>2 DEF Wake, Truthful
  <2>3. NeedsMet'
    BY <1>2 DEF Wake, NeedsMet, Met
  <2> QED
    BY <2>1, <2>2, <2>3
<1>3. CASE TimeOut(c)
  <2>1. Owned' /\ Truthful'
    BY <1>3 DEF TimeOut, Owned, Truthful
  <2>2. NeedsMet'
    BY <1>3 DEF TimeOut, NeedsMet, Met
  <2> QED
    BY <2>1, <2>2
<1>4. CASE Unregister(c)
  <2>1. Owned'
    BY <1>4, Distinct DEF Unregister, Owned
  <2>2. Truthful'
    BY <1>4 DEF Unregister, Truthful
  <2>3. NeedsMet'
    BY <1>4 DEF Unregister, NeedsMet, Met
  <2> QED
    BY <2>1, <2>2, <2>3
<1> QED
  BY <1>1, <1>2, <1>3, <1>4 DEF Await

(* The WebSocket thread and the backend *)
LEMMA OtherChain ==
  ASSUME TypeInv, Chain, Granted \subseteq Granted',
         \/ \E a \in Approvals : Deliver(a) \/ Resolve(a) \/ SweepGrant(a) \/ LosePush(a)
         \/ \E x \in Execs : Settle(x)
         \/ Handler \/ Control \/ CacheExpires
  PROVE  Chain'
<1> USE DEF TypeInv, TypeOK, Chain, Waiting, Named, waiting
<1>1. UNCHANGED <<pc, appr, got, needed>>
  BY Zenon DEF Deliver, Resolve, SweepGrant, LosePush, Settle, Handler, Mark, SetEvent, Stash, Control,
               CacheExpires
<1>2. NeedsMet'
  BY <1>1 DEF NeedsMet, Met, Awaiting
<1>3. CASE UNCHANGED waiting
  BY <1>1, <1>2, <1>3 DEF Owned, Truthful
<1>4. ASSUME NEW a \in Approvals, Deliver(a) PROVE Chain'
  <2>1. Truthful'
    BY <1>1, <1>4 DEF Deliver, Truthful
  <2>2. Owned'
    BY <1>1, <1>4, Distinct DEF Deliver, Owned, Idle
  <2> QED
    BY <1>2, <2>1, <2>2
<1>5. CASE Mark
  BY <1>1, <1>2, <1>5 DEF Mark, Owned, Truthful
<1>6. CASE SetEvent
  <2>1. Truthful'
    BY <1>1, <1>6 DEF SetEvent, Truthful
  <2>2. Owned'
    BY <1>1, <1>6 DEF SetEvent, Owned
  <2> QED
    BY <1>2, <2>1, <2>2
<1>7. CASE Stash
  <2>1. Truthful'
    BY <1>1, <1>7 DEF Stash, Truthful, Owned, Granted
  <2>2. Owned'
    BY <1>1, <1>7 DEF Stash, Owned, Idle
  <2> QED
    BY <1>2, <2>1, <2>2
<1>8. ASSUME \/ \E a \in Approvals : Resolve(a) \/ SweepGrant(a) \/ LosePush(a)
             \/ \E x \in Execs : Settle(x)
             \/ Control \/ CacheExpires
      PROVE  UNCHANGED waiting
  BY <1>8, Zenon DEF Resolve, SweepGrant, LosePush, Settle, Control, CacheExpires
<1> QED
  BY <1>3, <1>4, <1>5, <1>6, <1>7, <1>8 DEF Handler

LEMMA ChainHolds == Spec => [](TypeInv /\ Unresolved /\ Chain)
<1>1. Init => Unresolved /\ Chain
  BY DEF Init, Unresolved, Chain, Owned, Truthful, NeedsMet, Met, Awaiting, Waiting, Idle
<1>2. TypeInv /\ Unresolved /\ Chain /\ [Next]_vars => Unresolved' /\ Chain'
  <2> SUFFICES ASSUME TypeInv, Unresolved, Chain, [Next]_vars PROVE Unresolved' /\ Chain'
    OBVIOUS
  <2>1. CASE UNCHANGED vars
    BY <2>1 DEF vars, backend, waiting, Unresolved, Chain, Owned, Truthful, NeedsMet, Met,
                Waiting, Granted
  <2>2. CASE Next
    BY <2>2, GrantsLast, GateChain, AwaitChain, OtherChain DEF Next, Step
  <2> QED
    BY <2>1, <2>2
<1> QED
  BY <1>1, <1>2, TypesHold, PTL DEF Spec

(* A body runs only after every approval its gates asked for was granted,  *)
(* for any number of threads, calls and approvals, in every environment    *)
(* and also under NULLRUN_SENSITIVE_FAIL_OPEN.                             *)
THEOREM ApprovalSafe == Spec => []RunsOnlyApproved
<1>1. Chain => RunsOnlyApproved
  BY DEF Chain, NeedsMet, Met, RunsOnlyApproved
<1> QED
  BY <1>1, ChainHolds, PTL

----------------------------------------------------------------------------
(* Reservations.  An id in a context outlives its call, so a body runs on  *)
(* an open reservation only because every call captures its own before it  *)
(* gets anywhere: unless calls share an answer, or skip the budget gate,   *)
(* or that gate fails open before the capture.                             *)
ScopedEnv == Env \cap {"chain", "unscoped", "uncaptured"} = {}

(* Where a call has captured the answer of its own gate                    *)
Charging == Awaiting \cup {"tool", "unindex", "body"}

(* Ids that are captured or completed were minted.                         *)
Minted ==
  /\ \A c \in Callers : eid[c] # None => exec[eid[c]] # "unused"
  /\ \A x \in completed : exec[x] # "unused"

(* No two contexts hold one id.                                            *)
Exclusive == \A c, d \in Callers : c # d /\ eid[c] # None => eid[c] # eid[d]

(* The reservation of a call that may still reach its body is open, and no *)
(* body has completed on it.                                               *)
Chargeable ==
  \A c \in Callers : pc[c] \in Charging /\ eid[c] # None => exec[eid[c]] = "open" /\ eid[c] \notin completed

Reserved == Minted /\ Exclusive /\ Chargeable

(* A step that leaves ids alone, and brings no call back to its gates      *)
LEMMA IdleReserved ==
  ASSUME TypeInv, Reserved, UNCHANGED <<exec, eid, completed>>,
         \A c \in Callers : pc'[c] \in Charging => pc[c] \in Charging
  PROVE  Reserved'
BY DEF Reserved, Minted, Exclusive, Chargeable

(* A gate mints x for c. *)
LEMMA MintReserved ==
  ASSUME TypeInv, Reserved, NEW c \in Callers, NEW x \in Execs, Mint(x), Capture(c, x),
         UNCHANGED completed, \A d \in Callers \ {c} : pc'[d] = pc[d]
  PROVE  Reserved'
BY DEF TypeInv, TypeOK, Reserved, Minted, Exclusive, Chargeable, Mint, Capture

(* c's context is cleared. *)
LEMMA ClearReserved ==
  ASSUME TypeInv, Reserved, NEW c \in Callers, Capture(c, None),
         UNCHANGED <<exec, completed>>, \A d \in Callers \ {c} : pc'[d] = pc[d]
  PROVE  Reserved'
BY DEF TypeInv, TypeOK, Reserved, Minted, Exclusive, Chargeable, Capture

LEMMA CallReserved ==
  ASSUME TypeInv, Reserved, ScopedEnv, NEW c \in Callers, Call(c) \/ CallUnscoped(c) \/ Step(c)
  PROVE  Reserved'
<1> USE DEF Goto, Act, AskApproval, history
<1>0. pc \in [Callers -> Places]
  BY DEF TypeInv, TypeOK
<1>1. CASE Call(c)
  BY <1>0, <1>1, IdleReserved DEF Call, backend, Charging, Awaiting
<1>2. ~CallUnscoped(c)
  BY DEF CallUnscoped, ScopedEnv
<1>3. CASE LookUp(c)
  BY <1>0, <1>3, IdleReserved DEF LookUp, CacheEnabled, ScopedEnv, backend, Charging, Awaiting
<1>4. CASE BudgetAnswer(c)
  <2>1. PICK answer \in [decision : Decisions, exec : Execs \cup {None}, appr : Approvals \cup {None}] :
          /\ IF answer.exec # None THEN Mint(answer.exec) ELSE UNCHANGED exec
          /\ Decide(c, answer)
    BY <1>4, Zenon DEF BudgetAnswer
  <2>2. Capture(c, answer.exec) /\ \A d \in Callers \ {c} : pc'[d] = pc[d]
    BY <1>0, <2>1 DEF Decide
  <2>3. UNCHANGED completed
    BY <1>4 DEF BudgetAnswer
  <2> QED
    BY <2>1, <2>2, <2>3, MintReserved, ClearReserved
<1>5. CASE BudgetUnreachable(c)
  <2>1. Capture(c, None) /\ \A d \in Callers \ {c} : pc'[d] = pc[d]
    BY <1>0, <1>5 DEF BudgetUnreachable, Decide, Fallback
  <2> QED
    BY <1>5, <2>1, ClearReserved DEF BudgetUnreachable, backend
<1>6. CASE BudgetError(c) \/ ToolError(c) \/ ToolUnreachable(c)
  BY <1>0, <1>6, IdleReserved DEF BudgetError, ScopedEnv, ToolError, ToolUnreachable, backend, Charging, Awaiting
<1>7. CASE ToolAllow(c) \/ ToolBlock(c)
  <2>1. \A d \in Callers \ {c} : pc'[d] = pc[d]
    BY <1>0, <1>7 DEF ToolAllow, ToolBlock
  <2>2. \A d \in Callers : pc'[d] \in Charging => pc[d] \in Charging
    BY <1>0, <1>7 DEF ToolAllow, ToolBlock, Charging
  <2> QED
    BY <1>7, <2>1, <2>2, IdleReserved, ClearReserved DEF ToolAllow, ToolBlock, backend
<1>8. CASE ToolApproval(c)
  <2>1. PICK x \in Execs : Mint(x) /\ Capture(c, x)
    BY <1>8 DEF ToolApproval
  <2>2. UNCHANGED completed /\ \A d \in Callers \ {c} : pc'[d] = pc[d]
    BY <1>0, <1>8 DEF ToolApproval
  <2> QED
    BY <2>1, <2>2, MintReserved
<1>9. CASE Await(c)
  BY <1>0, <1>9, IdleReserved
     DEF Await, Register, Wake, TimeOut, Unregister, Read, backend, Charging, Awaiting
<1>10. CASE Outcome(c)
  <2>1. \A d \in Callers : pc'[d] \in Charging => pc[d] \in Charging
    BY <1>0, <1>10 DEF Outcome, Refused, BudgetApproved, Unindex, ReCheck, Charging, Awaiting
  <2> QED
    BY <1>10, <2>1, IdleReserved DEF Outcome, Refused, BudgetApproved, Unindex, ReCheck, backend
<1>11. CASE BodyReturns(c)
  BY <1>0, <1>11, Distinct
     DEF BodyReturns, Capture, Charging, Awaiting, backend, TypeInv, TypeOK, Reserved, Minted, Exclusive, Chargeable
<1>12. CASE BodyRaises(c) \/ CloseOrphan(c)
  BY <1>0, <1>12, IdleReserved DEF BodyRaises, CloseOrphan, backend, Charging, Awaiting
<1>13. CASE Cancel(c)
  BY <1>0, <1>13
     DEF Cancel, Charging, Awaiting, TypeInv, TypeOK, Reserved, Minted, Exclusive, Chargeable
<1> QED
  BY <1>1, <1>2, <1>3, <1>4, <1>5, <1>6, <1>7, <1>8, <1>9, <1>10, <1>11, <1>12, <1>13
     DEF Step, BudgetGate, ToolGate, Body

LEMMA OtherReserved ==
  ASSUME TypeInv, Reserved,
         \/ \E a \in Approvals : Deliver(a) \/ Resolve(a) \/ SweepGrant(a) \/ LosePush(a)
         \/ \E x \in Execs : Settle(x)
         \/ Handler \/ Control \/ CacheExpires
  PROVE  Reserved'
<1>1. UNCHANGED <<pc, eid, completed>>
  BY Zenon DEF Deliver, Resolve, SweepGrant, LosePush, Settle, Handler, Mark, SetEvent, Stash, Control,
               CacheExpires, history
<1>2. ASSUME NEW x \in Execs, Settle(x) PROVE Reserved'
  BY <1>1, <1>2 DEF Settle, TypeInv, TypeOK, Reserved, Minted, Exclusive, Chargeable
<1>3. ASSUME \/ \E a \in Approvals : Deliver(a) \/ Resolve(a) \/ SweepGrant(a) \/ LosePush(a)
             \/ Handler \/ Control \/ CacheExpires
      PROVE  UNCHANGED exec
  BY <1>3, Zenon DEF Deliver, Resolve, SweepGrant, LosePush, Handler, Mark, SetEvent, Stash, Control,
               CacheExpires, backend
<1> QED
  BY <1>1, <1>2, <1>3, IdleReserved

LEMMA ReservedHolds ==
  ASSUME ScopedEnv
  PROVE  Spec => []Reserved
<1>1. Init => Reserved
  BY DEF Init, Reserved, Minted, Exclusive, Chargeable, Charging, Awaiting
<1>2. TypeInv /\ Reserved /\ [Next]_vars => Reserved'
  <2> SUFFICES ASSUME TypeInv, Reserved, [Next]_vars PROVE Reserved'
    OBVIOUS
  <2>1. CASE UNCHANGED vars
    BY <2>1, IdleReserved DEF vars, backend, history
  <2>2. CASE Next
    BY <2>2, CallReserved, OtherReserved DEF Next
  <2> QED
    BY <2>1, <2>2
<1> QED
  BY <1>1, <1>2, TypesHold, PTL DEF Spec

(* While a body runs, the reservation it is charged to is open: in every   *)
(* environment with scoped calls that do not share cached answers, that    *)
(* is, whatever kills, errors, outages, approvals and aged reservations    *)
(* come before.                                                            *)
THEOREM ReservationSafe ==
  ASSUME ScopedEnv
  PROVE  Spec => []RunsOnOpenReservation
<1>1. Reserved => RunsOnOpenReservation
  BY DEF Reserved, Chargeable, Charging, RunsOnOpenReservation
<1> QED
  BY <1>1, ReservedHolds, PTL

(* A call that raises cancels the id in its context.  It is its own if no  *)
(* call raises before its gate has answered.                               *)
CalmEnv == ScopedEnv /\ Env \cap {"kill", "error"} = {}

(* The reservation that a cleanup cancels is not one a body completed on.  *)
CancelsOwn ==
  /\ ~stopped
  /\ \A c \in Callers : pc[c] \in {"raise", "orphan"} => eid[c] \notin completed

Kept == CancelsOwn /\ CompletedNeverCancelled

(* A step that completes and cancels nothing, and in which only c may come *)
(* to its cleanup                                                          *)
LEMMA IdleKept ==
  ASSUME TypeInv, Reserved, Kept, UNCHANGED <<stopped, completed>>,
         \A x \in Execs : exec'[x] = "cancelled" => exec[x] = "cancelled",
         \A c \in Callers : pc'[c] \in {"raise", "orphan"} =>
            \/ pc[c] \in Charging \cup {"raise", "orphan"} /\ eid'[c] = eid[c]
            \/ eid'[c] \notin completed
  PROVE  Kept'
<1>1. CompletedNeverCancelled'
  BY DEF Kept, CompletedNeverCancelled, TypeInv, TypeOK
<1>2. \A c \in Callers : pc[c] \in Charging => eid[c] \notin completed
  BY Distinct DEF Reserved, Chargeable, TypeInv, TypeOK
<1> QED
  BY <1>1, <1>2 DEF Kept, CancelsOwn

LEMMA CallKept ==
  ASSUME TypeInv, Reserved, Kept, CalmEnv, NEW c \in Callers, Call(c) \/ CallUnscoped(c) \/ Step(c)
  PROVE  Kept'
<1> USE DEF Goto, Act, AskApproval, history
<1>0. /\ pc \in [Callers -> Places] /\ eid \in [Callers -> Execs \cup {None}]
      /\ exec \in [Execs -> {"unused", "open", "settled", "cancelled"}]
      /\ None \notin completed /\ completed \subseteq Execs
  BY Distinct DEF TypeInv, TypeOK
<1>1. CASE Call(c)
  <2>1. Goto(c, "budget")
    BY <1>1 DEF Call, Kept, CancelsOwn
  <2> QED
    BY <1>0, <1>1, <2>1, IdleKept DEF Call, backend
<1>2. ~CallUnscoped(c) /\ ~BudgetError(c)
  BY DEF CallUnscoped, BudgetError, CalmEnv, ScopedEnv
<1>3. CASE LookUp(c)
  BY <1>0, <1>3, IdleKept DEF LookUp, CacheEnabled, CalmEnv, ScopedEnv, backend
<1>4. CASE BudgetAnswer(c)
  <2>1. PICK answer \in [decision : Decisions, exec : Execs \cup {None}, appr : Approvals \cup {None}] :
          /\ IF answer.exec # None THEN Mint(answer.exec) ELSE UNCHANGED exec
          /\ Decide(c, answer)
    BY <1>4, Zenon DEF BudgetAnswer
  <2>2. /\ eid' = [eid EXCEPT ![c] = answer.exec]
        /\ \A d \in Callers \ {c} : pc'[d] = pc[d]
    BY <1>0, <2>1 DEF Decide, Capture
  <2>3. UNCHANGED <<stopped, completed>>
    BY <1>4 DEF BudgetAnswer
  <2>4. answer.exec \notin completed
    BY <1>0, <2>1 DEF Reserved, Minted, Mint
  <2>5. \A x \in Execs : exec'[x] = "cancelled" => exec[x] = "cancelled"
    BY <1>0, <2>1 DEF Mint
  <2> QED
    BY <1>0, <2>2, <2>3, <2>4, <2>5, IdleKept
<1>5. CASE BudgetUnreachable(c)
  BY <1>0, <1>5, IdleKept DEF BudgetUnreachable, Decide, Fallback, Capture, backend
<1>6. CASE ToolError(c) \/ ToolUnreachable(c)
  BY <1>0, <1>6, IdleKept DEF ToolError, ToolUnreachable, backend, Charging
<1>7. CASE ToolAllow(c) \/ ToolBlock(c)
  BY <1>0, <1>7, IdleKept DEF ToolAllow, ToolBlock, Capture, backend
<1>8. CASE ToolApproval(c)
  <2>1. PICK x \in Execs : Mint(x) /\ Capture(c, x)
    BY <1>8 DEF ToolApproval
  <2>2. UNCHANGED <<stopped, completed>> /\ \A d \in Callers \ {c} : pc'[d] = pc[d]
    BY <1>0, <1>8 DEF ToolApproval
  <2>3. x \notin completed
    BY <2>1 DEF Reserved, Minted, Mint
  <2>4. \A y \in Execs : exec'[y] = "cancelled" => exec[y] = "cancelled"
    BY <1>0, <2>1 DEF Mint
  <2> QED
    BY <1>0, <2>1, <2>2, <2>3, <2>4, IdleKept DEF Capture
<1>9. CASE Await(c)
  BY <1>0, <1>9, IdleKept DEF Await, Register, Wake, TimeOut, Unregister, Read, backend
<1>10. CASE Outcome(c)
  <2>1. \A d \in Callers : pc'[d] \in {"raise", "orphan"} => pc[d] \in Charging \cup {"raise", "orphan"}
    BY <1>0, <1>10 DEF Outcome, Refused, BudgetApproved, Unindex, ReCheck, Charging, Awaiting
  <2>2. UNCHANGED <<stopped, completed, exec, eid>>
    BY <1>10 DEF Outcome, Refused, BudgetApproved, Unindex, ReCheck, backend
  <2> QED
    BY <2>1, <2>2, IdleKept
<1>11. CASE BodyReturns(c)
  BY <1>0, <1>11
     DEF BodyReturns, Capture, Charging, backend, Kept, CancelsOwn, CompletedNeverCancelled,
         Reserved, Exclusive, Chargeable
<1>12. CASE BodyRaises(c) \/ CloseOrphan(c)
  BY <1>0, <1>12, IdleKept DEF BodyRaises, CloseOrphan, backend, Charging
<1>13. CASE Cancel(c)
  BY <1>0, <1>13 DEF Cancel, Kept, CancelsOwn, CompletedNeverCancelled
<1> QED
  BY <1>1, <1>2, <1>3, <1>4, <1>5, <1>6, <1>7, <1>8, <1>9, <1>10, <1>11, <1>12, <1>13
     DEF Step, BudgetGate, ToolGate, Body

LEMMA OtherKept ==
  ASSUME TypeInv, Reserved, Kept, CalmEnv,
         \/ \E a \in Approvals : Deliver(a) \/ Resolve(a) \/ SweepGrant(a) \/ LosePush(a)
         \/ \E x \in Execs : Settle(x)
         \/ Handler \/ Control \/ CacheExpires
  PROVE  Kept'
<1>1. ~Control
  BY DEF Control, CalmEnv
<1>2. UNCHANGED <<stopped, pc, eid, completed>>
  BY <1>1, Zenon DEF Deliver, Resolve, SweepGrant, LosePush, Settle, Handler, Mark, SetEvent, Stash,
                     CacheExpires, history
<1>3. ASSUME \/ \E a \in Approvals : Deliver(a) \/ Resolve(a) \/ SweepGrant(a) \/ LosePush(a)
             \/ Handler \/ CacheExpires
      PROVE  UNCHANGED exec
  BY <1>3, Zenon DEF Deliver, Resolve, SweepGrant, LosePush, Handler, Mark, SetEvent, Stash,
                     CacheExpires, backend
<1>4. \A x \in Execs : exec'[x] = "cancelled" => exec[x] = "cancelled"
  BY <1>1, <1>3 DEF Settle, TypeInv, TypeOK
<1> QED
  BY <1>2, <1>4, IdleKept

(* The reservation a body completed on is never cancelled by the cleanup   *)
(* of a later call, over any number of calls, threads, approvals, refusals *)
(* and outages, as long as no call raises before its gate has answered     *)
(* (CalmEnv).                                                              *)
THEOREM CompletedSafe ==
  ASSUME CalmEnv
  PROVE  Spec => []CompletedNeverCancelled
<1>1. Init => Kept
  BY DEF Init, Kept, CancelsOwn, CompletedNeverCancelled
<1>2. TypeInv /\ Reserved /\ Kept /\ [Next]_vars => Kept'
  <2> SUFFICES ASSUME TypeInv, Reserved, Kept, [Next]_vars PROVE Kept'
    OBVIOUS
  <2>1. CASE UNCHANGED vars
    BY <2>1 DEF vars, backend, history, Kept, CancelsOwn, CompletedNeverCancelled
  <2>2. CASE Next
    BY <2>2, CallKept, OtherKept DEF Next
  <2> QED
    BY <2>1, <2>2
<1>3. Kept => CompletedNeverCancelled
  BY DEF Kept
<1>4. ScopedEnv
  BY DEF CalmEnv
<1> QED
  BY <1>1, <1>2, <1>3, <1>4, TypesHold, ReservedHolds, PTL DEF Spec

----------------------------------------------------------------------------
(* A grant is not left open.  The success path consumes it; the exception  *)
(* path finds it through the reverse index, by the id of the context.      *)

(* Every row is bound to an execution of its own, and whoever waits for it *)
(* holds that execution's id, also when its answer came from the cache.    *)
Holds(c) == appr[c] \in Approvals /\ bound[appr[c]] # None /\ bound[appr[c]] = eid[c]
Bindings ==
  /\ \A a \in Approvals : bound[a] # None <=> row[a] # "unused"
  /\ \A a \in Approvals : bound[a] # None => exec[bound[a]] # "unused"
  /\ \A a, b \in Approvals : bound[a] # None /\ bound[a] = bound[b] => a = b
  /\ cache.appr # None => bound[cache.appr] # None /\ bound[cache.appr] = cache.exec
  /\ \A c \in Callers : pc[c] \in Awaiting \cup {"unindex"} => Holds(c)

(* The index names a grant from before its waiter can wake until it is     *)
(* closed.                                                                 *)
Closed(a)  == row[a] \notin {"unused", "PENDING", "APPROVED"}
Indexed(a) == row[a] = "APPROVED" /\ index[bound[a]] = a
Findable ==
  /\ \A a \in push : row[a] \notin {"unused", "PENDING"}
  /\ hand.step # "idle" => row[hand.a] \notin {"unused", "PENDING"}
  /\ hand.step \in {"set", "stash"} => Closed(hand.a) \/ Indexed(hand.a)
  /\ \A c \in Callers : event[c] => Closed(appr[c]) \/ Indexed(appr[c])
  /\ \A c \in Callers : pc[c] = "unindex" => Closed(appr[c])

(* Some call is still to close what woke a waiter.                         *)
Closer(c, a) == appr[c] = a /\ eid[c] = bound[a] /\ pc[c] \in {"resolved", "raise", "orphan"}
WokenClosing == \A a \in woken : Closed(a) \/ (Indexed(a) /\ \E c \in Callers : Closer(c, a))

(* A step of one caller is its own, as far as the others can tell.         *)
LEMMA OwnFields ==
  ASSUME TypeInv, NEW c \in Callers, Call(c) \/ CallUnscoped(c) \/ Step(c), NEW d \in Callers, d # c
  PROVE  pc'[d] = pc[d] /\ appr'[d] = appr[d] /\ eid'[d] = eid[d]
<1> USE DEF TypeInv, TypeOK, Goto, Act, AskApproval, Capture
<1>1. CASE Call(c) \/ CallUnscoped(c)
  BY <1>1 DEF Call, CallUnscoped
<1>2. CASE BudgetGate(c)
  BY <1>2 DEF BudgetGate, LookUp, BudgetAnswer, BudgetUnreachable, BudgetError, Decide
<1>3. CASE ToolGate(c)
  BY <1>3 DEF ToolGate, ToolAllow, ToolBlock, ToolApproval, ToolError, ToolUnreachable
<1>4. CASE Await(c)
  BY <1>4 DEF Await, Register, Wake, TimeOut, Unregister, Read
<1>5. CASE Outcome(c)
  BY <1>5 DEF Outcome, Refused, BudgetApproved, Unindex, ReCheck
<1>6. CASE Body(c)
  BY <1>6 DEF Body, BodyReturns, BodyRaises, Cancel, CloseOrphan
<1> QED
  BY <1>1, <1>2, <1>3, <1>4, <1>5, <1>6 DEF Step

(* A step that mints no row                                                *)
LEMMA SameBindings ==
  ASSUME TypeInv, Bindings, UNCHANGED bound, cache' = cache \/ cache'.appr = None,
         \A a \in Approvals : row'[a] = "unused" <=> row[a] = "unused",
         \A x \in Execs : exec'[x] = "unused" => exec[x] = "unused",
         \A c \in Callers : pc'[c] \in Awaiting \cup {"unindex"} =>
            \/ pc[c] \in Awaiting \cup {"unindex"} /\ appr'[c] = appr[c] /\ eid'[c] = eid[c]
            \/ Holds(c)'
  PROVE  Bindings'
BY DEF Bindings, Holds, TypeInv, TypeOK

(* A step in which a gate binds row a to execution x for c                 *)
LEMMA NewBinding ==
  ASSUME TypeInv, Bindings, NEW c \in Callers, NEW x \in Execs, NEW a \in Approvals,
         Mint(x), MintApproval(x, a), eid'[c] = x, appr'[c] = a,
         cache' = cache \/ (cache'.exec = x /\ cache'.appr = a),
         \A d \in Callers \ {c} : pc'[d] = pc[d] /\ appr'[d] = appr[d] /\ eid'[d] = eid[d]
  PROVE  Bindings'
<1> USE DEF TypeInv, TypeOK, Mint, MintApproval, Bindings
<1>1. /\ bound'[a] = x /\ row'[a] = "PENDING" /\ bound[a] = None /\ x # None
      /\ \A b \in Approvals \ {a} : bound'[b] = bound[b] /\ row'[b] = row[b]
      /\ exec'[x] = "open" /\ \A y \in Execs \ {x} : exec'[y] = exec[y]
  BY Distinct
<1>2. \A b \in Approvals : bound[b] # x
  BY <1>1
<1>3. /\ \A b \in Approvals : bound'[b] # None <=> row'[b] # "unused"
      /\ \A b \in Approvals : bound'[b] # None => exec'[bound'[b]] # "unused"
  BY <1>1
<1>4. \A b, e \in Approvals : bound'[b] # None /\ bound'[b] = bound'[e] => b = e
  BY <1>1, <1>2
<1>5. cache'.appr # None => bound'[cache'.appr] # None /\ bound'[cache'.appr] = cache'.exec
  BY <1>1
<1>6. \A d \in Callers : pc'[d] \in Awaiting \cup {"unindex"} => Holds(d)'
  BY <1>1 DEF Holds
<1> QED
  BY <1>3, <1>4, <1>5, <1>6

LEMMA GateBindings ==
  ASSUME TypeInv, Bindings, NEW c \in Callers,
         Call(c) \/ CallUnscoped(c) \/ BudgetGate(c) \/ ToolGate(c)
  PROVE  Bindings'
<1>0. /\ pc \in [Callers -> Places]
      /\ \A d \in Callers \ {c} : pc'[d] = pc[d] /\ appr'[d] = appr[d] /\ eid'[d] = eid[d]
  BY OwnFields DEF TypeInv, TypeOK, Step
<1> USE DEF Goto, backend, history
<1>1. CASE Call(c) \/ CallUnscoped(c)
  BY <1>0, <1>1, SameBindings DEF Call, CallUnscoped, Awaiting
<1>2. CASE LookUp(c)
  <2>1. pc'[c] \in Awaiting \cup {"unindex"} => Holds(c)'
    BY <1>0, <1>2 DEF LookUp, Decide, Capture, AskApproval, Awaiting, Holds, Bindings, TypeInv, TypeOK
  <2> QED
    BY <1>0, <1>2, <2>1, SameBindings DEF LookUp
<1>3. CASE BudgetAnswer(c)
  <2>1. PICK answer \in [decision : Decisions, exec : Execs \cup {None}, appr : Approvals \cup {None}] :
          /\ answer.decision = "block" <=> answer.exec = None
          /\ answer.appr # None => answer.decision = "require_approval"
          /\ IF answer.exec # None THEN Mint(answer.exec) ELSE UNCHANGED exec
          /\ IF answer.appr # None THEN MintApproval(answer.exec, answer.appr)
             ELSE UNCHANGED <<row, bound>>
          /\ Decide(c, answer)
          /\ cache' = IF CacheEnabled THEN answer ELSE cache
    BY <1>3, Zenon DEF BudgetAnswer
  <2>2. eid'[c] = answer.exec
    BY <2>1 DEF Decide, Capture, TypeInv, TypeOK
  <2>3. CASE answer.appr = None
    <3>1. pc'[c] \in {"tool", "raise"}
      BY <1>0, <2>1, <2>3 DEF Decide
    <3>2. \A x \in Execs : exec'[x] = "unused" => exec[x] = "unused"
      BY <2>1 DEF Mint, TypeInv, TypeOK
    <3> QED
      BY <1>0, <2>1, <2>3, <3>1, <3>2, SameBindings DEF Awaiting
  <2>4. CASE answer.appr # None
    <3>1. appr'[c] = answer.appr
      BY <2>1, <2>4 DEF Decide, AskApproval, TypeInv, TypeOK
    <3> QED
      BY <1>0, <2>1, <2>2, <2>4, <3>1, NewBinding
  <2> QED
    BY <2>3, <2>4
<1>4. CASE BudgetUnreachable(c)
  BY <1>0, <1>4, SameBindings DEF BudgetUnreachable, Decide, Fallback, Awaiting
<1>5. CASE BudgetError(c) \/ ToolError(c) \/ ToolUnreachable(c) \/ ToolAllow(c) \/ ToolBlock(c)
  BY <1>0, <1>5, SameBindings DEF BudgetError, ToolError, ToolUnreachable, ToolAllow, ToolBlock, Awaiting
<1>6. CASE ToolApproval(c)
  <2>1. PICK x \in Execs :
          /\ Mint(x)
          /\ Capture(c, x)
          /\ \/ \E a \in Approvals : MintApproval(x, a) /\ AskApproval(c, "tool", a)
             \/ /\ "error" \in Env
                /\ Goto(c, "raise")
                /\ UNCHANGED <<row, bound, gate, appr, needed>>
    BY ONLY <1>6, Zenon DEF ToolApproval
  <2>2. UNCHANGED cache
    BY <1>6 DEF ToolApproval
  <2>3. ASSUME NEW a \in Approvals, MintApproval(x, a), AskApproval(c, "tool", a)
        PROVE  Bindings'
    <3>1. eid'[c] = x /\ appr'[c] = a
      BY <2>1, <2>3 DEF Capture, AskApproval, TypeInv, TypeOK
    <3> QED
      BY <1>0, <2>1, <2>2, <2>3, <3>1, NewBinding
  <2>4. CASE Goto(c, "raise") /\ UNCHANGED <<row, bound, gate, appr, needed>>
    <3>1. \A y \in Execs : exec'[y] = "unused" => exec[y] = "unused"
      BY <2>1 DEF Mint, TypeInv, TypeOK
    <3> QED
      BY <1>0, <2>2, <2>4, <3>1, SameBindings DEF Awaiting
  <2> QED
    BY <2>1, <2>3, <2>4
<1> QED
  BY <1>1, <1>2, <1>3, <1>4, <1>5, <1>6 DEF BudgetGate, ToolGate

LEMMA RestBindings ==
  ASSUME TypeInv, Bindings,
         \/ \E c \in Callers : Await(c) \/ Outcome(c) \/ Body(c)
         \/ \E a \in Approvals : Deliver(a) \/ Resolve(a) \/ SweepGrant(a) \/ LosePush(a)
         \/ \E x \in Execs : Settle(x)
         \/ Handler \/ Control \/ CacheExpires
  PROVE  Bindings'
<1> USE DEF Goto, Act, backend, history
<1>1. ASSUME NEW c \in Callers, Await(c) \/ Outcome(c) \/ Body(c)
      PROVE  Bindings'
  <2>0. /\ pc \in [Callers -> Places] /\ UNCHANGED <<bound, cache>>
        /\ \A d \in Callers \ {c} : pc'[d] = pc[d] /\ appr'[d] = appr[d] /\ eid'[d] = eid[d]
    <3>1. UNCHANGED <<bound, cache>>
      BY <1>1, Zenon
         DEF Await, Register, Wake, TimeOut, Unregister, Outcome, Refused, BudgetApproved, Unindex,
             ReCheck, Body, BodyReturns, BodyRaises, Cancel, CloseOrphan
    <3> QED
      BY <1>1, <3>1, OwnFields DEF TypeInv, TypeOK, Step
  <2>1. CASE Await(c)
    BY <2>0, <2>1, SameBindings DEF Await, Register, Wake, TimeOut, Unregister, Read, Awaiting
  <2>2. CASE Outcome(c)
    <3>1. pc'[c] \in Awaiting \cup {"unindex"} => pc[c] \in Awaiting
      BY <2>0, <2>2 DEF Outcome, Refused, BudgetApproved, Unindex, ReCheck, Awaiting
    <3>2. UNCHANGED <<appr, eid, exec>>
      BY <2>2 DEF Outcome, Refused, BudgetApproved, Unindex, ReCheck
    <3>3. \A a \in Approvals : row'[a] = "unused" <=> row[a] = "unused"
      BY <2>2 DEF Outcome, Refused, BudgetApproved, Unindex, ReCheck, ConsumeApproval, TypeInv, TypeOK
    <3> QED
      BY <2>0, <3>1, <3>2, <3>3, SameBindings
  <2>3. CASE Body(c)
    <3>1. pc'[c] \notin Awaiting \cup {"unindex"}
      BY <2>0, <2>3 DEF Body, BodyReturns, BodyRaises, Cancel, CloseOrphan, Awaiting
    <3>2. \A x \in Execs : exec'[x] = "unused" => exec[x] = "unused"
      BY <2>3 DEF Body, BodyReturns, BodyRaises, Cancel, CloseOrphan, TypeInv, TypeOK
    <3>3. \A a \in Approvals : row'[a] = "unused" <=> row[a] = "unused"
      BY <2>3 DEF Body, BodyReturns, BodyRaises, Cancel, CloseOrphan, ConsumeApproval, TypeInv, TypeOK
    <3> QED
      BY <2>0, <3>1, <3>2, <3>3, SameBindings
  <2> QED
    BY <1>1, <2>1, <2>2, <2>3
<1>2. ASSUME \/ \E a \in Approvals : Deliver(a) \/ Resolve(a) \/ SweepGrant(a) \/ LosePush(a)
             \/ \E x \in Execs : Settle(x)
             \/ Handler \/ Control \/ CacheExpires
      PROVE  Bindings'
  <2>1. UNCHANGED <<pc, appr, eid, bound>>
    BY <1>2, Zenon DEF Deliver, Resolve, SweepGrant, LosePush, Settle, Handler, Mark, SetEvent, Stash, Control,
                 CacheExpires
  <2>2. \A a \in Approvals : row'[a] = "unused" <=> row[a] = "unused"
    BY <1>2 DEF Deliver, Resolve, SweepGrant, LosePush, Settle, Handler, Mark, SetEvent, Stash, Control,
                CacheExpires, TypeInv, TypeOK, Outcomes
  <2>3. \A x \in Execs : exec'[x] = "unused" => exec[x] = "unused"
    BY <1>2 DEF Deliver, Resolve, SweepGrant, LosePush, Settle, Handler, Mark, SetEvent, Stash, Control,
                CacheExpires, TypeInv, TypeOK
  <2>4. cache' = cache \/ cache'.appr = None
    BY <1>2 DEF Deliver, Resolve, SweepGrant, LosePush, Settle, Handler, Mark, SetEvent, Stash, Control,
                CacheExpires, NoAnswer
  <2> QED
    BY <2>1, <2>2, <2>3, <2>4, SameBindings
<1> QED
  BY <1>1, <1>2

(* A grant that the index names is named until it is closed: an entry is   *)
(* only popped by a call that has closed the grant, and never overwritten. *)
Progress ==
  \A a \in Approvals :
    /\ row[a] \notin {"unused", "PENDING"} => row'[a] \notin {"unused", "PENDING"}
    /\ Closed(a) => Closed(a)'
    /\ Indexed(a) => Closed(a)' \/ Indexed(a)'

LEMMA GrantProgress ==
  ASSUME TypeInv, Bindings, Findable, Next
  PROVE  Progress
<1> USE DEF TypeInv, TypeOK, Progress, Closed, Indexed, Goto, Act
<1>1. CASE UNCHANGED <<row, bound, index>>
  BY <1>1
<1>2. ASSUME NEW x \in Execs, NEW a \in Approvals, MintApproval(x, a), UNCHANGED index
      PROVE  Progress
  BY <1>2 DEF MintApproval
<1>3. ASSUME NEW a \in Approvals, ConsumeApproval(a), UNCHANGED <<bound, index>>
      PROVE  Progress
  BY <1>3 DEF ConsumeApproval
<1>4. ASSUME NEW c \in Callers, BudgetGate(c) \/ ToolGate(c)
      PROVE  Progress
  <2>1. CASE BudgetAnswer(c)
    <3>1. \/ \E x \in Execs, a \in Approvals : MintApproval(x, a)
          \/ UNCHANGED <<row, bound>>
      BY <2>1, Zenon DEF BudgetAnswer
    <3> QED
      BY <1>1, <1>2, <2>1, <3>1 DEF BudgetAnswer
  <2>2. CASE ToolApproval(c)
    BY <1>1, <1>2, <2>2 DEF ToolApproval
  <2>3. ASSUME ~BudgetAnswer(c), ~ToolApproval(c) PROVE UNCHANGED <<row, bound, index>>
    BY <1>4, <2>3, Zenon
       DEF BudgetGate, ToolGate, LookUp, BudgetUnreachable, BudgetError, ToolAllow, ToolBlock, ToolError,
           ToolUnreachable, backend
  <2> QED
    BY <1>1, <2>1, <2>2, <2>3
<1>5. ASSUME NEW c \in Callers, Call(c) \/ CallUnscoped(c) \/ Await(c)
      PROVE  UNCHANGED <<row, bound, index>>
  BY <1>5, Zenon DEF Call, CallUnscoped, Await, Register, Wake, TimeOut, Unregister, backend
<1>6. ASSUME NEW c \in Callers, Outcome(c)
      PROVE  Progress
  <2>1. CASE Refused(c)
    BY <1>1, <2>1 DEF Refused, backend
  <2>2. CASE BudgetApproved(c)
    <3>1. appr[c] \in Approvals
      BY <2>2 DEF BudgetApproved, Named, Awaiting
    <3> QED
      BY <1>3, <2>2, <3>1 DEF BudgetApproved
  <2>3. CASE Unindex(c)
    <3>1. /\ Holds(c) /\ Closed(appr[c])
          /\ index' = [index EXCEPT ![eid[c]] = None] /\ UNCHANGED <<row, bound>>
      BY <2>3 DEF Unindex, Bindings, Findable, Holds, backend
    <3>2. \A a \in Approvals : Indexed(a) => bound[a] # eid[c]
      BY <3>1 DEF Bindings, Holds
    <3> QED
      BY <3>1, <3>2
  <2>4. CASE ReCheck(c)
    <3>1. appr[c] \in Approvals
      BY <2>4 DEF ReCheck, Named, Awaiting
    <3>2. UNCHANGED <<bound, index>>
      BY <2>4 DEF ReCheck
    <3>3. UNCHANGED row \/ (row[appr[c]] = "APPROVED" /\ row' = [row EXCEPT ![appr[c]] = "CONSUMED"])
      BY <2>4 DEF ReCheck
    <3> QED
      BY <1>1, <1>3, <3>1, <3>2, <3>3 DEF ConsumeApproval
  <2> QED
    BY <1>6, <2>1, <2>2, <2>3, <2>4 DEF Outcome
<1>7. ASSUME NEW c \in Callers, Body(c)
      PROVE  Progress
  <2>1. CASE CloseOrphan(c)
    <3>1. UNCHANGED row \/ (index[eid[c]] # None /\ ConsumeApproval(index[eid[c]]))
      BY <2>1 DEF CloseOrphan
    <3>2. UNCHANGED row \/ \E a \in Approvals : row[a] = "APPROVED" /\ row' = [row EXCEPT ![a] = "CONSUMED"]
      BY <3>1 DEF ConsumeApproval
    <3> QED
      BY <1>1, <1>3, <2>1, <3>2 DEF CloseOrphan, ConsumeApproval
  <2>2. ASSUME ~CloseOrphan(c) PROVE UNCHANGED <<row, bound, index>>
    BY <1>7, <2>2, Zenon DEF Body, BodyReturns, BodyRaises, Cancel, backend
  <2> QED
    BY <1>1, <2>1, <2>2
<1>8. CASE Mark
  <2>1. /\ hand.a \in Approvals /\ bound[hand.a] # None
        /\ index' = [index EXCEPT ![bound[hand.a]] = hand.a] /\ UNCHANGED <<row, bound>>
    BY <1>8 DEF Mark, Named, Findable, Bindings, backend
  <2> QED
    BY <2>1 DEF Bindings
<1>9. ASSUME NEW a \in Approvals, Resolve(a) PROVE Progress
  BY <1>9 DEF Resolve, Outcomes
<1>10. ASSUME NEW a \in Approvals, SweepGrant(a) PROVE Progress
  BY <1>10 DEF SweepGrant
<1>11. ASSUME \/ \E a \in Approvals : Deliver(a) \/ LosePush(a)
              \/ \E x \in Execs : Settle(x)
              \/ SetEvent \/ Stash \/ Control \/ CacheExpires
       PROVE  UNCHANGED <<row, bound, index>>
  BY <1>11, Zenon DEF Deliver, LosePush, Settle, SetEvent, Stash, Control, CacheExpires, backend
<1> QED
  BY <1>1, <1>4, <1>5, <1>6, <1>7, <1>8, <1>9, <1>10, <1>11 DEF Next, Step, Handler

(* Without a new push, a step of the handler or a grant that is consumed   *)
LEMMA SameFindable ==
  ASSUME TypeInv, Chain, Findable, Progress,
         push' \subseteq push, hand' = hand \/ hand' = [hand EXCEPT !.who = None],
         \A c \in Callers : event'[c] => event[c] /\ appr'[c] = appr[c],
         \A c \in Callers : pc'[c] = "unindex" =>
            pc[c] = "unindex" /\ appr[c] \in Approvals /\ appr'[c] = appr[c]
  PROVE  Findable'
<1>1. hand'.step = hand.step /\ hand'.a = hand.a
  BY DEF TypeInv, TypeOK
<1>2. hand.step # "idle" => hand.a \in Approvals
  BY DEF TypeInv, Named
<1>3. \A c \in Callers : event[c] => appr[c] \in Approvals
  BY DEF Chain, Owned, Waiting, TypeInv, Named, Awaiting
<1>4. \A a \in push' : row'[a] \notin {"unused", "PENDING"}
  BY DEF Findable, Progress, TypeInv, TypeOK
<1>5. hand'.step # "idle" => row'[hand'.a] \notin {"unused", "PENDING"}
  BY <1>1, <1>2 DEF Findable, Progress
<1>6. hand'.step \in {"set", "stash"} => Closed(hand.a)' \/ Indexed(hand.a)'
  <2> SUFFICES ASSUME hand'.step \in {"set", "stash"} PROVE Closed(hand.a)' \/ Indexed(hand.a)'
    OBVIOUS
  <2>1. hand.a \in Approvals /\ (Closed(hand.a) \/ Indexed(hand.a))
    BY <1>1, <1>2 DEF Findable
  <2> QED
    BY <1>1, <2>1 DEF Progress, Closed, Indexed
<1>7. \A c \in Callers : event'[c] => Closed(appr[c])' \/ Indexed(appr[c])'
  BY <1>3 DEF Findable, Progress, Closed, Indexed
<1>8. \A c \in Callers : pc'[c] = "unindex" => Closed(appr[c])'
  BY DEF Findable, Progress, Closed
<1> QED
  BY <1>4, <1>5, <1>6, <1>7, <1>8 DEF Findable

LEMMA CallFindable ==
  ASSUME TypeInv, Chain, Bindings, Findable, Progress,
         NEW c \in Callers,
         Call(c) \/ CallUnscoped(c) \/ BudgetGate(c) \/ ToolGate(c) \/ Await(c) \/ Body(c)
  PROVE  Findable'
<1>0. /\ pc \in [Callers -> Places]
      /\ \A d \in Callers \ {c} : pc'[d] = pc[d] /\ appr'[d] = appr[d]
  BY OwnFields DEF TypeInv, TypeOK, Step
<1>1. /\ \A d \in Callers : event[d] => pc[d] \in {"wait", "timedOut"}
      /\ \A d \in Callers : pc[d] = "unindex" => appr[d] \in Approvals
  BY DEF Chain, Owned, Waiting, Bindings, Holds
<1> USE DEF Goto, backend, history, waiting
<1>2. ASSUME ~Await(c) PROVE Findable'
  <2>1. UNCHANGED <<hand, event>> /\ push' = push
    BY <1>2, Zenon
       DEF Call, CallUnscoped, BudgetGate, LookUp, BudgetAnswer, BudgetUnreachable, BudgetError, ToolGate,
           ToolAllow, ToolBlock, ToolApproval, ToolError, ToolUnreachable, Body, BodyReturns, BodyRaises,
           Cancel, CloseOrphan
  <2>2. pc[c] \notin {"wait", "timedOut"}
    BY <1>2
       DEF Call, CallUnscoped, BudgetGate, LookUp, BudgetAnswer, BudgetUnreachable, BudgetError, ToolGate,
           ToolAllow, ToolBlock, ToolApproval, ToolError, ToolUnreachable, Body, BodyReturns, BodyRaises,
           Cancel, CloseOrphan
  <2>3. pc'[c] # "unindex"
    <3>1. CASE Call(c) \/ CallUnscoped(c) \/ BudgetGate(c)
      BY <1>0, <3>1 DEF Call, CallUnscoped, BudgetGate, LookUp, BudgetAnswer, BudgetUnreachable, BudgetError,
                        Decide, AskApproval
    <3>2. CASE ToolGate(c)
      BY <1>0, <3>2 DEF ToolGate, ToolAllow, ToolBlock, ToolApproval, ToolError, ToolUnreachable, AskApproval
    <3>3. CASE Body(c)
      BY <1>0, <3>3 DEF Body, BodyReturns, BodyRaises, Cancel, CloseOrphan
    <3> QED
      BY <1>2, <3>1, <3>2, <3>3
  <2> QED
    BY <1>0, <1>1, <2>1, <2>2, <2>3, SameFindable
<1>3. CASE Await(c)
  <2>1. push' = push /\ UNCHANGED appr
    BY <1>3, Zenon DEF Await, Register, Wake, TimeOut, Unregister
  <2>2. hand' = hand \/ hand' = [hand EXCEPT !.who = None]
    BY <1>3 DEF Await, Register, Wake, TimeOut, Unregister, Read
  <2>3. \A d \in Callers : event'[d] => event[d]
    BY <1>3 DEF Await, Register, Wake, TimeOut, Unregister, Read, TypeInv, TypeOK
  <2>4. pc'[c] # "unindex"
    BY <1>0, <1>3 DEF Await, Register, Wake, TimeOut, Unregister, Read
  <2> QED
    BY <1>0, <1>1, <2>1, <2>2, <2>3, <2>4, SameFindable
<1> QED
  BY <1>2, <1>3

(* Consuming a grant closes it, when the backend answers.                  *)
LEMMA Consumed ==
  ASSUME "unreachable" \notin Env, TypeInv, NEW a \in Approvals, ConsumeApproval(a),
         row[a] \notin {"unused", "PENDING"}
  PROVE  Closed(a)'
BY DEF ConsumeApproval, Closed, TypeInv, TypeOK

LEMMA OutcomeFindable ==
  ASSUME "unreachable" \notin Env, TypeInv, Unresolved, Chain, Bindings, Findable, Progress,
         NEW c \in Callers, Outcome(c)
  PROVE  Findable'
<1>0. /\ pc \in [Callers -> Places] /\ UNCHANGED <<push, hand, event, appr>>
      /\ \A d \in Callers \ {c} : pc'[d] = pc[d]
  <2>1. UNCHANGED <<push, hand, event, appr>>
    BY Zenon DEF Outcome, Refused, BudgetApproved, Unindex, ReCheck, backend, waiting
  <2> QED
    BY <2>1, OwnFields DEF TypeInv, TypeOK, Step
<1>1. \A d \in Callers : pc[d] = "unindex" => appr[d] \in Approvals
  BY DEF Bindings, Holds
<1> USE DEF Goto, Act
<1>2. CASE ~BudgetApproved(c)
  <2>1. pc'[c] # "unindex"
    BY <1>0, <1>2 DEF Outcome, Refused, Unindex, ReCheck
  <2> QED
    BY <1>0, <1>1, <2>1, SameFindable
<1>3. CASE BudgetApproved(c)
  <2>1. appr[c] \in Approvals /\ row[appr[c]] \notin {"unused", "PENDING"}
    BY <1>3 DEF BudgetApproved, Chain, Truthful, Granted, Unresolved
  <2>2. Closed(appr[c])'
    BY <1>0, <1>3, <2>1, Consumed DEF BudgetApproved, Closed
  <2>3. \A d \in Callers : pc'[d] = "unindex" => Closed(appr[d])'
    BY <1>0, <1>1, <2>2 DEF Findable, Progress, Closed
  <2>4. \A d \in Callers : event[d] => appr[d] \in Approvals
    BY DEF Chain, Owned, Waiting, TypeInv, Named, Awaiting
  <2>5. \A d \in Callers : event'[d] => Closed(appr[d])' \/ Indexed(appr[d])'
    BY <1>0, <2>4 DEF Findable, Progress, Closed, Indexed
  <2>6. /\ \A a \in push' : row'[a] \notin {"unused", "PENDING"}
        /\ hand'.step # "idle" => row'[hand'.a] \notin {"unused", "PENDING"}
    BY <1>0 DEF Findable, Progress, TypeInv, TypeOK, Named
  <2>7. hand'.step \in {"set", "stash"} => Closed(hand.a)' \/ Indexed(hand.a)'
    <3> SUFFICES ASSUME hand.step \in {"set", "stash"} PROVE Closed(hand.a)' \/ Indexed(hand.a)'
      BY <1>0
    <3>1. hand.a \in Approvals /\ (Closed(hand.a) \/ Indexed(hand.a))
      BY DEF Findable, TypeInv, Named
    <3> QED
      BY <1>0, <3>1 DEF Progress, Closed, Indexed
  <2> QED
    BY <2>3, <2>5, <2>6, <2>7 DEF Findable
<1> QED
  BY <1>2, <1>3

LEMMA OtherFindable ==
  ASSUME TypeInv, Chain, Bindings, Findable, Progress,
         \/ \E a \in Approvals : Deliver(a) \/ Resolve(a) \/ SweepGrant(a) \/ LosePush(a)
         \/ \E x \in Execs : Settle(x)
         \/ Handler \/ Control \/ CacheExpires
  PROVE  Findable'
<1>1. UNCHANGED <<pc, appr, bound>>
  BY Zenon DEF Deliver, Resolve, SweepGrant, LosePush, Settle, Handler, Mark, SetEvent, Stash, Control,
               CacheExpires, backend
<1>2. /\ \A d \in Callers : event[d] => appr[d] \in Approvals /\ (Closed(appr[d])' \/ Indexed(appr[d])')
      /\ \A d \in Callers : pc'[d] = "unindex" => Closed(appr[d])'
      /\ \A d \in Callers : pc[d] = "unindex" => appr[d] \in Approvals
  <2>1. /\ \A d \in Callers : event[d] => appr[d] \in Approvals
        /\ \A d \in Callers : pc[d] = "unindex" => appr[d] \in Approvals
    BY DEF Chain, Owned, Waiting, TypeInv, Named, Awaiting, Bindings, Holds
  <2> QED
    BY <1>1, <2>1 DEF Findable, Progress, Closed, Indexed
<1>3. \A a \in push : row'[a] \notin {"unused", "PENDING"}
  BY DEF Findable, Progress, TypeInv, TypeOK
<1>4. /\ hand.step # "idle" => hand.a \in Approvals /\ row'[hand.a] \notin {"unused", "PENDING"}
      /\ hand.step \in {"set", "stash"} => Closed(hand.a) \/ Indexed(hand.a)
  BY DEF Findable, Progress, TypeInv, Named
<1>5. ASSUME NEW a \in Approvals, Deliver(a) PROVE Findable'
  <2>1. /\ event' = event /\ push' \subseteq push
        /\ hand' = hand \/ hand' = [step |-> "mark", a |-> a, who |-> pending[a]]
        /\ a \in push /\ hand.step = "idle"
    BY <1>5 DEF Deliver, Idle
  <2>2. hand'.step = "idle" \/ (hand'.step = "mark" /\ hand'.a = a)
    BY <2>1
  <2> QED
    BY <1>1, <1>2, <1>3, <2>1, <2>2 DEF Findable
<1>6. CASE Mark
  <2>1. /\ event' = event /\ push' = push /\ hand'.step = "set" /\ hand'.a = hand.a
        /\ hand.step = "mark" /\ index' = [index EXCEPT ![bound[hand.a]] = hand.a] /\ row' = row
    BY <1>6 DEF Mark, backend, TypeInv, TypeOK
  <2>2. hand.a \in Approvals /\ bound[hand.a] \in Execs
    BY <1>4, <2>1, Distinct DEF Bindings, TypeInv, TypeOK
  <2>3. Closed(hand.a)' \/ Indexed(hand.a)'
    BY <1>1, <1>4, <2>1, <2>2 DEF Closed, Indexed, TypeInv, TypeOK
  <2> QED
    BY <1>1, <1>2, <1>3, <1>4, <2>1, <2>3 DEF Findable, Closed, Indexed
<1>7. CASE SetEvent
  <2>1. /\ event' = IF hand.who = None THEN event ELSE [event EXCEPT ![hand.who] = TRUE]
        /\ push' = push /\ hand'.step = "stash" /\ hand'.a = hand.a
        /\ hand.step = "set" /\ index' = index /\ row' = row
    BY <1>7 DEF SetEvent, backend, TypeInv, TypeOK
  <2>2. hand.who # None => appr[hand.who] = hand.a
    BY DEF Chain, Owned
  <2>3. Closed(hand.a)' \/ Indexed(hand.a)'
    BY <1>1, <1>4, <2>1 DEF Closed, Indexed
  <2>4. \A d \in Callers : event'[d] => event[d] \/ appr[d] = hand.a
    BY <2>1, <2>2 DEF TypeInv, TypeOK
  <2>5. \A d \in Callers : appr[d] = hand.a => Closed(appr[d])' \/ Indexed(appr[d])'
    BY <1>1, <2>1, <2>3 DEF Closed, Indexed
  <2>6. \A d \in Callers : event'[d] => Closed(appr[d])' \/ Indexed(appr[d])'
    BY <1>1, <1>2, <2>4, <2>5
  <2> QED
    BY <1>1, <1>2, <1>3, <1>4, <2>1, <2>3, <2>6 DEF Findable, Closed, Indexed
<1>8. CASE Stash
  <2>1. event' = event /\ push' = push /\ hand'.step = "idle"
    BY <1>8 DEF Stash, backend, Idle
  <2> QED
    BY <1>1, <1>2, <1>3, <2>1 DEF Findable
<1>9. ASSUME NEW a \in Approvals, Resolve(a) PROVE Findable'
  <2>1. event' = event /\ hand' = hand /\ push' = push \cup {a} /\ index' = index
    BY <1>9 DEF Resolve, waiting
  <2>2. row'[a] \notin {"unused", "PENDING"}
    BY <1>9 DEF Resolve, Outcomes, TypeInv, TypeOK
  <2>3. hand.step \in {"set", "stash"} => Closed(hand.a)' \/ Indexed(hand.a)'
    BY <1>4, <2>1 DEF Progress, Closed, Indexed
  <2> QED
    BY <1>1, <1>2, <1>3, <1>4, <2>1, <2>2, <2>3 DEF Findable
<1>10. ASSUME \/ \E a \in Approvals : SweepGrant(a) \/ LosePush(a)
              \/ \E x \in Execs : Settle(x)
              \/ Control \/ CacheExpires
       PROVE  Findable'
  <2>1. UNCHANGED <<hand, event>>
    BY <1>10, Zenon DEF SweepGrant, LosePush, Settle, Control, CacheExpires, waiting
  <2>2. push' \subseteq push
    BY <1>10 DEF SweepGrant, LosePush, Settle, Control, CacheExpires, backend
  <2> QED
    BY <1>1, <1>2, <2>1, <2>2, SameFindable
<1> QED
  BY <1>5, <1>6, <1>7, <1>8, <1>9, <1>10 DEF Handler

(* Whoever a push woke closes its grant, on one path or the other: the     *)
(* steps that leave the closer of a grant where it is                      *)
LEMMA SameClosing ==
  ASSUME TypeInv, Bindings, WokenClosing, Progress, woken' = woken,
         \A a \in Approvals : bound[a] # None => bound'[a] = bound[a],
         \A c \in Callers, a \in Approvals : Indexed(a) /\ Closer(c, a) => Closer(c, a)' \/ Closed(a)'
  PROVE  WokenClosing'
<1> SUFFICES ASSUME NEW a \in woken, ~Closed(a)'
             PROVE  Indexed(a)' /\ \E c \in Callers : Closer(c, a)'
  BY DEF WokenClosing
<1>1. a \in Approvals
  BY DEF TypeInv, TypeOK
<1>2. ~Closed(a)
  BY <1>1 DEF Progress
<1>3. Indexed(a)
  BY <1>2 DEF WokenClosing
<1>4. PICK c \in Callers : Closer(c, a)
  BY <1>2 DEF WokenClosing
<1> QED
  BY <1>1, <1>3, <1>4 DEF Progress

(* The closer's own steps                                                  *)
LEMMA OwnClosing ==
  ASSUME "unreachable" \notin Env, TypeInv, Unresolved, Chain, Bindings, NEW c \in Callers, Step(c),
         NEW a \in Approvals, Indexed(a), Closer(c, a)
  PROVE  Closer(c, a)' \/ Closed(a)'
<1>0. /\ pc \in [Callers -> Places] /\ bound[a] \in Execs /\ bound[a] # None
      /\ row[a] = "APPROVED" /\ index[bound[a]] = a
      /\ appr[c] = a /\ eid[c] = bound[a] /\ pc[c] \in {"resolved", "raise", "orphan"}
  BY Distinct DEF Indexed, Closer, Bindings, TypeInv, TypeOK
<1>1. ConsumeApproval(a) => Closed(a)'
  BY <1>0, Consumed
<1> USE DEF Goto, Act, backend
<1>2. CASE Refused(c)
  BY <1>0, <1>2 DEF Refused, Closer
<1>3. CASE BudgetApproved(c)
  BY <1>0, <1>1, <1>3 DEF BudgetApproved
<1>4. CASE ReCheck(c)
  <2>1. UNCHANGED <<appr, eid, bound>>
    BY <1>4 DEF ReCheck
  <2>2. CASE row' = [row EXCEPT ![a] = "CONSUMED"]
    BY <2>2 DEF Closed, TypeInv, TypeOK
  <2>3. CASE Act(c, "raise")
    BY <1>0, <2>1, <2>3 DEF Closer
  <2> QED
    BY <1>0, <1>4, <2>2, <2>3, Zenon DEF ReCheck
<1>5. CASE Cancel(c)
  <2>1. UNCHANGED <<appr, eid, bound>> /\ pc' = [pc EXCEPT ![c] = "orphan"]
    BY <1>0, <1>5 DEF Cancel
  <2> QED
    BY <1>0, <2>1 DEF Closer
<1>6. CASE CloseOrphan(c)
  BY <1>0, <1>1, <1>6, Distinct DEF CloseOrphan
<1>7. ~BudgetGate(c) /\ ~ToolGate(c) /\ ~Await(c) /\ ~Unindex(c) /\ ~BodyReturns(c) /\ ~BodyRaises(c)
  BY <1>0 DEF BudgetGate, LookUp, BudgetAnswer, BudgetUnreachable, BudgetError, ToolGate, ToolAllow,
     ToolBlock, ToolApproval, ToolError, ToolUnreachable, Await, Register, Wake, TimeOut, Unregister,
     Unindex, BodyReturns, BodyRaises
<1> QED
  BY <1>2, <1>3, <1>4, <1>5, <1>6, <1>7 DEF Step, Outcome, Body

(* Rows keep the execution they are bound to.                              *)
LEMMA BoundStays ==
  ASSUME TypeInv, Bindings, Next, NEW a \in Approvals, bound[a] # None
  PROVE  bound'[a] = bound[a]
<1>1. ASSUME NEW x, NEW b \in Approvals, MintApproval(x, b) PROVE bound'[a] = bound[a]
  BY <1>1 DEF MintApproval, Bindings, TypeInv, TypeOK
<1>2. ASSUME NEW c \in Callers, BudgetAnswer(c) PROVE bound'[a] = bound[a]
  <2>1. (\E x \in Execs \cup {None}, b \in Approvals : MintApproval(x, b)) \/ UNCHANGED bound
    BY <1>2, Zenon DEF BudgetAnswer
  <2> QED
    BY <1>1, <2>1
<1>3. ASSUME NEW c \in Callers, ToolApproval(c) PROVE bound'[a] = bound[a]
  BY <1>1, <1>3 DEF ToolApproval
<1>4. ASSUME NEW c \in Callers,
             \/ Call(c) \/ CallUnscoped(c) \/ LookUp(c) \/ BudgetUnreachable(c) \/ BudgetError(c)
             \/ ToolAllow(c) \/ ToolBlock(c) \/ ToolError(c) \/ ToolUnreachable(c) \/ Await(c) \/ Outcome(c)
             \/ Body(c)
      PROVE  UNCHANGED bound
  BY <1>4, Zenon
     DEF Call, CallUnscoped, LookUp, BudgetUnreachable, BudgetError, ToolAllow, ToolBlock, ToolError,
         ToolUnreachable, Await, Register, Wake, TimeOut, Unregister, Outcome, Refused, BudgetApproved,
         Unindex, ReCheck, Body, BodyReturns, BodyRaises, Cancel, CloseOrphan, backend
<1>5. ASSUME \/ \E b \in Approvals : Deliver(b) \/ Resolve(b) \/ SweepGrant(b) \/ LosePush(b)
             \/ \E x \in Execs : Settle(x)
             \/ Handler \/ Control \/ CacheExpires
      PROVE  UNCHANGED bound
  BY <1>5, Zenon DEF Deliver, Resolve, SweepGrant, LosePush, Settle, Handler, Mark, SetEvent, Stash, Control,
                     CacheExpires, backend
<1> QED
  BY <1>2, <1>3, <1>4, <1>5 DEF Next, Step, BudgetGate, ToolGate

LEMMA ClosingStep ==
  ASSUME "unreachable" \notin Env, TypeInv, Unresolved, Chain, Bindings, Findable, WokenClosing, Progress, Next
  PROVE  WokenClosing'
<1>1. \A a \in Approvals : bound[a] # None => bound'[a] = bound[a]
  BY BoundStays
<1>2. \A a \in Approvals : Indexed(a) => bound[a] # None
  BY DEF Indexed, Bindings
<1>3. ASSUME NEW c \in Callers, Call(c) \/ CallUnscoped(c) \/ Step(c)
      PROVE  WokenClosing'
  <2>1. ASSUME NEW d \in Callers, NEW a \in Approvals, Indexed(a), Closer(d, a)
        PROVE  Closer(d, a)' \/ Closed(a)'
    <3>1. CASE d # c
      BY <1>1, <1>2, <1>3, <2>1, <3>1, OwnFields DEF Closer
    <3>2. CASE d = c
      <4>1. ~Call(c) /\ ~CallUnscoped(c)
        BY <2>1, <3>2 DEF Closer, Call, CallUnscoped
      <4> QED
        BY <1>3, <2>1, <3>2, <4>1, OwnClosing
    <3> QED
      BY <3>1, <3>2
  <2>2. CASE ~Wake(c)
    <3>1. woken' = woken
      BY <1>3, <2>2, Zenon
         DEF Call, CallUnscoped, Step, BudgetGate, LookUp, BudgetAnswer, BudgetUnreachable, BudgetError,
             ToolGate, ToolAllow, ToolBlock, ToolApproval, ToolError, ToolUnreachable, Await, Register,
             TimeOut, Unregister, Outcome, Refused, BudgetApproved, Unindex, ReCheck, Body, BodyReturns,
             BodyRaises, Cancel, CloseOrphan, history
    <3> QED
      BY <1>1, <2>1, <3>1, SameClosing
  <2>3. CASE Wake(c)
    <3>1. /\ woken' = woken \cup {appr[c]} /\ UNCHANGED <<row, bound, index, appr, eid>>
          /\ pc'[c] = "resolved" /\ event[c] /\ pc[c] = "wait"
      BY <2>3 DEF Wake, Read, Goto, backend, TypeInv, TypeOK
    <3>2. Closed(appr[c]) \/ Indexed(appr[c])
      BY <3>1 DEF Findable
    <3>3. Holds(c)
      BY <3>1 DEF Bindings, Awaiting
    <3>4. Closer(c, appr[c])'
      BY <3>1, <3>3 DEF Closer, Holds
    <3>5. Closed(appr[c])' \/ Indexed(appr[c])'
      BY <3>1, <3>2 DEF Closed, Indexed
    <3>6. ASSUME NEW a \in woken PROVE Closed(a)' \/ (Indexed(a)' /\ \E d \in Callers : Closer(d, a)')
      <4>1. a \in Approvals
        BY DEF TypeInv, TypeOK
      <4>2. CASE Closed(a)
        BY <4>1, <4>2 DEF Progress
      <4>3. CASE ~Closed(a)
        <5>1. PICK d \in Callers : Indexed(a) /\ Closer(d, a)
          BY <4>3 DEF WokenClosing
        <5> QED
          BY <2>1, <4>1, <5>1 DEF Progress
      <4> QED
        BY <4>2, <4>3
    <3>7. ASSUME NEW a, a = appr[c] PROVE Closed(a)' \/ (Indexed(a)' /\ \E d \in Callers : Closer(d, a)')
      BY <3>1, <3>4, <3>5, <3>7 DEF Closed, Indexed, Closer
    <3> QED
      BY <3>1, <3>6, <3>7 DEF WokenClosing
  <2> QED
    BY <2>2, <2>3
<1>4. ASSUME \/ \E a \in Approvals : Deliver(a) \/ Resolve(a) \/ SweepGrant(a) \/ LosePush(a)
             \/ \E x \in Execs : Settle(x)
             \/ Handler \/ Control \/ CacheExpires
      PROVE  WokenClosing'
  <2>1. UNCHANGED <<pc, appr, eid, woken>>
    BY <1>4, Zenon DEF Deliver, Resolve, SweepGrant, LosePush, Settle, Handler, Mark, SetEvent, Stash, Control,
                       CacheExpires, history
  <2> QED
    BY <1>1, <1>2, <2>1, SameClosing DEF Closer
<1> QED
  BY <1>3, <1>4 DEF Next

(* A grant that woke its waiter is open only while some call is still to   *)
(* close it: success consumes it, and after an exception the reverse index *)
(* leads _safe_cancel_active_execution to it, however threads, pushes and  *)
(* cached answers interleave.  The backend has to answer: a consume        *)
(* request that gets lost may leave the row as it is.                      *)
THEOREM GrantSafe ==
  ASSUME "unreachable" \notin Env
  PROVE  Spec => []GrantClosed
<1>1. Init => Bindings /\ Findable /\ WokenClosing
  BY DEF Init, Bindings, Findable, WokenClosing, Holds, Awaiting, Idle, NoAnswer
<1>2. /\ TypeInv /\ Unresolved /\ Chain
      /\ Bindings /\ Findable /\ WokenClosing
      /\ [Next]_vars
      => Bindings' /\ Findable' /\ WokenClosing'
  <2> SUFFICES ASSUME TypeInv, Unresolved, Chain, Bindings, Findable, WokenClosing, [Next]_vars
               PROVE  Bindings' /\ Findable' /\ WokenClosing'
    OBVIOUS
  <2>1. CASE UNCHANGED vars
    BY <2>1 DEF vars, backend, waiting, history, Bindings, Holds, Findable, WokenClosing, Closed, Indexed, Closer
  <2>2. CASE Next
    <3>1. Progress
      BY <2>2, GrantProgress
    <3>2. Bindings'
      BY <2>2, GateBindings, RestBindings DEF Next, Step
    <3>3. Findable'
      BY <2>2, <3>1, CallFindable, OutcomeFindable, OtherFindable DEF Next, Step
    <3>4. WokenClosing'
      BY <2>2, <3>1, ClosingStep
    <3> QED
      BY <3>2, <3>3, <3>4
  <2> QED
    BY <2>1, <2>2
<1>3. WokenClosing => GrantClosed
  BY DEF WokenClosing, GrantClosed, Closed, Closer
<1> QED
  BY <1>1, <1>2, <1>3, ChainHolds, PTL DEF Spec

=============================================================================
