--------------------------- MODULE RussConnProofs ---------------------------
(* Proofs about RussConn, for every set of dials and any number of streams. *)
EXTENDS RussConn, SequenceTheorems, TLAPS

USE DEF Exit, Slots, Std, Sock, NoFd

LEMMA DescOf ==
    ASSUME NEW c \in Conns, NEW side \in {"c", "s"}, NEW ch \in 0..NStd + 1
    PROVE  D(c, side, ch) \in Desc
BY DEF D, Desc

LEMMA ItemsOf ==
    /\ \A idx \in SUBSET Slots : Hdr(idx) \in Items
    /\ \A ch \in Slots : Fd(ch) \in Items
BY DEF Items, Hdr, Fd

LEMMA ItemFields ==
    ASSUME NEW it \in Items
    PROVE  /\ it.k = "hdr" => it.idx \in SUBSET Slots
           /\ it.k = "fd" => it.ch \in Slots
BY DEF Items

\* The type invariant holds initially.
LEMMA TypeInit == Init => TypeOK
BY ConnAssumption DEF Init, TypeOK, LoopPc, MidPc, HndPc, Routes, CliPc

\* Every step of the loop keeps the types.
LEMMA TypeLoop == TypeOK /\ Loop /\ UNCHANGED closeonaccept => TypeOK'
<1> SUFFICES ASSUME TypeOK, Loop, UNCHANGED closeonaccept PROVE TypeOK'
  OBVIOUS
<1> USE DEF TypeOK, LoopPc
<1> USE DEF loopvars, midvars, hndvars, kernvars, clivars
<1>s. ASSUME NEW c \in Conns PROVE SrvSock(c) \in Desc
  BY DescOf, ConnAssumption DEF SrvSock
<1>1. ASSUME NEW c \in Conns, Accept(c) PROVE TypeOK'
  BY <1>1, <1>s DEF Accept, MaybeCloseLis
<1>2. CASE AcceptFail
  BY <1>2 DEF AcceptFail, MaybeCloseLis
<1>3. CASE LoopEnd
  BY <1>3 DEF LoopEnd
<1>4. CASE Fork
  BY <1>4 DEF Fork, MidPc
<1>5. CASE LoopClose
  BY <1>5 DEF LoopClose
<1>6. CASE LoopWait
  BY <1>6 DEF LoopWait
<1>7. CASE LoopKill
  BY <1>7 DEF LoopKill
<1> QED
  BY <1>1, <1>2, <1>3, <1>4, <1>5, <1>6, <1>7 DEF Loop

\* Every step of a first child keeps the types.
LEMMA TypeMid == \A c \in Conns : TypeOK /\ Mid(c) /\ UNCHANGED closeonaccept => TypeOK'
<1> SUFFICES ASSUME NEW c \in Conns, TypeOK, Mid(c), UNCHANGED closeonaccept PROVE TypeOK'
  OBVIOUS
<1> USE DEF TypeOK, loopvars, midvars, hndvars, kernvars, clivars
<1>1. CASE MidCloseLis(c)
  BY <1>1 DEF MidCloseLis, MidPc
<1>2. CASE MidFork(c)
  <2>1. mpc' \in [Conns -> MidPc]
    BY <1>2 DEF MidFork, MidPc
  <2>2. hpc' \in [Conns -> HndPc]
    BY <1>2 DEF MidFork, HndPc
  <2>3. htab' \in [Conns -> SUBSET (Desc \cup {Lis})]
    <3>1. htab' = [htab EXCEPT ![c] = mtab[c]] \/ htab' = htab
      BY <1>2 DEF MidFork
    <3>2. mtab[c] \in SUBSET (Desc \cup {Lis})
      OBVIOUS
    <3> HIDE DEF loopvars, midvars, hndvars, kernvars, clivars
    <3> QED
      BY <3>1, <3>2
  <2> QED
    BY <1>2, <2>1, <2>2, <2>3 DEF MidFork
<1>3. CASE MidExit(c)
  BY <1>3 DEF MidExit, MidPc
<1> QED
  BY <1>1, <1>2, <1>3 DEF Mid

\* Every step of a handler process keeps the types.
LEMMA TypeSendExit ==
    ASSUME TypeOK, NEW c \in Conns, NEW st \in Statuses, SendExit(c, st)
    PROVE  /\ pipe' \in [Conns -> Seq(Statuses)]
           /\ said' \in [Conns -> Statuses \cup {NoStatus}]
           /\ ExitTab(c) \in SUBSET (Desc \cup {Lis})
BY DEF TypeOK, SendExit, ExitPipe, ExitSaid, ExitTab

LEMMA TypeDispatch ==
    ASSUME TypeOK, NEW c \in Conns, Dispatch(c)
    PROVE  /\ hpc' \in [Conns -> HndPc]
           /\ route' \in [Conns -> Routes]
           /\ offer' \in [Conns -> SUBSET Std]
<1> USE DEF TypeOK, Goto
<1>1. hpc' \in [Conns -> HndPc]
  BY DEF Dispatch, HndPc
<1>2. route' \in [Conns -> Routes]
  BY DEF Dispatch, Routes
<1>3. offer' \in [Conns -> SUBSET Std]
  <2>1. CASE offer' = offer
    BY <2>1
  <2>2. CASE offer' = [offer EXCEPT ![c] = Std]
    <3> HIDE DEF Std
    <3> QED
      BY <2>2
  <2> QED
    BY <2>1, <2>2 DEF Dispatch
<1> QED
  BY <1>1, <1>2, <1>3

LEMMA TypeTransmit ==
    ASSUME TypeOK, UNCHANGED closeonaccept, NEW c \in Conns, NEW it \in Items, NEW rem \in SUBSET Slots,
           Transmit(c, it, rem)
    PROVE  TypeOK'
<1> USE DEF TypeOK, loopvars, midvars, hndvars, kernvars, clivars
<1>1. wire' \in [Conns -> Seq(Items)]
  BY DEF Transmit
<1>2. left' \in [Conns -> SUBSET Slots]
  BY DEF Transmit
<1>3. htab' \in [Conns -> SUBSET (Desc \cup {Lis})]
  BY DEF Transmit
<1>4. hpc' \in [Conns -> HndPc]
  BY DEF Transmit, Goto, NextPc, AfterAnswer, HndPc
<1> QED
  BY <1>1, <1>2, <1>3, <1>4 DEF Transmit

LEMMA TypeHandler == \A c \in Conns : TypeOK /\ Handler(c) /\ UNCHANGED closeonaccept => TypeOK'
<1> SUFFICES ASSUME NEW c \in Conns, TypeOK, Handler(c), UNCHANGED closeonaccept PROVE TypeOK'
  OBVIOUS
<1> USE DEF TypeOK, loopvars, midvars, hndvars, kernvars, clivars, Goto
<1>a. Failure \in Statuses /\ Success \in Statuses
  BY ConnAssumption
<1>1. CASE AwaitReq(c)
  BY <1>1, TypeDispatch DEF AwaitReq
<1>2. CASE AwaitShort(c)
  <2>1. CASE Dispatch(c)
    BY <1>2, <2>1, TypeDispatch DEF AwaitShort
  <2>2. CASE hpc' = [hpc EXCEPT ![c] = "cleanup"] /\ UNCHANGED <<route, offer>>
    BY <1>2, <2>2 DEF AwaitShort, HndPc
  <2> QED
    BY <1>2, <2>1, <2>2 DEF AwaitShort
<1>3. CASE MakePipes(c)
  <2>1. \A side \in {"c", "s"}, ch \in offer[c] \cup {Exit} : D(c, side, ch) \in Desc
    BY DescOf, ConnAssumption
  <2>2. htab' \in [Conns -> SUBSET (Desc \cup {Lis})]
    BY <1>3, <2>1 DEF MakePipes
  <2>3. hpc' \in [Conns -> HndPc]
    BY <1>3 DEF MakePipes, HndPc
  <2> QED
    BY <1>3, <2>2, <2>3 DEF MakePipes
<1>4. CASE MakePipesFail(c)
  BY <1>4 DEF MakePipesFail, AfterNoAnswer, HndPc
<1>5. CASE SendHdr(c)
  <2>1. {Exit} \in SUBSET Slots /\ offer[c] \in SUBSET Slots
    BY ConnAssumption
  <2>2. ASSUME NEW idx \in SUBSET Slots, Transmit(c, Hdr(idx), idx) PROVE TypeOK'
    BY <2>2, TypeTransmit, ItemsOf
  <2> QED
    BY <1>5, <2>1, <2>2 DEF SendHdr
<1>6. CASE SendFd(c)
  <2>1. PICK i \in left[c] : Transmit(c, Fd(i), left[c] \ {i})
    BY <1>6 DEF SendFd
  <2> QED
    BY <2>1, TypeTransmit, ItemsOf
<1>7. CASE SendFail(c)
  BY <1>7 DEF SendFail, AfterNoAnswer, HndPc
<1>8. CASE Refuse(c)
  BY <1>8, <1>a, TypeSendExit DEF Refuse, HndPc
<1>9. CASE Verify(c)
  <2>1. CASE UNCHANGED <<htab, route, pipe, said>>
    BY <1>9, <2>1 DEF Verify, HndPc
  <2>2. CASE /\ SendExit(c, Failure)
             /\ htab' = [htab EXCEPT ![c] = ExitTab(c)]
             /\ route' = [route EXCEPT ![c] = "denied"]
             /\ hpc' = [hpc EXCEPT ![c] = "cleanup"]
    <3>1. route' \in [Conns -> Routes] /\ hpc' \in [Conns -> HndPc]
      BY <2>2 DEF HndPc, Routes
    <3>2. htab' \in [Conns -> SUBSET (Desc \cup {Lis})]
      BY <2>2, <1>a, TypeSendExit
    <3> QED
      BY <1>9, <2>2, <3>1, <3>2, <1>a, TypeSendExit DEF Verify
  <2> QED
    BY <1>9, <2>1, <2>2 DEF Verify
<1>10. ASSUME NEW idx \in SUBSET Std, HandlerAnswer(c, idx) PROVE TypeOK'
  BY <1>10 DEF HandlerAnswer, HndPc
<1>16. CASE HandlerAnswerAgain(c)
  BY <1>16 DEF HandlerAnswerAgain, Routes
<1>11. ASSUME NEW st \in Statuses, HandlerExit(c, st) PROVE TypeOK'
  BY <1>11, TypeSendExit DEF HandlerExit
<1>12. CASE HandlerReturn(c)
  BY <1>12 DEF HandlerReturn, HndPc
<1>13. CASE Fallback(c)
  <2>1. CASE UNCHANGED <<htab, pipe, said>>
    BY <1>13, <2>1 DEF Fallback, HndPc
  <2>2. ASSUME NEW st \in {Success, Failure}, SendExit(c, st),
               htab' = [htab EXCEPT ![c] = ExitTab(c)]
        PROVE  TypeOK'
    BY <1>13, <2>2, <1>a, TypeSendExit DEF Fallback, HndPc
  <2> QED
    BY <1>13, <2>1, <2>2 DEF Fallback
<1>14. CASE Cleanup(c)
  BY <1>14, <1>a, TypeSendExit DEF Cleanup, HndPc
<1>15. CASE HandlerKill(c)
  BY <1>15 DEF HandlerKill, HndPc
<1> QED
  BY <1>1, <1>2, <1>3, <1>4, <1>5, <1>6, <1>7, <1>8, <1>9, <1>10, <1>11, <1>12,
     <1>13, <1>14, <1>15, <1>16 DEF Handler

LEMMA TypeDrop ==
    ASSUME TypeOK, UNCHANGED closeonaccept, NEW c \in Conns, NEW pc \in CliPc, Drop(c, pc),
           req' \in [Conns -> {"none", "part", "full"}]
    PROVE  TypeOK'
<1> USE DEF TypeOK, loopvars, midvars, hndvars
<1>1. slot' \in [Conns -> [Slots -> Slots \cup {NoFd}]]
  BY DEF Drop
<1>2. wire' \in [Conns -> Seq(Items)] /\ want' \in [Conns -> SUBSET Slots]
  BY DEF Drop
<1> QED
  BY <1>1, <1>2 DEF Drop

LEMMA TypeAdvance ==
    ASSUME TypeOK, UNCHANGED closeonaccept, NEW c \in Conns, NEW rem \in SUBSET Slots, wire[c] # <<>>,
           Advance(c, rem),
           slot' \in [Conns -> [Slots -> Slots \cup {NoFd}]]
    PROVE  TypeOK'
<1> USE DEF TypeOK, loopvars, midvars, hndvars
<1>1. wire' \in [Conns -> Seq(Items)]
  BY DEF Advance
<1>2. cpc' \in [Conns -> CliPc]
  BY DEF Advance, NextPc, CliPc
<1> QED
  BY <1>1, <1>2 DEF Advance

\* Every step of a client keeps the types.
LEMMA TypeClient == \A c \in Conns : TypeOK /\ Client(c) /\ UNCHANGED closeonaccept => TypeOK'
<1> SUFFICES ASSUME NEW c \in Conns, TypeOK, Client(c), UNCHANGED closeonaccept PROVE TypeOK'
  OBVIOUS
<1> USE DEF loopvars, midvars, hndvars, kernvars, clivars
<1>1. CASE Connect(c)
  BY <1>1 DEF Connect, TypeOK, CliPc
<1>2. ASSUME NEW pc \in {"failed", "left"}, Drop(c, pc), UNCHANGED req PROVE TypeOK'
  BY <1>2, TypeDrop DEF TypeOK, CliPc
<1>3. CASE SendPart(c) \/ SendReq(c)
  BY <1>3 DEF SendPart, SendReq, TypeOK, CliPc
<1>4. CASE SendReqFail(c)
  <2>1. req' \in [Conns -> {"none", "part", "full"}]
    BY <1>4 DEF SendReqFail, TypeOK
  <2> QED
    BY <1>4, <2>1, TypeDrop DEF SendReqFail, CliPc
<1>5. CASE RecvHdr(c)
  <2>1. Head(wire[c]).idx \in SUBSET Slots
    BY <1>5, ItemFields DEF RecvHdr, TypeOK
  <2> QED
    BY <1>5, <2>1, TypeAdvance DEF RecvHdr, TypeOK
<1>6. CASE RecvFd(c)
  <2>1. PICK i \in want[c] :
               /\ slot' = [slot EXCEPT ![c] = [@ EXCEPT ![i] = Head(wire[c]).ch]]
               /\ Advance(c, want[c] \ {i})
    BY <1>6 DEF RecvFd
  <2>2. Head(wire[c]).ch \in Slots
    BY <1>6, ItemFields DEF RecvFd, TypeOK
  <2>3. slot' \in [Conns -> [Slots -> Slots \cup {NoFd}]]
    BY <2>1, <2>2 DEF TypeOK
  <2>4. want[c] \ {i} \in SUBSET Slots /\ wire[c] # <<>>
    BY <1>6 DEF TypeOK, RecvFd
  <2> QED
    BY <2>1, <2>3, <2>4, TypeAdvance
<1>7. CASE WaitOk(c)
  <2>1. Head(pipe[c]) \in Statuses /\ Tail(pipe[c]) \in Seq(Statuses)
    BY <1>7 DEF WaitOk, TypeOK
  <2> QED
    BY <1>7, <2>1 DEF WaitOk, TypeOK
<1>8. CASE WaitHup(c)
  BY <1>8 DEF WaitHup, TypeOK
<1>9. CASE WaitTimeout(c)
  BY <1>9 DEF WaitTimeout, TypeOK, state
<1> QED
  BY <1>1, <1>2, <1>3, <1>4, <1>5, <1>6, <1>7, <1>8, <1>9
     DEF Client, ConnectFail, RecvEof, RecvTimeout, Leave

LEMMA TypeNext == TypeOK /\ [Next]_vars => TypeOK'
<1>1. CASE UNCHANGED vars
  BY <1>1 DEF TypeOK, vars, state, loopvars, midvars, hndvars, kernvars, clivars
<1> QED
  BY <1>1, TypeLoop, TypeMid, TypeHandler, TypeClient DEF Next

\* The type invariant holds for every server and its clients.
THEOREM TypeCorrect == Spec => []TypeOK
BY TypeInit, TypeNext, PTL DEF Spec

-----------------------------------------------------------------------------
(* OwnDescriptors is inductive on typed states.                            *)

LEMMA OwnLoop == TypeOK /\ OwnDescriptors /\ Loop => OwnDescriptors'
<1> SUFFICES ASSUME TypeOK, OwnDescriptors, Loop PROVE OwnDescriptors'
  OBVIOUS
<1> USE DEF loopvars, midvars, hndvars, SrvSock, MaybeCloseLis
<1>1. ASSUME NEW c \in Conns, Accept(c) PROVE OwnDescriptors'
  BY <1>1 DEF Accept, OwnDescriptors
<1>2. CASE AcceptFail
  BY <1>2 DEF AcceptFail, OwnDescriptors
<1>3. CASE LoopEnd
  BY <1>3 DEF LoopEnd, OwnDescriptors
<1>4. CASE Fork
  <2>1. ltab' \subseteq {Lis} \cup (IF lpc' \in {"fork", "close"} THEN {SrvSock(cur')} ELSE {})
    BY <1>4 DEF Fork, OwnDescriptors
  <2>2. ASSUME NEW c \in Conns
        PROVE  mtab'[c] \subseteq {SrvSock(c)} \cup (IF mpc'[c] = "forked" THEN {Lis} ELSE {})
    <3> HIDE DEF SrvSock
    <3>1. CASE UNCHANGED <<mpc, mtab>>
      BY <1>4, <3>1 DEF Fork, OwnDescriptors
    <3>2. CASE /\ mpc' = [mpc EXCEPT ![cur] = "forked"]
               /\ mtab' = [mtab EXCEPT ![cur] = ltab]
      <4>1. CASE c = cur
        <5>1. mtab'[c] = ltab /\ mpc'[c] = "forked"
          BY <3>2, <4>1 DEF TypeOK
        <5>2. ltab \subseteq {Lis} \cup {SrvSock(cur)}
          BY <1>4 DEF Fork, OwnDescriptors
        <5> QED
          BY <5>1, <5>2, <4>1
      <4>2. CASE c # cur
        <5>1. mtab'[c] = mtab[c] /\ mpc'[c] = mpc[c]
          BY <3>2, <4>2 DEF TypeOK
        <5> QED
          BY <5>1 DEF OwnDescriptors
      <4> QED
        BY <4>1, <4>2
    <3> QED
      BY <1>4, <3>1, <3>2 DEF Fork
  <2>3. htab' = htab
    BY <1>4 DEF Fork
  <2> QED
    BY <2>1, <2>2, <2>3 DEF OwnDescriptors
<1>5. CASE LoopClose
  BY <1>5 DEF LoopClose, OwnDescriptors
<1>6. CASE LoopWait
  BY <1>6 DEF LoopWait, OwnDescriptors
<1>7. CASE LoopKill
  BY <1>7 DEF LoopKill, OwnDescriptors
<1> QED
  BY <1>1, <1>2, <1>3, <1>4, <1>5, <1>6, <1>7 DEF Loop

LEMMA OwnMid == \A c \in Conns : TypeOK /\ OwnDescriptors /\ Mid(c) => OwnDescriptors'
<1> SUFFICES ASSUME NEW c \in Conns, TypeOK, OwnDescriptors, Mid(c) PROVE OwnDescriptors'
  OBVIOUS
<1> USE DEF loopvars, hndvars, OwnDescriptors, TypeOK
<1>1. CASE MidCloseLis(c)
  BY <1>1 DEF MidCloseLis
<1>2. CASE MidFork(c)
  <2>1. \A d \in mtab[c] : d \in Desc /\ d.conn = c
    BY <1>2, DescOf, ConnAssumption DEF MidFork, SrvSock, D
  <2>2. \A k \in Conns : htab'[k] = htab[k] \/ (k = c /\ htab'[k] = mtab[c])
    <3>1. htab' = htab \/ htab' = [htab EXCEPT ![c] = mtab[c]]
      BY <1>2 DEF MidFork
    <3> QED
      BY <3>1
  <2>3. \A k \in Conns : mpc[k] = "forked" => mpc'[k] = "forked"
    BY <1>2 DEF MidFork
  <2>4. UNCHANGED <<lpc, cur, ltab, mtab>> /\ mpc[c] = "closed"
    BY <1>2 DEF MidFork
  <2>5. \A k \in Conns : mtab'[k] \subseteq {SrvSock(k)} \cup (IF mpc'[k] = "forked" THEN {Lis} ELSE {})
    BY <2>3, <2>4
  <2>6. \A k \in Conns : \A d \in htab'[k] : d \in Desc /\ d.conn = k
    BY <2>1, <2>2
  <2> QED
    BY <2>4, <2>5, <2>6 DEF SrvSock
<1>3. CASE MidExit(c)
  BY <1>3 DEF MidExit
<1> QED
  BY <1>1, <1>2, <1>3 DEF Mid

\* A handler only closes descriptors, except for the pipes it makes.
LEMMA HandlerTab ==
    ASSUME TypeOK, OwnDescriptors, NEW c \in Conns, Handler(c)
    PROVE  /\ UNCHANGED <<lpc, cur, ltab, mpc, mtab>>
           /\ \A k \in Conns : k # c => htab'[k] = htab[k]
           /\ \A d \in htab'[c] : d \in Desc /\ d.conn = c
<1> USE DEF loopvars, midvars
<1>1. UNCHANGED <<lpc, cur, ltab, mpc, mtab>>
  BY DEF Handler, AwaitReq, AwaitShort, MakePipes, MakePipesFail, SendHdr, SendFd, Transmit,
         SendFail, Refuse, Verify, HandlerAnswer, HandlerAnswerAgain, HandlerExit, HandlerReturn, Fallback,
         Cleanup, HandlerKill
<1>2. \/ htab' = htab
      \/ \E tab \in SUBSET htab[c] : htab' = [htab EXCEPT ![c] = tab]
      \/ MakePipes(c)
  <2>1. ExitTab(c) \in SUBSET htab[c]
    BY DEF ExitTab
  <2>2. \A it, rem : Transmit(c, it, rem) =>
             \E tab \in SUBSET htab[c] : htab' = [htab EXCEPT ![c] = tab]
    BY DEF Transmit
  <2>3. SendHdr(c) \/ SendFd(c) =>
             \E tab \in SUBSET htab[c] : htab' = [htab EXCEPT ![c] = tab]
    BY <2>2 DEF SendHdr, SendFd
  <2>4. SendFail(c) => \E tab \in SUBSET htab[c] : htab' = [htab EXCEPT ![c] = tab]
    BY DEF SendFail
  <2> QED
    BY <2>1, <2>3, <2>4
       DEF Handler, AwaitReq, AwaitShort, MakePipesFail, Refuse, Verify, HandlerAnswer,
           HandlerAnswerAgain, HandlerExit, HandlerReturn, Fallback, Cleanup, HandlerKill
<1>3. CASE MakePipes(c)
  <2>1. ASSUME NEW side \in {"c", "s"}, NEW ch \in offer[c] \cup {Exit}
        PROVE  D(c, side, ch) \in Desc /\ D(c, side, ch).conn = c
    <3>1. ch \in 0..NStd + 1
      BY ConnAssumption DEF TypeOK
    <3> QED
      BY <3>1, DescOf DEF D
  <2> QED
    BY <1>1, <1>3, <2>1 DEF MakePipes, OwnDescriptors, TypeOK
<1> QED
  BY <1>1, <1>2, <1>3 DEF OwnDescriptors, TypeOK

LEMMA OwnNext == TypeOK /\ OwnDescriptors /\ [Next]_vars => OwnDescriptors'
<1> SUFFICES ASSUME TypeOK, OwnDescriptors, [Next]_vars PROVE OwnDescriptors'
  OBVIOUS
<1>1. ASSUME NEW c \in Conns, Handler(c) PROVE OwnDescriptors'
  BY <1>1, HandlerTab DEF OwnDescriptors, SrvSock
<1>2. ASSUME NEW c \in Conns, Client(c) PROVE OwnDescriptors'
  <2>1. UNCHANGED <<lpc, cur, ltab, mpc, mtab, htab>>
    BY <1>2 DEF Client, Connect, ConnectFail, SendPart, SendReq, SendReqFail, RecvHdr, RecvFd, RecvEof,
                RecvTimeout, WaitOk, WaitHup, WaitTimeout, Leave, Drop, Advance,
                state, loopvars, midvars, hndvars
  <2> QED
    BY <2>1 DEF OwnDescriptors, SrvSock
<1>3. CASE UNCHANGED vars
  BY <1>3 DEF OwnDescriptors, SrvSock, vars, state, loopvars, midvars, hndvars
<1> QED
  BY <1>1, <1>2, <1>3, OwnLoop, OwnMid DEF Next

\* Connections never share a process: whatever forks fail and whoever is killed,
\* a handler holds descriptors of its own connection only, and the loop holds
\* none while it accepts.
THEOREM OwnDescriptorsAlways == Spec => []OwnDescriptors
<1>1. Init => OwnDescriptors
  BY DEF Init, OwnDescriptors
<1> QED
  BY <1>1, OwnNext, TypeCorrect, PTL DEF Spec

-----------------------------------------------------------------------------
(* The answer and the exit status: what a client has when its dial          *)
(* succeeds, that it hears one status, and that the whole implements        *)
(* RussCall.                                                                *)
(*                                                                          *)
(* The inductive invariant says, for each connection, how far server and    *)
(* client are with the answer and what lies between them: the messages on   *)
(* the wire are the first of those the client still expects, and the server *)
(* has the others to send, unless it was killed.                            *)

-----------------------------------------------------------------------------
(* What lies between server and client.  pc and rem are the server's place *)
(* in the answer and what is left of the current array, fin is true once   *)
(* it will send no more, off is what it offers, w is on the wire.          *)

\* The descriptors of w are the first of S, lowest position first.
Run(w, S) ==
    /\ \A k \in DOMAIN w : w[k].ch \in S /\ w[k] = Fd(w[k].ch)
    /\ \A k, l \in DOMAIN w : k < l => w[k].ch < w[l].ch
    /\ \A k \in DOMAIN w : \A j \in S : j < w[k].ch => \E l \in DOMAIN w : w[l].ch = j
Rest(w, S) == {j \in S : \A k \in DOMAIN w : w[k].ch # j}

\* The client waits for the standard descriptors S.
StdFds(pc, rem, fin, w, S) ==
    /\ Run(w, S)
    /\ \/ pc = "killed"
       \/ pc = "stdfds" /\ rem # {} /\ Rest(w, S) = rem
       \/ fin /\ Rest(w, S) = {}
\* It waits for the header before them, for the exit descriptor, for the first
\* header.
StdHdr(pc, rem, fin, off, w) ==
    IF w = <<>> THEN pc \in {"stdhdr", "killed"}
    ELSE Head(w) = Hdr(off) /\ StdFds(pc, rem, fin, Tail(w), off)
SysFds(pc, rem, fin, off, w) ==
    IF w = <<>> THEN pc = "killed" \/ (pc = "sysfds" /\ rem = {Exit})
    ELSE Head(w) = Fd(Exit) /\ StdHdr(pc, rem, fin, off, Tail(w))
SysHdr(pc, rem, fin, off, w) ==
    IF w = <<>> THEN pc \notin {"sysfds", "stdhdr", "stdfds"}
    ELSE Head(w) = Hdr({Exit}) /\ SysFds(pc, rem, fin, off, Tail(w))

LEMMA RunEmpty == \A S : Run(<<>>, S) /\ Rest(<<>>, S) = S
BY DEF Run, Rest

\* The next descriptor is sent.
LEMMA RunAppend ==
    ASSUME NEW w \in Seq(Items), NEW S \in SUBSET Slots, Run(w, S),
           NEW i \in Rest(w, S), IsFirst(i, Rest(w, S))
    PROVE  /\ Run(Append(w, Fd(i)), S)
           /\ Rest(Append(w, Fd(i)), S) = Rest(w, S) \ {i}
<1> DEFINE v == Append(w, Fd(i))
<1>1. /\ DOMAIN w = 1..Len(w) /\ DOMAIN v = 1..Len(w) + 1 /\ Len(w) \in Nat
      /\ \A k \in DOMAIN w : v[k] = w[k]
      /\ v[Len(w) + 1] = Fd(i)
  BY ItemsOf DEF Rest
<1>2. Fd(i).ch = i /\ i \in S /\ S \subseteq Int
  BY ConnAssumption DEF Fd, Rest
<1>3. ASSUME NEW k \in DOMAIN w PROVE w[k].ch \in S /\ w[k].ch < i
  <2>1. w[k].ch \in S /\ w[k].ch # i /\ ~(i < w[k].ch)
    BY <1>2 DEF Run, Rest
  <2>2. w[k].ch \in Int /\ i \in Int
    BY <1>2, <2>1
  <2> QED
    BY <2>1, <2>2
<1>4. ASSUME NEW j \in S, j < i PROVE \E l \in DOMAIN w : w[l].ch = j
  <2>1. j \in Int /\ i \in Int
    BY <1>2
  <2>2. j \notin Rest(w, S)
    BY <1>4, <2>1 DEF IsFirst
  <2> QED
    BY <2>2 DEF Rest
<1> HIDE DEF v
<1>5. Run(v, S)
  <2>1. \A k \in DOMAIN v : v[k].ch \in S /\ v[k] = Fd(v[k].ch)
    BY <1>1, <1>2 DEF Run
  <2>2. ASSUME NEW k \in DOMAIN v, NEW l \in DOMAIN v, k < l PROVE v[k].ch < v[l].ch
    <3>1. CASE l \in DOMAIN w
      BY <1>1, <2>2, <3>1 DEF Run
    <3>2. CASE l = Len(w) + 1
      BY <1>1, <1>2, <1>3, <2>2, <3>2
    <3> QED
      BY <1>1, <3>1, <3>2
  <2>3. ASSUME NEW k \in DOMAIN v, NEW j \in S, j < v[k].ch PROVE \E l \in DOMAIN v : v[l].ch = j
    <3>1. \E l \in DOMAIN w : w[l].ch = j
      <4>1. CASE k \in DOMAIN w
        BY <1>1, <2>3, <4>1 DEF Run
      <4>2. CASE k = Len(w) + 1
        BY <1>1, <1>2, <1>4, <2>3, <4>2
      <4> QED
        BY <1>1, <4>1, <4>2
    <3> QED
      BY <1>1, <3>1
  <2> QED
    BY <2>1, <2>2, <2>3 DEF Run
<1>6. Rest(v, S) = Rest(w, S) \ {i}
  BY <1>1, <1>2 DEF Rest
<1> QED
  BY <1>5, <1>6 DEF v

\* The next descriptor is received: it is the lowest of those that are waited for.
LEMMA RunTail ==
    ASSUME NEW w \in Seq(Items), w # <<>>, NEW S \in SUBSET Slots, Run(w, S)
    PROVE  /\ Head(w) = Fd(Head(w).ch) /\ Head(w).ch \in S /\ IsFirst(Head(w).ch, S)
           /\ Run(Tail(w), S \ {Head(w).ch})
           /\ Rest(Tail(w), S \ {Head(w).ch}) = Rest(w, S)
<1> DEFINE v == Tail(w)
           h == Head(w).ch
<1>1. /\ DOMAIN w = 1..Len(w) /\ DOMAIN v = 1..Len(w) - 1 /\ Len(w) \in Nat \ {0}
      /\ \A k \in DOMAIN v : v[k] = w[k + 1]
      /\ Head(w) = w[1]
  BY HeadTailProperties, LenProperties, EmptySeq
<1>2. S \subseteq Int
  BY ConnAssumption
<1> HIDE DEF v
<1>3. 1 \in DOMAIN w /\ h = w[1].ch /\ \A k \in DOMAIN v : k + 1 \in DOMAIN w /\ 1 < k + 1
  BY <1>1
<1>4. Head(w) = Fd(h) /\ h \in S
  BY <1>1, <1>3 DEF Run
<1>5. \A k \in DOMAIN w : k = 1 \/ (k - 1 \in DOMAIN v /\ v[k - 1] = w[k])
  BY <1>1
<1>6. IsFirst(h, S)
  <2>1. ASSUME NEW j \in S, j < h PROVE FALSE
    <3>1. PICK l \in DOMAIN w : w[l].ch = j
      BY <1>3, <2>1 DEF Run
    <3>2. l = 1 \/ w[1].ch < w[l].ch
      BY <1>1, <1>3 DEF Run
    <3>3. h = w[1].ch /\ w[l].ch = j /\ h \in Int /\ j \in Int
      BY <1>2, <1>3, <1>4, <3>1
    <3> QED
      BY <2>1, <3>2, <3>3
  <2>2. \A j \in S : j \in Int /\ h \in Int /\ ~(j < h)
    BY <1>2, <1>4, <2>1
  <2> QED
    BY <1>4, <2>2 DEF IsFirst
<1>7. Run(v, S \ {h})
  <2>1. ASSUME NEW k \in DOMAIN v PROVE v[k].ch \in S \ {h} /\ v[k] = Fd(v[k].ch)
    <3>1. w[1].ch < w[k + 1].ch /\ w[k + 1].ch \in S /\ w[k + 1] = Fd(w[k + 1].ch)
      BY <1>3 DEF Run
    <3>2. v[k] = w[k + 1] /\ w[1].ch \in Int /\ w[k + 1].ch \in Int
      BY <1>1, <1>2, <1>3, <1>4, <3>1
    <3>3. w[k + 1].ch # h
      BY <1>3, <3>1, <3>2
    <3> QED
      BY <3>1, <3>2, <3>3
  <2>2. ASSUME NEW k \in DOMAIN v, NEW l \in DOMAIN v, k < l PROVE v[k].ch < v[l].ch
    <3>1. k + 1 < l + 1
      BY <1>1, <2>2
    <3> QED
      BY <1>1, <1>3, <3>1 DEF Run
  <2>3. ASSUME NEW k \in DOMAIN v, NEW j \in S \ {h}, j < v[k].ch PROVE \E l \in DOMAIN v : v[l].ch = j
    <3>1. j < w[k + 1].ch
      BY <1>1, <2>3
    <3>2. PICK l \in DOMAIN w : w[l].ch = j
      BY <1>3, <3>1 DEF Run
    <3> QED
      BY <1>3, <1>5, <3>2
  <2> QED
    BY <2>1, <2>2, <2>3 DEF Run
<1>8. Rest(v, S \ {h}) = Rest(w, S)
  <2>1. ASSUME NEW j \in S, NEW k \in DOMAIN v, v[k].ch = j PROVE \E l \in DOMAIN w : w[l].ch = j
    BY <1>1, <1>3, <2>1
  <2>2. ASSUME NEW j \in S \ {h}, NEW l \in DOMAIN w, w[l].ch = j PROVE \E k \in DOMAIN v : v[k].ch = j
    BY <1>3, <1>5, <2>2
  <2> QED
    BY <1>3, <2>1, <2>2 DEF Rest
<1> QED
  BY <1>4, <1>6, <1>7, <1>8 DEF v

-----------------------------------------------------------------------------
(* The server's steps through the answer.                                  *)

\* It sends one message.
Sends(pc, rem, off, it, pc2, rem2, fin2) ==
    \/ pc = "syshdr" /\ it = Hdr({Exit}) /\ rem2 = {Exit} /\ pc2 = "sysfds"
    \/ pc = "sysfds" /\ rem = {Exit} /\ it = Fd(Exit) /\ pc2 = "stdhdr"
    \/ /\ pc = "stdhdr" /\ it = Hdr(off) /\ rem2 = off
       /\ IF off = {} THEN fin2 ELSE pc2 = "stdfds"
    \/ /\ pc = "stdfds"
       /\ \E i \in rem : IsFirst(i, rem) /\ it = Fd(i) /\ rem2 = rem \ {i}
       /\ IF rem2 = {} THEN fin2 ELSE pc2 = "stdfds"

LEMMA AppendParts ==
    ASSUME NEW w \in Seq(Items), NEW it \in Items
    PROVE  /\ Append(w, it) # <<>> /\ Append(w, it) \in Seq(Items)
           /\ w = <<>> => Head(Append(w, it)) = it /\ Tail(Append(w, it)) = <<>>
           /\ w # <<>> => /\ Head(Append(w, it)) = Head(w)
                          /\ Tail(Append(w, it)) = Append(Tail(w), it)
                          /\ Tail(w) \in Seq(Items)
BY HeadTailAppend, HeadTailProperties, AppendProperties

LEMMA SendStdFds ==
    ASSUME NEW pc, NEW rem \in SUBSET Slots, NEW off, NEW w \in Seq(Items), NEW it \in Items, NEW S \in SUBSET Slots,
           NEW pc2, NEW rem2, NEW fin2,
           StdFds(pc, rem, FALSE, w, S), pc # "killed", Sends(pc, rem, off, it, pc2, rem2, fin2)
    PROVE  StdFds(pc2, rem2, fin2, Append(w, it), S)
<1>1. pc = "stdfds" /\ Run(w, S) /\ Rest(w, S) = rem
  BY DEF StdFds
<1>2. PICK i \in rem : IsFirst(i, rem) /\ it = Fd(i) /\ rem2 = rem \ {i}
  BY <1>1 DEF Sends
<1>3. Run(Append(w, it), S) /\ Rest(Append(w, it), S) = rem2
  BY <1>1, <1>2, RunAppend
<1>4. IF rem2 = {} THEN fin2 ELSE pc2 = "stdfds"
  BY <1>1 DEF Sends
<1> QED
  BY <1>3, <1>4 DEF StdFds

LEMMA SendStdHdr ==
    ASSUME NEW pc, NEW rem \in SUBSET Slots, NEW off \in SUBSET Slots, NEW w \in Seq(Items), NEW it \in Items,
           NEW pc2, NEW rem2, NEW fin2,
           StdHdr(pc, rem, FALSE, off, w), pc # "killed", Sends(pc, rem, off, it, pc2, rem2, fin2)
    PROVE  StdHdr(pc2, rem2, fin2, off, Append(w, it))
<1>1. CASE w = <<>>
  <2>1. pc = "stdhdr" /\ it = Hdr(off) /\ rem2 = off /\ IF off = {} THEN fin2 ELSE pc2 = "stdfds"
    BY <1>1 DEF StdHdr, Sends
  <2>2. StdFds(pc2, rem2, fin2, <<>>, off)
    BY <2>1, RunEmpty DEF StdFds
  <2> QED
    BY <1>1, <2>1, <2>2, AppendParts DEF StdHdr
<1>2. CASE w # <<>>
  <2>1. Head(w) = Hdr(off) /\ Tail(w) \in Seq(Items) /\ StdFds(pc, rem, FALSE, Tail(w), off)
    BY <1>2, AppendParts DEF StdHdr
  <2>2. StdFds(pc2, rem2, fin2, Append(Tail(w), it), off)
    BY <2>1, SendStdFds
  <2> QED
    BY <1>2, <2>1, <2>2, AppendParts DEF StdHdr
<1> QED
  BY <1>1, <1>2

LEMMA SendSysFds ==
    ASSUME NEW pc, NEW rem \in SUBSET Slots, NEW off \in SUBSET Slots, NEW w \in Seq(Items), NEW it \in Items,
           NEW pc2, NEW rem2, NEW fin2,
           SysFds(pc, rem, FALSE, off, w), pc # "killed", Sends(pc, rem, off, it, pc2, rem2, fin2)
    PROVE  SysFds(pc2, rem2, fin2, off, Append(w, it))
<1>1. CASE w = <<>>
  <2>1. pc = "sysfds" /\ it = Fd(Exit) /\ pc2 = "stdhdr"
    BY <1>1 DEF SysFds, Sends
  <2> QED
    BY <1>1, <2>1, AppendParts DEF SysFds, StdHdr
<1>2. CASE w # <<>>
  <2>1. Head(w) = Fd(Exit) /\ Tail(w) \in Seq(Items) /\ StdHdr(pc, rem, FALSE, off, Tail(w))
    BY <1>2, AppendParts DEF SysFds
  <2>2. StdHdr(pc2, rem2, fin2, off, Append(Tail(w), it))
    BY <2>1, SendStdHdr
  <2> QED
    BY <1>2, <2>1, <2>2, AppendParts DEF SysFds
<1> QED
  BY <1>1, <1>2

LEMMA SendSysHdr ==
    ASSUME NEW pc, NEW rem \in SUBSET Slots, NEW off \in SUBSET Slots, NEW w \in Seq(Items), NEW it \in Items,
           NEW pc2, NEW rem2, NEW fin2,
           SysHdr(pc, rem, FALSE, off, w), pc # "killed", Sends(pc, rem, off, it, pc2, rem2, fin2)
    PROVE  SysHdr(pc2, rem2, fin2, off, Append(w, it))
<1>1. CASE w = <<>>
  <2>1. pc = "syshdr" /\ it = Hdr({Exit}) /\ rem2 = {Exit} /\ pc2 = "sysfds"
    BY <1>1 DEF SysHdr, Sends
  <2> QED
    BY <1>1, <2>1, AppendParts DEF SysHdr, SysFds
<1>2. CASE w # <<>>
  <2>1. Head(w) = Hdr({Exit}) /\ Tail(w) \in Seq(Items) /\ SysFds(pc, rem, FALSE, off, Tail(w))
    BY <1>2, AppendParts DEF SysHdr
  <2>2. SysFds(pc2, rem2, fin2, off, Append(Tail(w), it))
    BY <2>1, SendSysFds
  <2> QED
    BY <1>2, <2>1, <2>2, AppendParts DEF SysHdr
<1> QED
  BY <1>1, <1>2

LEMMA SendStep ==
    ASSUME NEW pc, NEW rem \in SUBSET Slots, NEW off \in SUBSET Slots, NEW w \in Seq(Items), NEW it \in Items,
           NEW S \in SUBSET Slots, NEW pc2, NEW rem2, NEW fin2,
           pc # "killed", Sends(pc, rem, off, it, pc2, rem2, fin2)
    PROVE  /\ StdFds(pc, rem, FALSE, w, S) => StdFds(pc2, rem2, fin2, Append(w, it), S)
           /\ StdHdr(pc, rem, FALSE, off, w) => StdHdr(pc2, rem2, fin2, off, Append(w, it))
           /\ SysFds(pc, rem, FALSE, off, w) => SysFds(pc2, rem2, fin2, off, Append(w, it))
           /\ SysHdr(pc, rem, FALSE, off, w) => SysHdr(pc2, rem2, fin2, off, Append(w, it))
BY SendStdFds, SendStdHdr, SendSysFds, SendSysHdr

\* It goes on without sending: it is killed, or it had finished and still has, or
\* it has not begun.
Quiet(pc, fin, pc2, fin2) ==
    \/ pc2 = "killed"
    \/ pc # "killed" /\ pc \notin {"sysfds", "stdhdr", "stdfds"} /\ pc2 \notin {"sysfds", "stdhdr", "stdfds"}
       /\ (fin => fin2)

LEMMA QuietStep ==
    ASSUME NEW pc, NEW rem, NEW fin \in BOOLEAN, NEW off, NEW w, NEW pc2, NEW rem2, NEW fin2 \in BOOLEAN,
           Quiet(pc, fin, pc2, fin2)
    PROVE  /\ \A S : StdFds(pc, rem, fin, w, S) => StdFds(pc2, rem2, fin2, w, S)
           /\ StdHdr(pc, rem, fin, off, w) => StdHdr(pc2, rem2, fin2, off, w)
           /\ SysFds(pc, rem, fin, off, w) => SysFds(pc2, rem2, fin2, off, w)
           /\ SysHdr(pc, rem, fin, off, w) => SysHdr(pc2, rem2, fin2, off, w)
<1>1. \A v, S : StdFds(pc, rem, fin, v, S) => StdFds(pc2, rem2, fin2, v, S)
  BY DEF Quiet, StdFds
<1>2. \A v : StdHdr(pc, rem, fin, off, v) => StdHdr(pc2, rem2, fin2, off, v)
  BY <1>1 DEF Quiet, StdHdr
<1>3. \A v : SysFds(pc, rem, fin, off, v) => SysFds(pc2, rem2, fin2, off, v)
  BY <1>2 DEF Quiet, SysFds
<1>4. SysHdr(pc, rem, fin, off, w) => SysHdr(pc2, rem2, fin2, off, w)
  BY <1>3 DEF Quiet, SysHdr
<1> QED
  BY <1>1, <1>2, <1>3, <1>4

\* A server that has not finished, was not killed and is not under way with an
\* answer has put nothing on the wire.
LEMMA Unbegun ==
    ASSUME NEW pc, NEW rem, NEW off, NEW w, pc \notin {"sysfds", "stdhdr", "stdfds", "killed"}
    PROVE  /\ \A S : ~StdFds(pc, rem, FALSE, w, S)
           /\ ~StdHdr(pc, rem, FALSE, off, w)
           /\ ~SysFds(pc, rem, FALSE, off, w)
           /\ SysHdr(pc, rem, FALSE, off, w) => w = <<>>
<1>1. \A v, S : ~StdFds(pc, rem, FALSE, v, S)
  BY DEF StdFds
<1>2. \A v : ~StdHdr(pc, rem, FALSE, off, v)
  BY <1>1 DEF StdHdr
<1>3. \A v : ~SysFds(pc, rem, FALSE, off, v)
  BY <1>2 DEF SysFds
<1>4. SysHdr(pc, rem, FALSE, off, w) => w = <<>>
  BY <1>3 DEF SysHdr
<1> QED
  BY <1>1, <1>2, <1>3, <1>4

-----------------------------------------------------------------------------
(* The invariant.                                                          *)

Answering == {"syshdr", "sysfds", "stdhdr", "stdfds"}
AfterPc == {"refuse", "verify", "handler", "fallback", "cleanup", "done"}
Receiving == {"send", "syshdr", "sysfds", "stdhdr", "stdfds"}

\* The handler of c sends no more of an answer, now and ever.
Finished(c) == hpc[c] = "killed" \/ (hpc[c] \in AfterPc /\ SrvSock(c) \notin htab[c])

\* A dial gets one first child and one handler at most; and only a service that
\* runs answers twice.
AgainPc == {"handler", "fallback", "cleanup", "done", "killed"}
Lifecycle ==
    /\ lpc = "fork" => cur \in Conns /\ mpc[cur] = "none" /\ cur \notin pending /\ cpc[cur] # "idle"
    /\ \A c \in Conns :
          /\ cpc[c] = "idle" => c \notin pending /\ mpc[c] = "none"
          /\ c \in pending => mpc[c] = "none"
          /\ mpc[c] \in {"none", "forked", "closed"} => hpc[c] = "none"
          /\ hpc[c] \in {"none", "done"} => htab[c] = {}
          /\ route[c] = "again" => hpc[c] \in AgainPc

\* The client has the descriptors S, each at its own position.
Filled(c, S) == \A s \in Slots : slot[c][s] = IF s \in S THEN s ELSE NoFd
ExitUnread(c) == IF evbuf[c] = NoStatus THEN {Exit} ELSE {}

\* Client and server agree on how far the answer is.
Sending(c) ==
    /\ csock[c] <=> cpc[c] \in Receiving
    /\ cpc[c] \in {"idle", "failed", "left", "dialed"} => wire[c] = <<>>
    /\ cpc[c] \in {"send", "syshdr"} => SysHdr(hpc[c], left[c], Finished(c), offer[c], wire[c])
    /\ cpc[c] = "sysfds" => SysFds(hpc[c], left[c], Finished(c), offer[c], wire[c])
    /\ cpc[c] = "stdhdr" => StdHdr(hpc[c], left[c], Finished(c), offer[c], wire[c])
    /\ cpc[c] = "stdfds" => StdFds(hpc[c], left[c], Finished(c), wire[c], want[c])
    /\ cpc[c] = "dialed" => Finished(c)

\* What the client has by then.
Having(c) ==
    /\ cpc[c] \in {"idle", "send", "syshdr", "sysfds", "failed", "left"} => Filled(c, {})
    /\ cpc[c] = "sysfds" => want[c] = {Exit}
    /\ cpc[c] = "stdhdr" => Filled(c, {Exit})
    /\ cpc[c] = "stdfds" => /\ want[c] # {} /\ want[c] \subseteq offer[c]
                            /\ Filled(c, {Exit} \cup (offer[c] \ want[c]))
    /\ cpc[c] = "dialed" => Filled(c, ExitUnread(c) \cup offer[c])
    /\ evbuf[c] # NoStatus => cpc[c] \in {"dialed", "left"}

\* The status is in the pipe or read, and the handler can give no other.
Once(c) ==
    /\ said[c] = NoStatus => pipe[c] = <<>> /\ evbuf[c] = NoStatus
    /\ said[c] # NoStatus =>
          /\ \/ pipe[c] = <<said[c]>> /\ evbuf[c] = NoStatus
             \/ pipe[c] = <<>> /\ evbuf[c] = said[c]
          /\ Finished(c) /\ ExitW(c) \notin htab[c]

\* The exit pipe is there with the answer, and the socket goes with it.
Tables(c) ==
    /\ ExitW(c) \in htab[c] /\ SrvSock(c) \in htab[c] => hpc[c] \in Answering
    /\ hpc[c] \in Answering => ExitW(c) \in htab[c]

\* A client that can read a status will find one, unless the handler is killed, or
\* answered twice.
Owed(c) ==
    ClientHas(c, Exit) \/ InFlight(c, Exit) =>
        hpc[c] = "killed" \/ route[c] = "again" \/ ExitW(c) \in htab[c] \/ pipe[c] # <<>>

\* A hang-up is final.
Hung(c) ==
    res[c] = "hup" =>
        /\ said[c] = NoStatus /\ Finished(c) /\ ExitW(c) \notin htab[c]
        /\ cpc[c] \in {"dialed", "left"}

ConnInv(c) == Sending(c) /\ Having(c) /\ Once(c) /\ Tables(c) /\ Owed(c) /\ Hung(c)

AnswerInv == TypeOK /\ OwnDescriptors /\ Lifecycle /\ \A c \in Conns : ConnInv(c)

LEMMA AnswerInit == Init => AnswerInv
<1> SUFFICES ASSUME Init PROVE AnswerInv
  OBVIOUS
<1>1. TypeOK /\ OwnDescriptors
  BY TypeInit DEF Init, OwnDescriptors
<1>2. Lifecycle
  BY DEF Init, Lifecycle
<1>3. ASSUME NEW c \in Conns PROVE ConnInv(c)
  <2> USE DEF Init
  <2>1. Sending(c)
    BY DEF Sending, Receiving
  <2>2. Having(c)
    BY DEF Having, Filled
  <2>3. Once(c) /\ Hung(c)
    BY DEF Once, Hung
  <2>4. Tables(c)
    BY DEF Tables, Answering
  <2>5. Owed(c)
    BY ConnAssumption DEF Owed, ClientHas, InFlight
  <2> QED
    BY <2>1, <2>2, <2>3, <2>4, <2>5 DEF ConnInv
<1> QED
  BY <1>1, <1>2, <1>3 DEF AnswerInv

-----------------------------------------------------------------------------
(* Lifecycle.                                                              *)

LEMMA LifeLoop == AnswerInv /\ Loop => Lifecycle'
<1> SUFFICES ASSUME AnswerInv, Loop PROVE Lifecycle'
  OBVIOUS
<1> USE DEF AnswerInv, TypeOK, Lifecycle, loopvars, midvars, hndvars, clivars
<1>1. ASSUME NEW c \in Conns, Accept(c) PROVE Lifecycle'
  BY <1>1 DEF Accept
<1>2. CASE AcceptFail
  BY <1>2 DEF AcceptFail
<1>3. CASE LoopEnd
  BY <1>3 DEF LoopEnd
<1>4. CASE Fork
  BY <1>4 DEF Fork
<1>5. CASE LoopClose \/ LoopWait \/ LoopKill
  BY <1>5 DEF LoopClose, LoopWait, LoopKill
<1> QED
  BY <1>1, <1>2, <1>3, <1>4, <1>5 DEF Loop

LEMMA LifeMid == \A c \in Conns : AnswerInv /\ Mid(c) => Lifecycle'
<1> SUFFICES ASSUME NEW c \in Conns, AnswerInv, Mid(c) PROVE Lifecycle'
  OBVIOUS
<1> USE DEF AnswerInv, TypeOK, Lifecycle, loopvars, hndvars, clivars
<1>1. CASE MidCloseLis(c)
  BY <1>1 DEF MidCloseLis
<1>2. CASE MidFork(c)
  <2>1. UNCHANGED <<lpc, cur, pending, cpc, route>>
    BY <1>2 DEF MidFork
  <2>2. \A k \in Conns : mpc'[k] = IF k = c THEN "exiting" ELSE mpc[k]
    BY <1>2 DEF MidFork
  <2>3. \A k \in Conns : \/ hpc'[k] = hpc[k] /\ htab'[k] = htab[k]
                         \/ k = c /\ hpc'[k] = "await"
    <3>1. CASE UNCHANGED <<hpc, htab>>
      BY <3>1
    <3>2. CASE hpc' = [hpc EXCEPT ![c] = "await"] /\ htab' = [htab EXCEPT ![c] = mtab[c]]
      BY <3>2
    <3> QED
      BY <1>2, <3>1, <3>2 DEF MidFork
  <2>4. mpc[c] = "closed"
    BY <1>2 DEF MidFork
  <2> QED
    BY <2>1, <2>2, <2>3, <2>4 DEF AgainPc
<1>3. CASE MidExit(c)
  BY <1>3 DEF MidExit
<1> QED
  BY <1>1, <1>2, <1>3 DEF Mid

\* A handler does not come to be, and ends once.
LEMMA HandlerPc ==
    ASSUME TypeOK, NEW c \in Conns, Handler(c), route[c] = "again" => hpc[c] \in AgainPc
    PROVE  /\ hpc[c] # "none" /\ hpc'[c] # "none" /\ (hpc'[c] = "done" => htab'[c] = {})
           /\ route'[c] = "again" => hpc'[c] \in AgainPc
           /\ \A k \in Conns : k # c => route'[k] = route[k]
           /\ UNCHANGED <<lpc, cur, pending, ltab, mpc, mtab, cpc, csock, req, want, slot, evbuf, res>>
           /\ \A k \in Conns : k # c => hpc'[k] = hpc[k]
<1> USE DEF TypeOK, loopvars, midvars, clivars, Goto, AgainPc
<1>1. CASE SendHdr(c) \/ SendFd(c)
  BY <1>1 DEF SendHdr, SendFd, Transmit, NextPc, AfterAnswer
<1>2. CASE AwaitReq(c) \/ AwaitShort(c) \/ MakePipes(c) \/ MakePipesFail(c) \/ SendFail(c)
  BY <1>2 DEF AwaitReq, AwaitShort, Dispatch, MakePipes, MakePipesFail, SendFail, AfterNoAnswer
<1>3. CASE Refuse(c) \/ Verify(c) \/ HandlerAnswerAgain(c) \/ HandlerReturn(c) \/ Fallback(c) \/ Cleanup(c) \/ HandlerKill(c)
  BY <1>3 DEF Refuse, Verify, HandlerAnswerAgain, HandlerReturn, Fallback, Cleanup, HandlerKill
<1>4. ASSUME NEW idx, HandlerAnswer(c, idx) \/ HandlerExit(c, idx)
      PROVE  /\ hpc[c] = "handler" /\ hpc'[c] \notin {"none", "done"}
             /\ route'[c] = "again" => hpc'[c] \in AgainPc
             /\ \A k \in Conns : k # c => route'[k] = route[k]
             /\ UNCHANGED <<lpc, cur, pending, ltab, mpc, mtab, cpc, csock, req, want, slot, evbuf, res>>
             /\ \A k \in Conns : k # c => hpc'[k] = hpc[k]
  BY <1>4 DEF HandlerAnswer, HandlerExit
<1> QED
  BY <1>1, <1>2, <1>3, <1>4 DEF Handler

LEMMA LifeHandler == \A c \in Conns : AnswerInv /\ Handler(c) => Lifecycle'
<1> SUFFICES ASSUME NEW c \in Conns, AnswerInv, Handler(c) PROVE Lifecycle'
  OBVIOUS
<1>1. \A k \in Conns : k # c => htab'[k] = htab[k]
  BY HandlerTab DEF AnswerInv
<1> QED
  BY <1>1, HandlerPc DEF AnswerInv, Lifecycle

\* A client that dialed does not dial again, and does not touch the server.
LEMMA ClientPc ==
    ASSUME TypeOK, NEW c \in Conns, Client(c)
    PROVE  /\ UNCHANGED <<lpc, cur, ltab, mpc, mtab, hpc, htab, route, offer, left, said>>
           /\ \A k \in Conns : cpc'[k] = "idle" => cpc[k] = "idle"
           /\ \A k \in Conns : k \in pending' => k \in pending \/ (cpc[k] = "idle" /\ cpc'[k] # "idle")
           /\ \A k \in pending' : k \in Conns /\ (k \notin pending => k = c)
<1> USE DEF TypeOK, loopvars, midvars, hndvars, kernvars, clivars
<1>1. CASE Connect(c)
  BY <1>1 DEF Connect
<1>2. CASE SendPart(c) \/ SendReq(c) \/ WaitOk(c) \/ WaitHup(c) \/ WaitTimeout(c)
  BY <1>2 DEF SendPart, SendReq, WaitOk, WaitHup, WaitTimeout
<1>3. CASE RecvHdr(c) \/ RecvFd(c)
  BY <1>3 DEF RecvHdr, RecvFd, Advance, NextPc
<1>4. CASE ConnectFail(c) \/ SendReqFail(c) \/ RecvEof(c) \/ RecvTimeout(c) \/ Leave(c)
  BY <1>4 DEF ConnectFail, SendReqFail, RecvEof, RecvTimeout, Leave, Drop
<1> QED
  BY <1>1, <1>2, <1>3, <1>4 DEF Client

LEMMA LifeClient == \A c \in Conns : AnswerInv /\ Client(c) => Lifecycle'
<1> SUFFICES ASSUME NEW c \in Conns, AnswerInv, Client(c) PROVE Lifecycle'
  OBVIOUS
<1> QED
  BY ClientPc DEF AnswerInv, Lifecycle

-----------------------------------------------------------------------------
(* Steps of a connection.                                                  *)

SameClient(c) ==
    /\ cpc'[c] = cpc[c] /\ csock'[c] = csock[c] /\ req'[c] = req[c] /\ want'[c] = want[c]
    /\ slot'[c] = slot[c] /\ evbuf'[c] = evbuf[c] /\ res'[c] = res[c]
SameServer(c) ==
    /\ hpc'[c] = hpc[c] /\ htab'[c] = htab[c] /\ route'[c] = route[c]
    /\ offer'[c] = offer[c] /\ left'[c] = left[c] /\ said'[c] = said[c]
SameWire(c) == wire'[c] = wire[c]
SamePipe(c) == pipe'[c] = pipe[c] /\ said'[c] = said[c]

\* A step of another connection.
LEMMA Frame ==
    ASSUME NEW c \in Conns, ConnInv(c), SameClient(c), SameServer(c), SameWire(c), SamePipe(c)
    PROVE  ConnInv(c)'
<1> USE DEF SameClient, SameServer, SameWire, SamePipe
<1>1. Finished(c)' = Finished(c) /\ ExitW(c)' = ExitW(c) /\ SrvSock(c)' = SrvSock(c)
  BY DEF Finished, ExitW, SrvSock
<1>2. Sending(c)'
  BY <1>1 DEF ConnInv, Sending
<1>3. Having(c)'
  BY DEF ConnInv, Having, Filled, ExitUnread
<1>4. Once(c)' /\ Hung(c)' /\ Tables(c)'
  BY <1>1 DEF ConnInv, Once, Hung, Tables
<1>5. Owed(c)'
  BY <1>1 DEF ConnInv, Owed, ClientHas, InFlight
<1> QED
  BY <1>2, <1>3, <1>4, <1>5 DEF ConnInv

\* The handler goes on, without a message and with the same offer.
LEMMA QuietSending ==
    ASSUME NEW c \in Conns, ConnInv(c), SameClient(c), SameWire(c), offer'[c] = offer[c],
           Quiet(hpc[c], Finished(c), hpc'[c], Finished(c)')
    PROVE  Sending(c)' /\ Having(c)'
<1> USE DEF SameClient, SameWire
<1>1. Having(c)'
  BY DEF ConnInv, Having, Filled, ExitUnread
<1>2. Finished(c) \in BOOLEAN /\ Finished(c)' \in BOOLEAN
  BY DEF Finished
<1>3. cpc[c] = "dialed" => Finished(c)'
  BY DEF ConnInv, Sending, Quiet, Finished
<1>4. /\ cpc[c] \in {"send", "syshdr"} => SysHdr(hpc'[c], left'[c], Finished(c)', offer'[c], wire'[c])
      /\ cpc[c] = "sysfds" => SysFds(hpc'[c], left'[c], Finished(c)', offer'[c], wire'[c])
      /\ cpc[c] = "stdhdr" => StdHdr(hpc'[c], left'[c], Finished(c)', offer'[c], wire'[c])
      /\ cpc[c] = "stdfds" => StdFds(hpc'[c], left'[c], Finished(c)', wire'[c], want'[c])
  <2> DEFINE f == Finished(c)
             g == Finished(c)'
  <2>1. f \in BOOLEAN /\ g \in BOOLEAN /\ Quiet(hpc[c], f, hpc'[c], g)
    BY <1>2
  <2> HIDE DEF f, g
  <2>2. /\ \A S : StdFds(hpc[c], left[c], f, wire[c], S) => StdFds(hpc'[c], left'[c], g, wire[c], S)
        /\ StdHdr(hpc[c], left[c], f, offer[c], wire[c]) => StdHdr(hpc'[c], left'[c], g, offer[c], wire[c])
        /\ SysFds(hpc[c], left[c], f, offer[c], wire[c]) => SysFds(hpc'[c], left'[c], g, offer[c], wire[c])
        /\ SysHdr(hpc[c], left[c], f, offer[c], wire[c]) => SysHdr(hpc'[c], left'[c], g, offer[c], wire[c])
    BY <2>1, QuietStep
  <2> QED
    BY <2>2 DEF ConnInv, Sending, f, g
<1>5. Sending(c)'
  BY <1>3, <1>4 DEF ConnInv, Sending
<1> QED
  BY <1>1, <1>5

\* The handler has sent nothing: it may still change what it offers.
LEMMA UnbegunSending ==
    ASSUME NEW c \in Conns, Lifecycle, ConnInv(c), SameClient(c), SameWire(c),
           ~Finished(c), hpc[c] \notin {"none", "sysfds", "stdhdr", "stdfds"},
           hpc'[c] \notin {"sysfds", "stdhdr", "stdfds"}
    PROVE  Sending(c)' /\ Having(c)'
<1> USE DEF SameClient, SameWire
<1>1. hpc[c] # "killed" /\ Finished(c) = FALSE
  BY DEF Finished
<1>2. cpc[c] \notin {"sysfds", "stdhdr", "stdfds", "dialed"} /\ (cpc[c] \in {"send", "syshdr"} => wire[c] = <<>>)
  BY <1>1, Unbegun DEF ConnInv, Sending
<1>3. cpc[c] \in {"send", "syshdr"} => SysHdr(hpc'[c], left'[c], Finished(c)', offer'[c], wire'[c])
  BY <1>2 DEF SysHdr
<1>4. Sending(c)'
  BY <1>2, <1>3 DEF ConnInv, Sending
<1>5. Having(c)'
  BY <1>2 DEF ConnInv, Having, Filled
<1> QED
  BY <1>4, <1>5

\* The handler closes descriptors, but not that of the exit pipe.
LEMMA QuietStatus ==
    ASSUME NEW c \in Conns, ConnInv(c), SameClient(c), SameWire(c), SamePipe(c),
           htab'[c] \subseteq htab[c], hpc'[c] \notin Answering,
           hpc[c] # "killed", Finished(c) => Finished(c)', route[c] = "again" => route'[c] = "again",
           \/ hpc'[c] = "killed" /\ htab'[c] = {}
           \/ hpc[c] \notin Answering /\ (ExitW(c) \in htab[c] => ExitW(c) \in htab'[c])
           \/ cpc[c] \in {"failed", "left"} /\ SrvSock(c) \notin htab'[c]
    PROVE  Once(c)' /\ Tables(c)' /\ Owed(c)' /\ Hung(c)'
<1> USE DEF SameClient, SameWire, SamePipe
<1>1. ExitW(c)' = ExitW(c) /\ SrvSock(c)' = SrvSock(c)
  BY DEF ExitW, SrvSock
<1>2. Once(c)' /\ Hung(c)'
  BY <1>1 DEF ConnInv, Once, Hung
<1>3. Owed(c)'
  <2>1. CASE hpc'[c] = "killed"
    BY <2>1 DEF Owed
  <2>2. CASE ExitW(c) \in htab[c] => ExitW(c) \in htab'[c]
    BY <1>1, <2>2 DEF ConnInv, Owed, ClientHas, InFlight, Finished
  <2>3. CASE cpc[c] \in {"failed", "left"}
    BY <2>3, ConnAssumption DEF ConnInv, Sending, Having, Filled, Owed, ClientHas, InFlight
  <2> QED
    BY <2>1, <2>2, <2>3
<1>4. Tables(c)'
  BY <1>1 DEF ConnInv, Tables
<1> QED
  BY <1>2, <1>3, <1>4

\* The handler gives a status, if it can be heard.
LEMMA StatusStep ==
    ASSUME NEW c \in Conns, ConnInv(c), TypeOK, SameClient(c), SameWire(c),
           NEW st \in Statuses, SendExit(c, st),
           hpc[c] \in AfterPc, hpc'[c] \in AfterPc, route[c] = "again" => route'[c] = "again",
           htab'[c] \subseteq htab[c], CanSay(c) => ExitW(c) \notin htab'[c]
    PROVE  Once(c)' /\ Tables(c)' /\ Owed(c)' /\ Hung(c)'
<1> USE DEF SameClient, SameWire
<1>1. ExitW(c)' = ExitW(c) /\ SrvSock(c)' = SrvSock(c)
  BY DEF ExitW, SrvSock
<1>2. pipe'[c] = ExitPipe(c, st) /\ said'[c] = ExitSaid(c, st)
  BY DEF SendExit, TypeOK
<1>3. hpc[c] \notin Answering /\ hpc'[c] \notin Answering /\ hpc[c] # "killed"
  BY DEF AfterPc, Answering
<1>4. Finished(c) => Finished(c)'
  BY <1>1, <1>3 DEF Finished
<1>5. CASE CanSay(c)
  <2>1. said[c] = NoStatus /\ pipe[c] = <<>> /\ evbuf[c] = NoStatus
    BY <1>5 DEF ConnInv, Once, CanSay
  <2>2. Finished(c)'
    BY <1>1, <1>3, <1>5 DEF ConnInv, Tables, CanSay, Finished
  <2>3. pipe'[c] = <<st>> /\ said'[c] = st /\ st # NoStatus
    BY <1>2, <1>5, <2>1, ConnAssumption DEF ExitPipe, ExitSaid
  <2>4. Once(c)'
    BY <1>1, <1>5, <2>1, <2>2, <2>3 DEF Once
  <2>5. Hung(c)'
    BY <1>5 DEF ConnInv, Hung, CanSay
  <2>6. Owed(c)' /\ Tables(c)'
    BY <1>1, <1>3, <1>5, <2>3 DEF Owed, Tables
  <2> QED
    BY <2>4, <2>5, <2>6
<1>6. CASE ~CanSay(c)
  <2>1. pipe'[c] = pipe[c] /\ said'[c] = said[c]
    BY <1>2, <1>6 DEF ExitPipe, ExitSaid
  <2>2. Once(c)' /\ Hung(c)'
    BY <1>1, <1>4, <2>1 DEF ConnInv, Once, Hung
  <2>3. Tables(c)'
    BY <1>1, <1>3 DEF ConnInv, Tables
  <2>4. Owed(c)'
    <3>1. ClientHas(c, Exit)' = ClientHas(c, Exit) /\ InFlight(c, Exit)' = InFlight(c, Exit)
      BY DEF ClientHas, InFlight
    <3>2. ClientHas(c, Exit) \/ InFlight(c, Exit) => ExitW(c) \notin htab[c] \/ route[c] = "again"
      BY <1>6 DEF CanSay, ExitReader
    <3> QED
      BY <1>3, <2>1, <3>1, <3>2 DEF ConnInv, Owed
  <2> QED
    BY <2>2, <2>3, <2>4
<1> QED
  BY <1>5, <1>6

\* The handler sends a message of the answer.
LEMMA TransmitStep ==
    ASSUME TypeOK, NEW c \in Conns, ConnInv(c), SameClient(c), csock[c],
           NEW it \in Items, wire'[c] = Append(wire[c], it), SamePipe(c), offer'[c] = offer[c],
           Sends(hpc[c], left[c], offer[c], it, hpc'[c], left'[c], Finished(c)'),
           hpc'[c] \in Answering \/ (hpc'[c] \in AfterPc /\ SrvSock(c) \notin htab'[c]),
           ExitW(c) \in htab'[c]
    PROVE  ConnInv(c)'
<1> USE DEF SameClient, SamePipe
<1>1. ExitW(c)' = ExitW(c) /\ SrvSock(c)' = SrvSock(c)
  BY DEF ExitW, SrvSock
<1>2. hpc[c] \in Answering
  BY DEF Sends, Answering
<1>3. hpc[c] # "killed" /\ Finished(c) = FALSE
  BY <1>2 DEF Answering, AfterPc, Finished
<1>4. cpc[c] \in {"send", "syshdr", "sysfds", "stdhdr", "stdfds"}
  BY <1>2 DEF ConnInv, Sending, Receiving, Answering
<1>5. left[c] \in SUBSET Slots /\ offer[c] \in SUBSET Slots /\ wire[c] \in Seq(Items)
  BY ConnAssumption DEF TypeOK
<1>6. /\ cpc[c] \in {"send", "syshdr"} => SysHdr(hpc'[c], left'[c], Finished(c)', offer'[c], wire'[c])
      /\ cpc[c] = "sysfds" => SysFds(hpc'[c], left'[c], Finished(c)', offer'[c], wire'[c])
      /\ cpc[c] = "stdhdr" => StdHdr(hpc'[c], left'[c], Finished(c)', offer'[c], wire'[c])
      /\ cpc[c] = "stdfds" => StdFds(hpc'[c], left'[c], Finished(c)', wire'[c], want'[c])
  <2> DEFINE g == Finished(c)'
  <2>1. g \in BOOLEAN /\ Sends(hpc[c], left[c], offer[c], it, hpc'[c], left'[c], g)
    BY DEF Finished
  <2>2. /\ cpc[c] \in {"send", "syshdr"} => SysHdr(hpc[c], left[c], FALSE, offer[c], wire[c])
        /\ cpc[c] = "sysfds" => SysFds(hpc[c], left[c], FALSE, offer[c], wire[c])
        /\ cpc[c] = "stdhdr" => StdHdr(hpc[c], left[c], FALSE, offer[c], wire[c])
        /\ cpc[c] = "stdfds" => StdFds(hpc[c], left[c], FALSE, wire[c], want[c])
    BY <1>3 DEF ConnInv, Sending
  <2> DEFINE pc == hpc[c]
             rem == left[c]
             pc2 == hpc'[c]
             rem2 == left'[c]
             off == offer[c]
             w == wire[c]
             S == want[c]
  <2>3. /\ rem \in SUBSET Slots /\ off \in SUBSET Slots /\ w \in Seq(Items) /\ S \in SUBSET Slots
        /\ pc # "killed" /\ Sends(pc, rem, off, it, pc2, rem2, g)
    BY <1>3, <1>5, <2>1 DEF TypeOK
  <2>4. wire'[c] = Append(w, it) /\ offer'[c] = off /\ want'[c] = S
    OBVIOUS
  <2> HIDE DEF g, pc, rem, pc2, rem2, off, w, S
  <2>5. /\ StdFds(pc, rem, FALSE, w, S) => StdFds(pc2, rem2, g, Append(w, it), S)
        /\ StdHdr(pc, rem, FALSE, off, w) => StdHdr(pc2, rem2, g, off, Append(w, it))
        /\ SysFds(pc, rem, FALSE, off, w) => SysFds(pc2, rem2, g, off, Append(w, it))
        /\ SysHdr(pc, rem, FALSE, off, w) => SysHdr(pc2, rem2, g, off, Append(w, it))
    BY <2>3, SendStep
  <2> QED
    BY <2>2, <2>4, <2>5 DEF g, pc, rem, pc2, rem2, off, w, S
<1>7. Sending(c)'
  BY <1>4, <1>6 DEF ConnInv, Sending
<1>8. Having(c)'
  BY DEF ConnInv, Having, Filled, ExitUnread
<1>9. Once(c)' /\ Hung(c)'
  BY <1>3 DEF ConnInv, Once, Hung
<1>10. Tables(c)' /\ Owed(c)'
  <2>1. Tables(c)'
    BY <1>1 DEF Tables, AfterPc, Answering
  <2>2. Owed(c)'
    BY <1>1 DEF Owed
  <2> QED
    BY <2>1, <2>2
<1> QED
  BY <1>7, <1>8, <1>9, <1>10 DEF ConnInv

\* What each step of a handler does to its own connection.
LEMMA HandlerConn ==
    ASSUME AnswerInv, NEW c \in Conns, Handler(c)
    PROVE  ConnInv(c)'
<1> USE DEF AnswerInv, loopvars, midvars, hndvars, kernvars, clivars, Goto
<1>a. SameClient(c)
  BY HandlerPc DEF SameClient, Lifecycle
<1>g. hpc[c] \notin AgainPc => route[c] # "again"
  BY DEF Lifecycle
<1>b. ConnInv(c) /\ Failure \in Statuses /\ Success \in Statuses /\ ExitTab(c) \subseteq htab[c]
  BY ConnAssumption DEF ExitTab
<1>c. hpc \in [Conns -> HndPc] /\ htab \in [Conns -> SUBSET (Desc \cup {Lis})]
  BY DEF TypeOK
<1>d. ExitW(c)' = ExitW(c) /\ SrvSock(c)' = SrvSock(c)
  BY DEF ExitW, SrvSock
<1>e. CanSay(c) => ExitW(c) \notin ExitTab(c)
  BY DEF ExitTab
<1>s. ASSUME NEW st \in Statuses, SendExit(c, st), UNCHANGED <<wire, offer>>,
             hpc[c] \in AfterPc, hpc'[c] \in AfterPc, route[c] = "again" => route'[c] = "again",
             htab'[c] \in {ExitTab(c), {}}
      PROVE  ConnInv(c)'
  <2>1. Quiet(hpc[c], Finished(c), hpc'[c], Finished(c)')
    BY <1>b, <1>d, <1>s DEF Quiet, Finished, AfterPc
  <2>2. Sending(c)' /\ Having(c)'
    BY <1>a, <1>b, <1>s, <2>1, QuietSending DEF SameWire
  <2>3. Once(c)' /\ Tables(c)' /\ Owed(c)' /\ Hung(c)'
    BY <1>a, <1>b, <1>e, <1>s, StatusStep DEF SameWire
  <2> QED
    BY <2>2, <2>3 DEF ConnInv
\* No message, no status, the same descriptors.
<1>q. ASSUME UNCHANGED <<wire, pipe, said>>, htab'[c] = htab[c],
             hpc[c] \notin Answering \cup {"none", "killed"}, hpc'[c] \notin Answering \cup {"killed"},
             route[c] = "again" => route'[c] = "again",
             \/ hpc[c] \in AfterPc /\ hpc'[c] \in AfterPc /\ offer'[c] = offer[c]
             \/ ~Finished(c)
      PROVE  ConnInv(c)'
  <2>1. Finished(c) => Finished(c)'
    BY <1>d, <1>q DEF Finished
  <2>2. Sending(c)' /\ Having(c)'
    <3>1. CASE ~Finished(c)
      BY <1>a, <1>b, <1>q, <3>1, UnbegunSending DEF SameWire, Answering
    <3>2. CASE Finished(c)
      <4>1. Quiet(hpc[c], Finished(c), hpc'[c], Finished(c)')
        BY <1>q, <2>1, <3>2 DEF Quiet, AfterPc
      <4> QED
        BY <1>a, <1>b, <1>q, <3>2, <4>1, QuietSending DEF SameWire
    <3> QED
      BY <3>1, <3>2
  <2>3. Once(c)' /\ Tables(c)' /\ Owed(c)' /\ Hung(c)'
    BY <1>a, <1>b, <1>q, <2>1, QuietStatus DEF SameWire, SamePipe
  <2> QED
    BY <2>2, <2>3 DEF ConnInv
<1>1. CASE AwaitReq(c)
  BY <1>1, <1>c, <1>g, <1>q DEF AwaitReq, Dispatch, Answering, Finished, AfterPc, AgainPc
<1>2. CASE AwaitShort(c)
  BY <1>2, <1>c, <1>g, <1>q DEF AwaitShort, Dispatch, Answering, Finished, AfterPc, AgainPc
<1>3. CASE MakePipes(c)
  <2>1. hpc[c] = "pipes" /\ hpc'[c] = "syshdr" /\ UNCHANGED <<wire, pipe, said, offer>>
    BY <1>3, <1>c DEF MakePipes
  <2>2. ~Finished(c) /\ said[c] = NoStatus /\ res[c] # "hup"
    BY <1>b, <2>1 DEF Finished, AfterPc, ConnInv, Once, Hung
  <2>3. Sending(c)' /\ Having(c)'
    BY <1>a, <1>b, <2>1, <2>2, UnbegunSending DEF SameWire
  <2>4. ExitW(c) \in htab'[c]
    BY <1>3, <1>c DEF MakePipes, ExitW
  <2>5. Once(c)' /\ Tables(c)' /\ Owed(c)' /\ Hung(c)'
    BY <1>a, <1>b, <1>d, <2>1, <2>2, <2>4
       DEF SameClient, ConnInv, Once, Tables, Owed, Hung, Answering
  <2> QED
    BY <2>3, <2>5 DEF ConnInv
<1>4. CASE MakePipesFail(c)
  BY <1>4, <1>c, <1>q DEF MakePipesFail, AfterNoAnswer, Answering, Finished, AfterPc
<1>5. CASE SendHdr(c)
  <2>1. ASSUME NEW idx \in SUBSET Slots, NEW rem \in SUBSET Slots, Transmit(c, Hdr(idx), rem),
               \/ hpc[c] = "syshdr" /\ idx = {Exit} /\ rem = {Exit}
               \/ hpc[c] = "stdhdr" /\ idx = offer[c] /\ rem = offer[c]
        PROVE  ConnInv(c)'
    <3>1. /\ csock[c] /\ wire'[c] = Append(wire[c], Hdr(idx)) /\ left'[c] = rem
          /\ hpc'[c] = NextPc(hpc[c], rem # {}, AfterAnswer(c))
          /\ UNCHANGED <<pipe, said, offer>>
      BY <2>1 DEF Transmit, TypeOK
    <3>2. htab'[c] = htab[c] \ IF hpc[c] = "stdhdr" /\ rem = {} THEN {SrvSock(c)} ELSE {}
      BY <2>1, <1>c DEF Transmit, Hdr
    <3>3. ExitW(c) \in htab'[c]
      BY <1>b, <2>1, <3>2, ConnAssumption DEF ConnInv, Tables, Answering, ExitW, SrvSock, D
    <3>4. AfterAnswer(c) \in AfterPc
      BY DEF AfterAnswer, AfterPc
    <3>5. hpc'[c] \in Answering \/ (hpc'[c] \in AfterPc /\ SrvSock(c) \notin htab'[c])
      BY <2>1, <3>1, <3>2, <3>4 DEF NextPc, Answering
    <3>6. Sends(hpc[c], left[c], offer[c], Hdr(idx), hpc'[c], left'[c], Finished(c)')
      BY <1>d, <2>1, <3>1, <3>2, <3>4 DEF Sends, NextPc, Finished
    <3>7. SamePipe(c) /\ offer'[c] = offer[c] /\ Hdr(idx) \in Items
      BY <3>1, ItemsOf DEF SamePipe
    <3> QED
      BY <1>a, <1>b, <3>1, <3>3, <3>5, <3>6, <3>7, TransmitStep
  <2>2. {Exit} \in SUBSET Slots /\ offer[c] \in SUBSET Slots
    BY ConnAssumption DEF TypeOK
  <2> QED
    BY <1>5, <2>1, <2>2 DEF SendHdr
<1>6. CASE SendFd(c)
  <2>1. PICK i \in left[c] : IsFirst(i, left[c]) /\ Transmit(c, Fd(i), left[c] \ {i})
    BY <1>6 DEF SendFd
  <2> DEFINE rem == left[c] \ {i}
  <2>2. hpc[c] \in {"sysfds", "stdfds"} /\ left[c] \in SUBSET Slots
    BY <1>6 DEF SendFd, TypeOK
  <2>3. /\ csock[c] /\ wire'[c] = Append(wire[c], Fd(i)) /\ left'[c] = rem
        /\ hpc'[c] = NextPc(hpc[c], rem # {}, AfterAnswer(c))
        /\ UNCHANGED <<pipe, said, offer>>
    BY <2>1 DEF Transmit, TypeOK
  <2>4. htab'[c] = htab[c] \ ({D(c, "c", i)} \cup IF hpc[c] = "stdfds" /\ rem = {} THEN {SrvSock(c)} ELSE {})
    BY <1>c, <2>1, <2>2 DEF Transmit, Fd
  <2>5. ExitW(c) \in htab'[c]
    BY <1>b, <2>2, <2>4, ConnAssumption DEF ConnInv, Tables, Answering, ExitW, SrvSock, D
  <2>6. AfterAnswer(c) \in AfterPc
    BY DEF AfterAnswer, AfterPc
  <2>7. hpc[c] = "sysfds" => left[c] = {Exit}
    <3>1. hpc[c] = "sysfds" => Finished(c) = FALSE /\ cpc[c] \in {"send", "syshdr", "sysfds", "stdhdr", "stdfds"}
      BY <1>b, <2>3 DEF ConnInv, Sending, Receiving, Finished, AfterPc
    <3> QED
      BY <1>b, <3>1 DEF ConnInv, Sending, SysHdr, SysFds, StdHdr, StdFds
  <2>8. hpc'[c] \in Answering \/ (hpc'[c] \in AfterPc /\ SrvSock(c) \notin htab'[c])
    BY <2>2, <2>3, <2>4, <2>6 DEF NextPc, Answering
  <2>9. Sends(hpc[c], left[c], offer[c], Fd(i), hpc'[c], left'[c], Finished(c)')
    <3>1. CASE hpc[c] = "sysfds"
      BY <2>1, <2>3, <2>7, <3>1 DEF Sends, NextPc
    <3>2. CASE hpc[c] = "stdfds"
      BY <1>d, <2>1, <2>3, <2>4, <2>6, <3>2 DEF Sends, NextPc, Finished
    <3> QED
      BY <2>2, <3>1, <3>2
  <2>10. SamePipe(c) /\ offer'[c] = offer[c] /\ Fd(i) \in Items
    BY <2>2, <2>3, ItemsOf DEF SamePipe
  <2> QED
    BY <1>a, <1>b, <2>3, <2>5, <2>8, <2>9, <2>10, TransmitStep
<1>7. CASE SendFail(c)
  <2>1. cpc[c] \in {"failed", "left"} /\ ~Finished(c)
    <3>1. hpc[c] \in Answering /\ ~csock[c]
      BY <1>7 DEF SendFail, Answering
    <3>2. cpc[c] # "idle"
      BY <3>1 DEF Lifecycle, Answering
    <3> QED
      BY <1>b, <3>1, <3>2 DEF ConnInv, Sending, Receiving, Finished, AfterPc, Answering, TypeOK, CliPc
  <2>2. hpc'[c] \in AfterPc /\ hpc[c] \in Answering /\ UNCHANGED <<wire, pipe, said, offer, route>>
    BY <1>7, <1>c DEF SendFail, AfterNoAnswer, AfterPc, Answering
  <2>3. htab'[c] \subseteq htab[c] /\ SrvSock(c) \notin htab'[c]
    BY <1>7, <1>c DEF SendFail
  <2>4. Sending(c)' /\ Having(c)'
    BY <1>a, <1>b, <2>1, <2>2 DEF ConnInv, Sending, Having, Filled, SameClient
  <2>5. Once(c)' /\ Tables(c)' /\ Owed(c)' /\ Hung(c)'
    BY <1>a, <1>b, <2>1, <2>2, <2>3, QuietStatus DEF SameWire, SamePipe, AfterPc, Answering
  <2> QED
    BY <2>4, <2>5 DEF ConnInv
<1>8. CASE Refuse(c)
  BY <1>8, <1>b, <1>c, <1>s DEF Refuse, AfterPc
<1>9. CASE Verify(c)
  <2>1. CASE hpc' = [hpc EXCEPT ![c] = "handler"] /\ UNCHANGED <<htab, route, pipe, said>>
    BY <1>9, <2>1, <1>b, <1>c, <1>q DEF Verify, AfterPc, Answering
  <2>2. CASE /\ SendExit(c, Failure)
             /\ htab' = [htab EXCEPT ![c] = ExitTab(c)]
             /\ hpc' = [hpc EXCEPT ![c] = "cleanup"]
    BY <1>9, <2>2, <1>b, <1>c, <1>g, <1>s DEF Verify, AfterPc, AgainPc
  <2> QED
    BY <1>9, <2>1, <2>2 DEF Verify
<1>10. ASSUME NEW idx \in SUBSET Std, HandlerAnswer(c, idx) PROVE ConnInv(c)'
  BY <1>10, <1>b, <1>c, <1>q DEF HandlerAnswer, AfterPc, Answering, Finished
<1>16. CASE HandlerAnswerAgain(c)
  BY <1>16, <1>b, <1>c, <1>q DEF HandlerAnswerAgain, AfterPc, Answering
<1>11. ASSUME NEW st \in Statuses, HandlerExit(c, st) PROVE ConnInv(c)'
  BY <1>11, <1>b, <1>c, <1>s DEF HandlerExit, AfterPc
<1>12. CASE HandlerReturn(c)
  BY <1>12, <1>b, <1>c, <1>q DEF HandlerReturn, AfterPc, Answering
<1>13. CASE Fallback(c)
  <2>1. CASE UNCHANGED <<htab, pipe, said>>
    BY <1>13, <2>1, <1>b, <1>c, <1>q DEF Fallback, AfterPc, Answering
  <2>2. ASSUME NEW st \in {Success, Failure}, SendExit(c, st), htab' = [htab EXCEPT ![c] = ExitTab(c)]
        PROVE  ConnInv(c)'
    BY <1>13, <2>2, <1>b, <1>c, <1>s DEF Fallback, AfterPc
  <2> QED
    BY <1>13, <2>1, <2>2 DEF Fallback
<1>14. CASE Cleanup(c)
  BY <1>14, <1>b, <1>c, <1>s DEF Cleanup, AfterPc
<1>15. CASE HandlerKill(c)
  <2>1. /\ hpc'[c] = "killed" /\ htab'[c] = {} /\ hpc[c] \notin {"none", "done", "killed"}
        /\ UNCHANGED <<wire, pipe, said, offer, route>>
    BY <1>15, <1>c DEF HandlerKill
  <2>2. Sending(c)' /\ Having(c)'
    BY <1>a, <1>b, <2>1, QuietSending DEF SameWire, Quiet
  <2>3. Once(c)' /\ Tables(c)' /\ Owed(c)' /\ Hung(c)'
    BY <1>a, <1>b, <2>1, QuietStatus DEF SameWire, SamePipe, Answering, Finished
  <2> QED
    BY <2>2, <2>3 DEF ConnInv
<1> QED
  BY <1>1, <1>2, <1>3, <1>4, <1>5, <1>6, <1>7, <1>8, <1>9, <1>10, <1>11, <1>12,
     <1>13, <1>14, <1>15, <1>16 DEF Handler

\* ... and to the others: nothing.
LEMMA HandlerOther ==
    ASSUME AnswerInv, NEW c \in Conns, Handler(c), NEW k \in Conns, k # c
    PROVE  ConnInv(k)'
<1> USE DEF AnswerInv, TypeOK, loopvars, midvars, hndvars, kernvars, clivars, Goto
<1>1. hpc'[k] = hpc[k] /\ htab'[k] = htab[k] /\ route'[k] = route[k] /\ SameClient(k)
  BY HandlerPc, HandlerTab DEF SameClient, Lifecycle
<1> DEFINE Rest4 == offer'[k] = offer[k] /\ left'[k] = left[k] /\ wire'[k] = wire[k]
                      /\ pipe'[k] = pipe[k] /\ said'[k] = said[k]
<1>2. Rest4
  <2>1. CASE SendHdr(c) \/ SendFd(c)
    BY <2>1 DEF SendHdr, SendFd, Transmit
  <2>2. CASE AwaitReq(c) \/ AwaitShort(c) \/ MakePipes(c) \/ MakePipesFail(c) \/ SendFail(c)
    BY <2>2 DEF AwaitReq, AwaitShort, Dispatch, MakePipes, MakePipesFail, SendFail
  <2>3. ASSUME NEW st, SendExit(c, st) PROVE pipe'[k] = pipe[k] /\ said'[k] = said[k]
    BY <2>3 DEF SendExit
  <2>4. CASE Refuse(c) \/ Verify(c) \/ HandlerAnswerAgain(c) \/ HandlerReturn(c) \/ Fallback(c) \/ Cleanup(c) \/ HandlerKill(c)
    BY <2>3, <2>4 DEF Refuse, Verify, HandlerAnswerAgain, HandlerReturn, Fallback, Cleanup, HandlerKill
  <2>5. ASSUME NEW x, HandlerAnswer(c, x) \/ HandlerExit(c, x) PROVE Rest4
    BY <2>3, <2>5 DEF HandlerAnswer, HandlerExit
  <2> QED
    BY <2>1, <2>2, <2>4, <2>5 DEF Handler
<1> QED
  BY <1>1, <1>2, Frame DEF SameServer, SameWire, SamePipe

\* The loop touches no handler and no client.
LEMMA LoopConn ==
    ASSUME AnswerInv, Loop, NEW c \in Conns
    PROVE  ConnInv(c)'
<1>1. UNCHANGED <<hndvars, kernvars, clivars>>
  BY DEF Loop, Accept, AcceptFail, LoopEnd, Fork, LoopClose, LoopWait, LoopKill
<1> QED
  BY <1>1, Frame DEF AnswerInv, SameClient, SameServer, SameWire, SamePipe, hndvars, kernvars, clivars

\* A new handler finds nothing said and nothing sent.
LEMMA MidConn ==
    ASSUME AnswerInv, NEW c \in Conns, Mid(c), NEW k \in Conns
    PROVE  ConnInv(k)'
<1> USE DEF AnswerInv, hndvars, kernvars, clivars
<1>1. CASE MidCloseLis(c) \/ MidExit(c)
  <2>1. UNCHANGED <<hndvars, kernvars, clivars>>
    BY <1>1 DEF MidCloseLis, MidExit
  <2> QED
    BY <2>1, Frame DEF SameClient, SameServer, SameWire, SamePipe
<1>2. CASE MidFork(c)
  <2>1. SameClient(k) /\ SameWire(k) /\ SamePipe(k) /\ offer'[k] = offer[k] /\ left'[k] = left[k] /\ route'[k] = route[k]
    BY <1>2 DEF MidFork, SameClient, SameWire, SamePipe
  <2>2. \/ hpc'[k] = hpc[k] /\ htab'[k] = htab[k]
        \/ k = c /\ hpc'[k] = "await" /\ htab'[k] = mtab[c]
    <3>1. CASE UNCHANGED <<hpc, htab>>
      BY <3>1
    <3>2. CASE hpc' = [hpc EXCEPT ![c] = "await"] /\ htab' = [htab EXCEPT ![c] = mtab[c]]
      BY <3>2 DEF TypeOK
    <3> QED
      BY <1>2, <3>1, <3>2 DEF MidFork
  <2>3. CASE hpc'[k] = hpc[k] /\ htab'[k] = htab[k]
    BY <2>1, <2>3, Frame DEF SameServer, SamePipe
  <2>4. CASE k = c /\ hpc'[k] = "await" /\ htab'[k] = mtab[c]
    <3>1. hpc[k] = "none" /\ htab[k] = {} /\ htab'[k] \subseteq {SrvSock(k)} /\ route[k] # "again"
      BY <1>2, <2>4 DEF MidFork, Lifecycle, OwnDescriptors, AgainPc
    <3>2. ~Finished(k) /\ ConnInv(k)
      BY <3>1 DEF Finished, AfterPc
    <3>3. said[k] = NoStatus /\ res[k] # "hup" /\ pipe[k] = <<>>
      BY <3>2 DEF ConnInv, Once, Hung
    <3>4. cpc[k] \notin {"sysfds", "stdhdr", "stdfds", "dialed"} /\ (cpc[k] \in {"send", "syshdr"} => wire[k] = <<>>)
      <4>1. Finished(k) = FALSE
        BY <3>2 DEF Finished
      <4>2. hpc[k] \notin {"sysfds", "stdhdr", "stdfds", "killed"}
        BY <3>1
      <4> QED
        BY <3>2, <4>1, <4>2, Unbegun DEF ConnInv, Sending
    <3>5. ExitW(k)' = ExitW(k) /\ SrvSock(k)' = SrvSock(k) /\ ExitW(k) \notin htab'[k]
      BY <3>1, ConnAssumption DEF ExitW, SrvSock, D
    <3>6. Sending(k)'
      BY <2>1, <2>4, <3>2, <3>4 DEF ConnInv, Sending, SysHdr, SameClient, SameWire
    <3>7. Having(k)'
      BY <2>1, <3>2, <3>4 DEF ConnInv, Having, Filled, SameClient
    <3>8. Once(k)' /\ Hung(k)' /\ Tables(k)'
      BY <2>1, <2>4, <3>2, <3>3, <3>5
         DEF ConnInv, Once, Hung, Tables, Answering, SameClient, SamePipe
    <3>9. Owed(k)'
      BY <2>1, <3>1, <3>2, <3>3 DEF ConnInv, Owed, ClientHas, InFlight, SameClient, SameWire
    <3> QED
      BY <3>6, <3>7, <3>8, <3>9 DEF ConnInv
  <2> QED
    BY <2>2, <2>3, <2>4
<1>3. QED
  BY <1>1, <1>2 DEF Mid

-----------------------------------------------------------------------------
(* The steps of a client.                                                  *)

LEMMA ClientOther ==
    ASSUME AnswerInv, NEW c \in Conns, Client(c), NEW k \in Conns, k # c
    PROVE  ConnInv(k)'
<1> USE DEF AnswerInv, TypeOK, loopvars, midvars, hndvars, kernvars, clivars, SameClient, SameWire, SamePipe
<1>1. SameServer(k)
  BY ClientPc DEF SameServer
<1>2. CASE Connect(c) \/ SendPart(c) \/ SendReq(c) \/ WaitOk(c) \/ WaitHup(c) \/ WaitTimeout(c)
  <2>1. SameClient(k) /\ SameWire(k) /\ SamePipe(k)
    BY <1>2 DEF Connect, SendPart, SendReq, WaitOk, WaitHup, WaitTimeout
  <2> QED
    BY <1>1, <2>1, Frame
<1>3. CASE RecvHdr(c) \/ RecvFd(c)
  <2>1. SameClient(k) /\ SameWire(k) /\ SamePipe(k)
    BY <1>3 DEF RecvHdr, RecvFd, Advance
  <2> QED
    BY <1>1, <2>1, Frame
<1>4. CASE ConnectFail(c) \/ SendReqFail(c) \/ RecvEof(c) \/ RecvTimeout(c) \/ Leave(c)
  <2>1. SameClient(k) /\ SameWire(k) /\ SamePipe(k)
    BY <1>4 DEF ConnectFail, SendReqFail, RecvEof, RecvTimeout, Leave, Drop
  <2> QED
    BY <1>1, <2>1, Frame
<1> QED
  BY <1>2, <1>3, <1>4 DEF Client

\* What a step of the client leaves alone of its own connection.
LEMMA ClientKeeps ==
    ASSUME AnswerInv, NEW c \in Conns, Client(c)
    PROVE  /\ SameServer(c) /\ Finished(c)' = Finished(c) /\ Tables(c)'
           /\ ExitW(c)' = ExitW(c) /\ SrvSock(c)' = SrvSock(c)
<1>1. SameServer(c)
  BY ClientPc DEF SameServer, AnswerInv
<1>2. ExitW(c)' = ExitW(c) /\ SrvSock(c)' = SrvSock(c)
  BY DEF ExitW, SrvSock
<1>3. Finished(c)' = Finished(c)
  BY <1>1, <1>2 DEF SameServer, Finished
<1>4. Tables(c)'
  BY <1>1, <1>2 DEF AnswerInv, ConnInv, Tables, SameServer
<1> QED
  BY <1>1, <1>2, <1>3, <1>4

\* A client that gives up or leaves has nothing of the connection.
LEMMA DropConn ==
    ASSUME AnswerInv, NEW c \in Conns, Client(c), NEW pc, Drop(c, pc),
           pc = "left" \/ (pc = "failed" /\ cpc[c] \notin {"dialed", "left"})
    PROVE  ConnInv(c)'
<1> USE DEF AnswerInv
<1>1. /\ cpc'[c] = pc /\ csock'[c] = FALSE /\ want'[c] = {} /\ wire'[c] = <<>>
      /\ \A s \in Slots : slot'[c][s] = NoFd
      /\ UNCHANGED <<pipe, said, evbuf, res>>
  BY DEF Drop, TypeOK
<1>2. Sending(c)'
  BY <1>1 DEF Sending, Receiving
<1>3. Having(c)'
  BY <1>1 DEF ConnInv, Having, Filled
<1>4. Once(c)' /\ Hung(c)'
  BY <1>1, ClientKeeps DEF ConnInv, Once, Hung, SameServer
<1>5. Owed(c)'
  BY <1>1 DEF Owed, ClientHas, InFlight
<1> QED
  BY <1>2, <1>3, <1>4, <1>5, ClientKeeps DEF ConnInv

\* The positions the client waits for are all filled: nothing is under way.
LEMMA NoneLeft ==
    ASSUME NEW pc, NEW rem, NEW fin, NEW w, StdFds(pc, rem, fin, w, {})
    PROVE  pc = "killed" \/ fin
BY DEF StdFds, Rest

\* A header arrives.
LEMMA RecvHdrConn ==
    ASSUME AnswerInv, NEW c \in Conns, Client(c), RecvHdr(c)
    PROVE  ConnInv(c)'
<1> USE DEF AnswerInv
<1> DEFINE w == wire[c]
<1>1. ConnInv(c) /\ w # <<>> /\ w \in Seq(Items) /\ Head(w).k = "hdr" /\ offer[c] \in SUBSET Std
  BY DEF RecvHdr, TypeOK
<1>2. /\ want'[c] = Head(w).idx
      /\ cpc'[c] = NextPc(cpc[c], Head(w).idx # {}, "dialed")
      /\ (csock'[c] <=> cpc'[c] # "dialed")
      /\ wire'[c] = IF cpc'[c] = "dialed" THEN <<>> ELSE Tail(w)
      /\ UNCHANGED <<pipe, said, req, evbuf, res, slot>>
  BY DEF RecvHdr, Advance, TypeOK
<1>3. SameServer(c) /\ Finished(c)' = Finished(c) /\ Tables(c)' /\ ExitW(c)' = ExitW(c)
  BY ClientKeeps
<1>4. Once(c)' /\ evbuf[c] = NoStatus /\ cpc[c] \in {"syshdr", "stdhdr"} /\ res[c] # "hup"
  BY <1>1, <1>2, <1>3 DEF RecvHdr, ConnInv, Having, Once, Hung, SameServer
<1>5. Hung(c)'
  BY <1>2, <1>4 DEF Hung
<1>6. Owed(c)'
  <2>1. ClientHas(c, Exit)' <=> ClientHas(c, Exit)
    BY <1>2 DEF ClientHas
  <2>2. InFlight(c, Exit)' => InFlight(c, Exit)
    <3>1. CASE wire'[c] = <<>>
      BY <3>1 DEF InFlight
    <3>2. CASE wire'[c] = Tail(w)
      <4>1. \A i \in DOMAIN Tail(w) : i + 1 \in DOMAIN w /\ Tail(w)[i] = w[i + 1]
        BY <1>1, HeadTailProperties, LenProperties, EmptySeq
      <4> QED
        BY <3>2, <4>1 DEF InFlight, Fd
    <3> QED
      BY <1>2, <3>1, <3>2
  <2> QED
    BY <1>1, <1>2, <1>3, <2>1, <2>2 DEF ConnInv, Owed, SameServer
<1>7. Sending(c)' /\ Having(c)'
  <2>1. CASE cpc[c] = "syshdr"
    <3>1. Head(w) = Hdr({Exit}) /\ SysFds(hpc[c], left[c], Finished(c), offer[c], Tail(w))
      BY <1>1, <2>1 DEF ConnInv, Sending, SysHdr
    <3>2. cpc'[c] = "sysfds" /\ want'[c] = {Exit} /\ wire'[c] = Tail(w) /\ csock'[c]
      BY <1>2, <2>1, <3>1 DEF NextPc, Hdr
    <3>3. Sending(c)'
      BY <1>3, <3>1, <3>2 DEF Sending, Receiving, SameServer
    <3>4. Having(c)'
      BY <1>1, <1>2, <1>4, <2>1, <3>2 DEF ConnInv, Having, Filled
    <3> QED
      BY <3>3, <3>4
  <2>2. CASE cpc[c] = "stdhdr"
    <3>1. Head(w) = Hdr(offer[c]) /\ StdFds(hpc[c], left[c], Finished(c), Tail(w), offer[c])
      BY <1>1, <2>2 DEF ConnInv, Sending, StdHdr
    <3>2. want'[c] = offer[c] /\ Filled(c, {Exit})
      BY <1>1, <1>2, <2>2, <3>1 DEF ConnInv, Having, Hdr
    <3>3. CASE offer[c] = {}
      <4>1. cpc'[c] = "dialed" /\ wire'[c] = <<>> /\ ~csock'[c]
        BY <1>2, <2>2, <3>1, <3>3 DEF NextPc, Hdr
      <4>2. Finished(c)
        BY <3>1, <3>3, NoneLeft DEF Finished
      <4>3. Sending(c)'
        BY <1>3, <4>1, <4>2 DEF Sending, Receiving
      <4>4. Having(c)'
        BY <1>2, <1>3, <1>4, <3>2, <3>3, <4>1 DEF Having, Filled, ExitUnread, SameServer
      <4> QED
        BY <4>3, <4>4
    <3>4. CASE offer[c] # {}
      <4>1. cpc'[c] = "stdfds" /\ wire'[c] = Tail(w) /\ csock'[c]
        BY <1>2, <2>2, <3>1, <3>4 DEF NextPc, Hdr
      <4>2. Sending(c)'
        BY <1>3, <3>1, <3>2, <4>1 DEF Sending, Receiving, SameServer
      <4>3. Having(c)'
        BY <1>2, <1>3, <1>4, <3>2, <3>4, <4>1 DEF Having, Filled, SameServer
      <4> QED
        BY <4>2, <4>3
    <3> QED
      BY <3>3, <3>4
  <2> QED
    BY <1>4, <2>1, <2>2
<1> QED
  BY <1>3, <1>4, <1>5, <1>6, <1>7 DEF ConnInv

\* A descriptor arrives: it is the one of the first position that is empty.
LEMMA RecvFdConn ==
    ASSUME AnswerInv, NEW c \in Conns, Client(c), RecvFd(c)
    PROVE  ConnInv(c)'
<1> USE DEF AnswerInv
<1> DEFINE w == wire[c]
<1>1. /\ ConnInv(c) /\ w # <<>> /\ w \in Seq(Items) /\ offer[c] \in SUBSET Std /\ want[c] \in SUBSET Slots
      /\ cpc[c] \in {"sysfds", "stdfds"}
  BY DEF RecvFd, TypeOK
<1>2. PICK i \in want[c] :
         /\ IsFirst(i, want[c])
         /\ slot' = [slot EXCEPT ![c] = [@ EXCEPT ![i] = Head(w).ch]]
         /\ Advance(c, want[c] \ {i})
  BY DEF RecvFd
<1> DEFINE rem == want[c] \ {i}
<1>3. /\ want'[c] = rem
      /\ cpc'[c] = NextPc(cpc[c], rem # {}, "dialed")
      /\ (csock'[c] <=> cpc'[c] # "dialed")
      /\ wire'[c] = IF cpc'[c] = "dialed" THEN <<>> ELSE Tail(w)
      /\ UNCHANGED <<pipe, said, req, evbuf, res>>
  BY <1>2 DEF Advance, TypeOK
<1>4. i \in Slots /\ \A s \in Slots : slot'[c][s] = IF s = i THEN Head(w).ch ELSE slot[c][s]
  BY <1>1, <1>2 DEF TypeOK
<1>5. SameServer(c) /\ Finished(c)' = Finished(c) /\ Tables(c)' /\ ExitW(c)' = ExitW(c)
  BY ClientKeeps
<1>6. Once(c)' /\ evbuf[c] = NoStatus /\ res[c] # "hup"
  BY <1>1, <1>3, <1>5 DEF ConnInv, Having, Once, Hung, SameServer
<1>7. Hung(c)'
  BY <1>3, <1>6 DEF Hung
<1>8. InFlight(c, Exit)' => InFlight(c, Exit)
  <2>1. CASE wire'[c] = <<>>
    BY <2>1 DEF InFlight
  <2>2. CASE wire'[c] = Tail(w)
    <3>1. \A k \in DOMAIN Tail(w) : k + 1 \in DOMAIN w /\ Tail(w)[k] = w[k + 1]
      BY <1>1, HeadTailProperties, LenProperties, EmptySeq
    <3> QED
      BY <2>2, <3>1 DEF InFlight, Fd
  <2> QED
    BY <1>3, <2>1, <2>2
<1>9. CASE cpc[c] = "sysfds"
  <2>1. want[c] = {Exit} /\ Filled(c, {})
    BY <1>1, <1>9 DEF ConnInv, Having
  <2>2. i = Exit /\ rem = {}
    BY <2>1
  <2>3. Head(w) = Fd(Exit) /\ StdHdr(hpc[c], left[c], Finished(c), offer[c], Tail(w))
    BY <1>1, <1>9 DEF ConnInv, Sending, SysFds
  <2>4. cpc'[c] = "stdhdr" /\ wire'[c] = Tail(w) /\ csock'[c]
    BY <1>3, <1>9, <2>2 DEF NextPc
  <2>5. Sending(c)'
    BY <1>5, <2>3, <2>4 DEF Sending, Receiving, SameServer
  <2>6. Having(c)'
    <3>1. Head(w).ch = Exit
      BY <2>3 DEF Fd
    <3>2. Filled(c, {Exit})'
      BY <1>4, <2>1, <2>2, <3>1 DEF Filled
    <3> QED
      BY <1>3, <1>6, <2>4, <3>2 DEF Having
  <2>7. Owed(c)'
    <3>1. InFlight(c, Exit)
      <4>1. 1 \in DOMAIN w /\ w[1] = Head(w)
        BY <1>1, HeadTailProperties, LenProperties, EmptySeq
      <4> QED
        BY <2>3, <4>1 DEF InFlight
    <3> QED
      BY <1>1, <1>3, <1>5, <3>1 DEF ConnInv, Owed, SameServer
  <2> QED
    BY <1>5, <1>6, <1>7, <2>5, <2>6, <2>7 DEF ConnInv
<1>10. CASE cpc[c] = "stdfds"
  <2>1. /\ StdFds(hpc[c], left[c], Finished(c), w, want[c])
        /\ want[c] \subseteq offer[c] /\ Filled(c, {Exit} \cup (offer[c] \ want[c]))
    BY <1>1, <1>10 DEF ConnInv, Sending, Having
  <2>2. /\ Head(w) = Fd(Head(w).ch) /\ Head(w).ch \in want[c] /\ IsFirst(Head(w).ch, want[c])
        /\ Run(Tail(w), want[c] \ {Head(w).ch})
        /\ Rest(Tail(w), want[c] \ {Head(w).ch}) = Rest(w, want[c])
    BY <1>1, <2>1, RunTail DEF StdFds
  <2>3. Head(w).ch = i
    <3>1. Head(w).ch \in Int /\ i \in Int
      BY <1>1, <2>2, ConnAssumption
    <3>2. Head(w).ch <= i /\ i <= Head(w).ch
      BY <1>2, <2>2 DEF IsFirst
    <3> QED
      BY <3>1, <3>2
  <2>4. StdFds(hpc[c], left[c], Finished(c), Tail(w), rem)
    BY <2>1, <2>2, <2>3 DEF StdFds
  <2>5. \A s \in Slots : slot'[c][s] = IF s \in {Exit} \cup (offer[c] \ rem) THEN s ELSE NoFd
    <3>1. ASSUME NEW s \in Slots
          PROVE  slot'[c][s] = IF s \in {Exit} \cup (offer[c] \ rem) THEN s ELSE NoFd
      <4>1. slot[c][s] = IF s \in {Exit} \cup (offer[c] \ want[c]) THEN s ELSE NoFd
        BY <2>1 DEF Filled
      <4>2. i \in offer[c] /\ slot'[c][s] = IF s = i THEN i ELSE slot[c][s]
        BY <1>2, <1>4, <2>1, <2>3
      <4>3. s # i => (s \in {Exit} \cup (offer[c] \ rem) <=> s \in {Exit} \cup (offer[c] \ want[c]))
        OBVIOUS
      <4> QED
        BY <4>1, <4>2, <4>3
    <3> QED
      BY <3>1
  <2>6. Owed(c)'
    <3>1. i # Exit /\ i # NoFd
      BY <1>1, <1>2, <2>1, ConnAssumption
    <3>2. ClientHas(c, Exit)' => ClientHas(c, Exit)
      BY <1>4, <2>3, <3>1 DEF ClientHas
    <3> QED
      BY <1>1, <1>3, <1>5, <1>8, <3>2 DEF ConnInv, Owed, SameServer
  <2>7. CASE rem = {}
    <3>1. cpc'[c] = "dialed" /\ wire'[c] = <<>> /\ ~csock'[c]
      BY <1>3, <1>10, <2>7 DEF NextPc
    <3>2. Finished(c)
      BY <2>4, <2>7, NoneLeft DEF Finished
    <3>3. Sending(c)'
      BY <1>5, <3>1, <3>2 DEF Sending, Receiving
    <3>4. Having(c)'
      BY <1>3, <1>5, <1>6, <2>5, <2>7, <3>1 DEF Having, Filled, ExitUnread, SameServer
    <3> QED
      BY <1>5, <1>6, <1>7, <2>6, <3>3, <3>4 DEF ConnInv
  <2>8. CASE rem # {}
    <3>1. cpc'[c] = "stdfds" /\ wire'[c] = Tail(w) /\ csock'[c]
      BY <1>3, <1>10, <2>8 DEF NextPc
    <3>2. Sending(c)'
      BY <1>3, <1>5, <2>4, <3>1 DEF Sending, Receiving, SameServer
    <3>3. Having(c)'
      BY <1>3, <1>5, <1>6, <2>1, <2>5, <2>8, <3>1 DEF Having, Filled, SameServer
    <3> QED
      BY <1>5, <1>6, <1>7, <2>6, <3>2, <3>3 DEF ConnInv
  <2> QED
    BY <2>7, <2>8
<1> QED
  BY <1>1, <1>9, <1>10

\* The client of an established connection is told something.
LEMMA WaitConn ==
    ASSUME AnswerInv, NEW c \in Conns, Client(c), WaitOk(c) \/ WaitHup(c) \/ WaitTimeout(c)
    PROVE  ConnInv(c)'
<1> USE DEF AnswerInv
<1>1. /\ ConnInv(c) /\ cpc[c] = "dialed" /\ slot[c][Exit] = Exit
      /\ cpc'[c] = "dialed" /\ csock'[c] = csock[c]
      /\ UNCHANGED <<wire, said, req, want>>
  BY DEF WaitOk, WaitHup, WaitTimeout, hndvars, kernvars
<1>2. SameServer(c) /\ Finished(c)' = Finished(c) /\ Tables(c)' /\ ExitW(c)' = ExitW(c)
  BY ClientKeeps
<1>3. Exit \in Slots /\ Exit \notin offer[c]
  BY ConnAssumption DEF TypeOK
<1>4. evbuf[c] = NoStatus
  BY <1>1, <1>3 DEF ConnInv, Having, Filled, ExitUnread
<1>5. Sending(c)'
  BY <1>1, <1>2 DEF ConnInv, Sending, Receiving
<1>6. CASE WaitOk(c)
  <2>1. /\ evbuf'[c] = Head(pipe[c]) /\ pipe'[c] = Tail(pipe[c]) /\ res'[c] = "ok"
        /\ \A s \in Slots : slot'[c][s] = IF s = Exit THEN NoFd ELSE slot[c][s]
    BY <1>6 DEF WaitOk, TypeOK
  <2>2. pipe[c] = <<said[c]>> /\ said[c] # NoStatus
    BY <1>1, <1>6 DEF WaitOk, ConnInv, Once
  <2>3. evbuf'[c] = said[c] /\ pipe'[c] = <<>>
    BY <2>1, <2>2
  <2>4. Once(c)' /\ Hung(c)'
    BY <1>1, <1>2, <2>1, <2>2, <2>3 DEF ConnInv, Once, Hung, SameServer
  <2>5. Having(c)'
    BY <1>1, <1>2, <1>3, <1>4, <2>1, <2>2, <2>3 DEF ConnInv, Having, Filled, ExitUnread, SameServer
  <2>6. Owed(c)'
    <3>1. wire[c] = <<>>
      BY <1>1 DEF ConnInv, Sending
    <3>2. ~InFlight(c, Exit)'
      BY <1>1, <3>1 DEF InFlight
    <3>3. ~ClientHas(c, Exit)'
      BY <1>1, <1>3, <2>1 DEF ConnInv, Having, Filled, ClientHas
    <3> QED
      BY <3>2, <3>3 DEF Owed
  <2> QED
    BY <1>2, <1>5, <2>4, <2>5, <2>6 DEF ConnInv
<1>7. CASE WaitHup(c) \/ WaitTimeout(c)
  <2>1. UNCHANGED <<pipe, said, slot, evbuf>>
    BY <1>7 DEF WaitHup, WaitTimeout, kernvars
  <2>2. Once(c)' /\ Having(c)'
    BY <1>1, <1>2, <2>1 DEF ConnInv, Once, Having, Filled, ExitUnread, SameServer
  <2>3. Owed(c)'
    BY <1>1, <1>2, <2>1 DEF ConnInv, Owed, ClientHas, InFlight, SameServer
  <2>4. Hung(c)'
    <3>1. CASE WaitHup(c)
      <4>1. pipe[c] = <<>> /\ ExitW(c) \notin htab[c]
        BY <3>1 DEF WaitHup, Held
      <4>2. said[c] = NoStatus /\ Finished(c)
        BY <1>1, <1>4, <4>1 DEF ConnInv, Once, Sending
      <4> QED
        BY <1>1, <1>2, <2>1, <4>1, <4>2 DEF Hung, SameServer
    <3>2. CASE WaitTimeout(c)
      <4>1. res'[c] = "timeout"
        BY <3>2 DEF WaitTimeout, TypeOK
      <4> QED
        BY <4>1 DEF Hung
    <3> QED
      BY <1>7, <3>1, <3>2
  <2> QED
    BY <1>2, <1>5, <2>2, <2>3, <2>4 DEF ConnInv
<1> QED
  BY <1>6, <1>7

LEMMA ClientConn ==
    ASSUME AnswerInv, NEW c \in Conns, Client(c)
    PROVE  ConnInv(c)'
<1> USE DEF AnswerInv
<1>1. ConnInv(c) /\ SameServer(c) /\ Finished(c)' = Finished(c) /\ Tables(c)' /\ ExitW(c)' = ExitW(c)
  BY ClientKeeps
<1>2. CASE Connect(c)
  <2>1. /\ cpc[c] = "idle" /\ cpc'[c] = "send" /\ csock'[c] = TRUE
        /\ UNCHANGED <<kernvars, req, want, slot, evbuf, res>>
    BY <1>2 DEF Connect, TypeOK
  <2>2. hpc[c] = "none"
    BY <2>1 DEF Lifecycle
  <2>3. Sending(c)' /\ Having(c)'
    BY <1>1, <2>1, <2>2 DEF ConnInv, Sending, Having, Filled, Receiving, SysHdr, SameServer, kernvars
  <2>4. Once(c)' /\ Owed(c)'
    BY <1>1, <2>1 DEF ConnInv, Once, Owed, ClientHas, InFlight, SameServer, kernvars
  <2>5. Hung(c)'
    BY <1>1, <2>1 DEF ConnInv, Hung
  <2> QED
    BY <1>1, <2>3, <2>4, <2>5 DEF ConnInv
<1>5. CASE SendPart(c)
  <2>1. UNCHANGED <<kernvars, cpc, csock, want, slot, evbuf, res>>
    BY <1>5 DEF SendPart
  <2>2. Sending(c)' /\ Having(c)'
    BY <1>1, <2>1 DEF ConnInv, Sending, Having, Filled, ExitUnread, SameServer, kernvars
  <2>3. Once(c)' /\ Owed(c)' /\ Hung(c)'
    BY <1>1, <2>1 DEF ConnInv, Once, Owed, Hung, ClientHas, InFlight, SameServer, kernvars
  <2> QED
    BY <1>1, <2>2, <2>3 DEF ConnInv
<1>3. CASE SendReq(c)
  <2>1. /\ cpc[c] = "send" /\ cpc'[c] = "syshdr"
        /\ UNCHANGED <<kernvars, csock, want, slot, evbuf, res>>
    BY <1>3 DEF SendReq, TypeOK
  <2>2. Sending(c)' /\ Having(c)'
    BY <1>1, <2>1 DEF ConnInv, Sending, Having, Filled, Receiving, SysHdr, SameServer, kernvars
  <2>3. Once(c)' /\ Owed(c)'
    BY <1>1, <2>1 DEF ConnInv, Once, Owed, ClientHas, InFlight, SameServer, kernvars
  <2>4. Hung(c)'
    BY <1>1, <2>1 DEF ConnInv, Hung
  <2> QED
    BY <1>1, <2>2, <2>3, <2>4 DEF ConnInv
<1>4. CASE ConnectFail(c) \/ SendReqFail(c) \/ RecvEof(c) \/ RecvTimeout(c) \/ Leave(c)
  <2>1. \/ Drop(c, "left")
        \/ Drop(c, "failed") /\ cpc[c] \notin {"dialed", "left"}
    BY <1>4 DEF ConnectFail, SendReqFail, RecvEof, RecvTimeout, Leave
  <2> QED
    BY <2>1, DropConn
<1> QED
  BY <1>2, <1>3, <1>4, <1>5, RecvHdrConn, RecvFdConn, WaitConn DEF Client

-----------------------------------------------------------------------------
(* The theorems.                                                           *)

LEMMA AnswerNext == AnswerInv /\ [Next]_vars => AnswerInv'
<1> SUFFICES ASSUME AnswerInv, [Next]_vars PROVE AnswerInv'
  OBVIOUS
<1>1. TypeOK' /\ OwnDescriptors'
  BY TypeNext, OwnNext DEF AnswerInv
<1>2. CASE UNCHANGED vars
  <2> USE <1>2 DEF vars, state, loopvars, midvars, hndvars, kernvars, clivars
  <2>1. Lifecycle'
    BY DEF AnswerInv, Lifecycle
  <2>2. ASSUME NEW c \in Conns PROVE ConnInv(c)'
    BY Frame DEF AnswerInv, SameClient, SameServer, SameWire, SamePipe
  <2> QED
    BY <1>1, <2>1, <2>2 DEF AnswerInv
<1>3. CASE Loop
  BY <1>1, <1>3, LifeLoop, LoopConn DEF AnswerInv
<1>4. ASSUME NEW c \in Conns, Mid(c) PROVE AnswerInv'
  BY <1>1, <1>4, LifeMid, MidConn DEF AnswerInv
<1>5. ASSUME NEW c \in Conns, Handler(c) PROVE AnswerInv'
  <2>1. \A k \in Conns : ConnInv(k)'
    BY <1>5, HandlerConn, HandlerOther
  <2> QED
    BY <1>1, <1>5, <2>1, LifeHandler DEF AnswerInv
<1>6. ASSUME NEW c \in Conns, Client(c) PROVE AnswerInv'
  <2>1. \A k \in Conns : ConnInv(k)'
    BY <1>6, ClientConn, ClientOther
  <2> QED
    BY <1>1, <1>6, <2>1, LifeClient DEF AnswerInv
<1> QED
  BY <1>2, <1>3, <1>4, <1>5, <1>6 DEF Next

\* The invariant of a connection holds in every state of the server and its clients
\* (cconn.c, sconn.c, svr.c, svr-fork.c).
THEOREM AnswerAlways == Spec => []AnswerInv
BY AnswerInit, AnswerNext, PTL DEF Spec

\* However many calls of russ_sconn_exit() a request goes through, and whoever is
\* killed in between, at most one status enters the exit pipe, and the client
\* reads the first that could be heard.
THEOREM FirstStatusOnlyAlways == Spec => []FirstStatusOnly
<1>1. AnswerInv => FirstStatusOnly
  <2> SUFFICES ASSUME AnswerInv, NEW c \in Conns
               PROVE  /\ Len(pipe[c]) <= 1
                      /\ pipe[c] # <<>> => evbuf[c] = NoStatus /\ pipe[c] = <<said[c]>>
                      /\ evbuf[c] \in {NoStatus, said[c]}
    BY DEF FirstStatusOnly
  <2>1. Once(c)
    BY DEF AnswerInv, ConnInv
  <2>2. pipe[c] = <<>> \/ pipe[c] = <<said[c]>>
    BY <2>1 DEF Once
  <2>3. Len(pipe[c]) <= 1
    <3>1. CASE pipe[c] = <<>>
      BY <3>1
    <3>2. CASE pipe[c] = <<said[c]>>
      <4>1. Len(pipe[c]) = 1
        BY <3>2
      <4> QED
        BY <4>1
    <3> QED
      BY <2>2, <3>1, <3>2
  <2> QED
    BY <2>1, <2>3 DEF Once
<1> QED
  BY <1>1, AnswerAlways, PTL

\* A dial that succeeds has every descriptor the service offered, each at its own
\* position, and no other (russ_cconn_recv_fds).
THEOREM CompleteAnswerAlways == Spec => []CompleteAnswer
<1>1. AnswerInv => CompleteAnswer
  <2> SUFFICES ASSUME AnswerInv, NEW c \in Conns, cpc[c] = "dialed"
               PROVE  /\ \A s \in Std : slot[c][s] = IF s \in offer[c] THEN s ELSE NoFd
                      /\ slot[c][Exit] = IF evbuf[c] = NoStatus THEN Exit ELSE NoFd
    BY DEF CompleteAnswer
  <2>1. Filled(c, ExitUnread(c) \cup offer[c]) /\ offer[c] \subseteq Std
    BY DEF AnswerInv, ConnInv, Having, TypeOK
  <2>2. Exit \in Slots /\ Exit \notin Std /\ Std \subseteq Slots
    BY ConnAssumption
  <2> QED
    BY <2>1, <2>2 DEF Filled, ExitUnread
<1> QED
  BY <1>1, AnswerAlways, PTL

\* A handler process that ran to its end leaves a status for every client that can
\* still read one, but for a service that answered twice: the failsafe of
\* russ_svr_handler().
THEOREM FailsafeAlways == Spec => []FailsafeStatus
<1>1. AnswerInv => FailsafeStatus
  BY DEF AnswerInv, Lifecycle, ConnInv, Owed, FailsafeStatus
<1> QED
  BY <1>1, AnswerAlways, PTL

-----------------------------------------------------------------------------
(* RussConn implements RussCall: each step is one of its steps, or none.   *)

CallOf(c) == IF cpc[c] \in {"dialed", "failed", "left"} THEN cpc[c] ELSE "dialing"
HeardOf(c) == IF res[c] = "hup" THEN Lost ELSE evbuf[c]

LEMMA CallInit == Init => Call!Init
BY DEF Init, Call!Init

\* A step that leaves the dial, the status and the report of every connection.
LEMMA CallStutter ==
    ASSUME UNCHANGED said,
           \A c \in Conns : CallOf(c)' = CallOf(c) /\ HeardOf(c)' = HeardOf(c)
    PROVE  UNCHANGED Call!vars
BY DEF Call!vars, CallOf, HeardOf

LEMMA CallHandler ==
    ASSUME AnswerInv, NEW c \in Conns, Handler(c)
    PROVE  [Call!Next]_Call!vars
<1> USE DEF AnswerInv, loopvars, midvars, hndvars, kernvars, clivars, Goto
<1>1. UNCHANGED <<cpc, evbuf, res>>
  BY HandlerPc DEF Lifecycle
<1>2. \/ said' = said
      \/ \E st \in Statuses : SendExit(c, st)
  <2>1. Failure \in Statuses /\ Success \in Statuses
    BY ConnAssumption
  <2>2. CASE SendHdr(c) \/ SendFd(c)
    BY <2>2 DEF SendHdr, SendFd, Transmit
  <2>3. CASE AwaitReq(c) \/ AwaitShort(c) \/ MakePipes(c) \/ MakePipesFail(c) \/ SendFail(c)
    BY <2>3 DEF AwaitReq, AwaitShort, MakePipes, MakePipesFail, SendFail
  <2>4. CASE Refuse(c) \/ Verify(c) \/ HandlerAnswerAgain(c) \/ HandlerReturn(c) \/ Fallback(c) \/ Cleanup(c) \/ HandlerKill(c)
    BY <2>1, <2>4 DEF Refuse, Verify, HandlerAnswerAgain, HandlerReturn, Fallback, Cleanup, HandlerKill
  <2>5. ASSUME NEW idx, HandlerAnswer(c, idx) PROVE said' = said
    BY <2>5 DEF HandlerAnswer
  <2>6. ASSUME NEW st \in Statuses, HandlerExit(c, st) PROVE SendExit(c, st)
    BY <2>6 DEF HandlerExit
  <2> QED
    BY <2>2, <2>3, <2>4, <2>5, <2>6 DEF Handler
<1>3. CASE said' = said
  BY <1>1, <1>3, CallStutter DEF CallOf, HeardOf
<1>4. ASSUME NEW st \in Statuses, SendExit(c, st) PROVE [Call!Next]_Call!vars
  <2>1. CASE CanSay(c) /\ said[c] = NoStatus
    <3>1. said' = [said EXCEPT ![c] = st]
      BY <1>4, <2>1 DEF SendExit, ExitSaid
    <3>2. HeardOf(c) # Lost
      <4>1. res[c] # "hup"
        BY <2>1 DEF ConnInv, Hung, CanSay
      <4> QED
        BY <4>1, ConnAssumption DEF HeardOf, TypeOK
    <3>3. Call!Say(c, st)
      BY <1>1, <2>1, <3>1, <3>2 DEF Call!Say, HeardOf
    <3> QED
      BY <3>3 DEF Call!Next
  <2>2. CASE ~(CanSay(c) /\ said[c] = NoStatus)
    <3>1. said' = said
      BY <1>4, <2>2 DEF SendExit, ExitSaid, TypeOK
    <3> QED
      BY <1>1, <3>1, CallStutter DEF CallOf, HeardOf
  <2> QED
    BY <2>1, <2>2
<1> QED
  BY <1>2, <1>3, <1>4

LEMMA CallClient ==
    ASSUME AnswerInv, NEW c \in Conns, Client(c)
    PROVE  [Call!Next]_Call!vars
<1> USE DEF AnswerInv, TypeOK
<1>1. ConnInv(c) /\ said' = said
  BY ClientPc
\* Only c's dial moves, and the reports stay.
<1>2. ASSUME NEW pc \in CliPc, cpc' = [cpc EXCEPT ![c] = pc], UNCHANGED <<evbuf, res>>,
             cpc[c] \notin {"dialed", "failed", "left"} \/ (cpc[c] = "dialed" /\ pc = "left")
      PROVE  [Call!Next]_Call!vars
  <2>1. CASE pc \in {"dialed", "failed", "left"}
    <3>1. Call!Settle(c, pc)
      BY <1>1, <1>2, <2>1 DEF Call!Settle
    <3> QED
      BY <2>1, <3>1 DEF Call!Next
  <2>2. CASE pc \notin {"dialed", "failed", "left"}
    BY <1>1, <1>2, <2>2, CallStutter DEF CallOf, HeardOf
  <2> QED
    BY <2>1, <2>2
<1>3. CASE Connect(c) \/ SendPart(c) \/ SendReq(c)
  BY <1>2, <1>3 DEF Connect, SendPart, SendReq, CliPc
<1>4. CASE ConnectFail(c) \/ SendReqFail(c) \/ RecvEof(c) \/ RecvTimeout(c) \/ Leave(c)
  BY <1>2, <1>4 DEF ConnectFail, SendReqFail, RecvEof, RecvTimeout, Leave, Drop, CliPc
<1>5. CASE RecvHdr(c) \/ RecvFd(c)
  <2>1. PICK rem : Advance(c, rem) /\ cpc[c] \in {"syshdr", "sysfds", "stdhdr", "stdfds"}
    BY <1>5 DEF RecvHdr, RecvFd
  <2>2. NextPc(cpc[c], rem # {}, "dialed") \in CliPc
    BY DEF NextPc, CliPc
  <2> QED
    BY <1>2, <2>1, <2>2 DEF Advance
<1>6. CASE WaitOk(c)
  <2>1. said[c] # NoStatus /\ pipe[c] = <<said[c]>> /\ evbuf[c] = NoStatus /\ res[c] # "hup"
    BY <1>1, <1>6 DEF WaitOk, ConnInv, Once, Hung
  <2>2. /\ cpc[c] = "dialed" /\ UNCHANGED cpc
        /\ evbuf' = [evbuf EXCEPT ![c] = said[c]] /\ res' = [res EXCEPT ![c] = "ok"]
    BY <1>6, <2>1 DEF WaitOk
  <2>3. Call!Hear(c)
    BY <1>1, <2>1, <2>2 DEF Call!Hear
  <2> QED
    BY <2>3 DEF Call!Next
<1>7. CASE WaitHup(c)
  <2>1. /\ cpc[c] = "dialed" /\ UNCHANGED <<cpc, evbuf>> /\ res' = [res EXCEPT ![c] = "hup"]
        /\ pipe[c] = <<>> /\ slot[c][Exit] = Exit
    BY <1>7 DEF WaitHup
  <2>2. evbuf[c] = NoStatus
    <3>1. Exit \in Slots /\ Exit \notin offer[c]
      BY ConnAssumption
    <3> QED
      BY <1>1, <2>1, <3>1 DEF ConnInv, Having, Filled, ExitUnread
  <2>3. said[c] = NoStatus
    BY <1>1, <2>1, <2>2 DEF ConnInv, Once
  <2>4. CASE res[c] = "hup"
    BY <1>1, <2>1, <2>4, CallStutter DEF CallOf, HeardOf
  <2>5. CASE res[c] # "hup"
    <3>1. Call!Lose(c)
      BY <1>1, <2>1, <2>2, <2>3, <2>5 DEF Call!Lose
    <3> QED
      BY <3>1 DEF Call!Next
  <2> QED
    BY <2>4, <2>5
<1>8. CASE WaitTimeout(c)
  BY <1>1, <1>8, CallStutter DEF WaitTimeout, CallOf, HeardOf
<1> QED
  BY <1>3, <1>4, <1>5, <1>6, <1>7, <1>8 DEF Client

LEMMA CallNext == AnswerInv /\ [Next]_vars => [Call!Next]_Call!vars
<1> SUFFICES ASSUME AnswerInv, [Next]_vars PROVE [Call!Next]_Call!vars
  OBVIOUS
<1>1. CASE Loop \/ (\E c \in Conns : Mid(c)) \/ UNCHANGED vars
  <2>1. UNCHANGED <<said, cpc, evbuf, res>>
    BY <1>1 DEF Loop, Accept, AcceptFail, LoopEnd, Fork, LoopClose, LoopWait, LoopKill,
                Mid, MidCloseLis, MidFork, MidExit, vars, state, kernvars, clivars
  <2> QED
    BY <2>1, CallStutter DEF CallOf, HeardOf
<1> QED
  BY <1>1, CallHandler, CallClient DEF Next

\* What a dial promises, for any number of dials to one server: a client of an
\* established connection hears one status, the one that was said, or learns of a
\* hang-up, and then none was said and none ever will be.
THEOREM CallImplemented == Spec => ImplementsCall
BY CallInit, CallNext, AnswerAlways, PTL DEF Spec, ImplementsCall, Call!Spec
=============================================================================
