---------------------------- MODULE ProxyProofs ----------------------------
(* Proofs about Proxy, for streams and buffers of any size and any         *)
(* addresses: no chunk is lost or made up, no stream ends before its time, *)
(* and what is dialed is on the public internet.                           *)
EXTENDS Proxy, TLAPS

LEMMA Directions == /\ \A d \in Dirs : /\ Other(d) \in Dirs /\ Other(Other(d)) = d /\ Other(d) # d
                                       /\ In(d) \in Conns /\ Out(d) \in Conns
                                       /\ In(d) # Out(d) /\ In(Other(d)) = Out(d)
                                       /\ Out(Other(d)) = In(d)
                                       /\ \A e \in Dirs : e = d \/ e = Other(d)
                    /\ \A c \in Conns : \E d \in Dirs : c = In(d)
  BY DEF Dirs, Conns, Other, In, Out

(* No step leaves the types.                                               *)
LEMMA ProxyTypes == TypeOK /\ [Next]_vars => TypeOK'
<1> SUFFICES ASSUME TypeOK, [Next]_vars PROVE TypeOK'
  OBVIOUS
<1> USE RoomAssumption, Directions DEF TypeOK, askVars, dialVars, dataVars, connVars
<1>1. CASE Handle
  <2>1. CASE Request
    BY <2>1 DEF Request, Answer
  <2>2. CASE DialNext
    BY <2>2 DEF DialNext
  <2>3. CASE DialConnects
    BY <2>3 DEF DialConnects
  <2>4. CASE DialFails
    BY <2>4 DEF DialFails, Answer
  <2>5. CASE HijackFails
    BY <2>5 DEF HijackFails, Answer
  <2>6. CASE Establish
    BY <2>6 DEF Establish
  <2>7. CASE RoundTripFails
    BY <2>7 DEF RoundTripFails, Answer
  <2>8. QED
    BY <1>1, <2>1, <2>2, <2>3, <2>4, <2>5, <2>6, <2>7 DEF Handle
<1>2. ASSUME NEW d \in Dirs, Copy(d) PROVE TypeOK'
  <2>1. CASE CopyRead(d)
    BY <2>1 DEF CopyRead
  <2>2. CASE CopyWrite(d)
    BY <2>2 DEF CopyWrite
  <2>3. CASE CopyEnd(d)
    <3>1. copier' \in [Dirs -> {"none", "copy", "over"}]
      BY <2>3 DEF CopyEnd
    <3>2. open' \in [Conns -> BOOLEAN]
      BY <2>3 DEF CopyEnd
    <3>3. cut' = cut \/ cut' = [cut EXCEPT ![Out(d)] = TRUE]
      BY <2>3 DEF CopyEnd
    <3>4. cut' \in [Conns -> BOOLEAN]
      BY <3>3
    <3>5. UNCHANGED <<askVars, dialVars, pc, dataVars, ends>>
      BY <2>3 DEF CopyEnd
    <3>6. QED
      BY <3>1, <3>2, <3>4, <3>5
  <2>4. CASE RelayEnd
    <3>1. copier' \in [Dirs -> {"none", "copy", "over"}] /\ open' \in [Conns -> BOOLEAN]
      BY <2>4 DEF RelayEnd
    <3>2. (form = "sized" /\ Short("down")) \in BOOLEAN
      BY DEF Short
    <3>3. cut' \in [Conns -> BOOLEAN]
      BY <2>4, <3>2 DEF RelayEnd
    <3>4. UNCHANGED <<askVars, dialVars, pc, dataVars, ends>>
      BY <2>4 DEF RelayEnd
    <3>5. QED
      BY <3>1, <3>3, <3>4
  <2>5. QED
    BY <1>2, <2>1, <2>2, <2>3, <2>4 DEF Copy
<1>3. ASSUME NEW d \in Dirs, World(d) PROVE TypeOK'
  <2>1. CASE Send(d)
    BY <2>1 DEF Send
  <2>2. CASE SendTooLate(d)
    BY <2>2 DEF SendTooLate
  <2>3. CASE Receive(d)
    BY <2>3 DEF Receive
  <2>4. CASE Shut(d) \/ Leave(d)
    BY <2>4 DEF Shut, Leave, EndGoes, Ends
  <2>5. QED
    BY <1>3, <2>1, <2>2, <2>3, <2>4 DEF World
<1>4. ASSUME NEW c \in Conns, Abort(c) PROVE TypeOK'
  BY <1>4 DEF Abort, EndGoes, Ends
<1>5. CASE UNCHANGED vars
  BY <1>5 DEF vars
<1>6. CASE RoundTripAnswers
  BY <1>6 DEF RoundTripAnswers
<1>7. QED
  BY <1>1, <1>2, <1>3, <1>4, <1>5, <1>6 DEF Next

(* A step that moves no chunk conserves them.                              *)
LEMMA ConservedStep == TypeOK /\ Conserved /\ [Next]_vars => Conserved'
<1> SUFFICES ASSUME TypeOK, Conserved, [Next]_vars PROVE Conserved'
  OBVIOUS
<1>1. CASE UNCHANGED <<dataVars, total>>
  BY <1>1 DEF Conserved, dataVars
<1>2. ASSUME NEW d \in Dirs, CopyRead(d) \/ CopyWrite(d) \/ Send(d) \/ Receive(d)
      PROVE  Conserved'
  <2> SUFFICES ASSUME NEW e \in Dirs
               PROVE  left'[e] + near'[e] + hand'[e] + far'[e] + got'[e] = total'[e]
    BY DEF Conserved
  <2> USE DEF TypeOK, askVars
  <2>1. left[e] + near[e] + hand[e] + far[e] + got[e] = total[e]
    BY DEF Conserved
  <2>2. CASE CopyRead(d)
    BY <2>1, <2>2 DEF CopyRead
  <2>3. CASE CopyWrite(d)
    BY <2>1, <2>3 DEF CopyWrite
  <2>4. CASE Send(d)
    BY <2>1, <2>4 DEF Send
  <2>5. CASE Receive(d)
    BY <2>1, <2>5 DEF Receive
  <2>6. QED
    BY <1>2, <2>2, <2>3, <2>4, <2>5
<1>3. QED
  BY <1>1, <1>2 DEF Next, Handle, Request, DialNext, DialConnects, DialFails, HijackFails,
     Establish, RoundTripFails, RoundTripAnswers, Copy, CopyEnd, RelayEnd, World, SendTooLate, Shut, Leave, Abort, EndGoes, Answer,
     vars, askVars

(* Once a stream is finished it stays so, and so does a dead end.          *)
Cause == (\E e \in Dirs : Finished(e)) \/ (\E c \in Conns : ends[c] = "aborted")

LEMMA CauseStays == TypeOK /\ Cause /\ [Next]_vars => Cause'
<1> SUFFICES ASSUME TypeOK, Cause, [Next]_vars PROVE Cause'
  OBVIOUS
<1>1. CASE UNCHANGED <<left, near, hand, ends>>
  BY <1>1 DEF Cause, Finished
<1>2. ASSUME NEW d \in Dirs, CopyRead(d) \/ CopyWrite(d) \/ Send(d) PROVE Cause'
  BY <1>2 DEF TypeOK, Cause, Finished, CopyRead, CopyWrite, Send, connVars
<1>3. ASSUME NEW c \in Conns, NEW s \in Ends, s # "open", EndGoes(c, s),
             s = "aborted" \/ ends[c] # "aborted"
      PROVE  Cause'
  <2>1. /\ ends' = [ends EXCEPT ![c] = s]
        /\ UNCHANGED <<left, near, hand>>
    BY <1>3 DEF EndGoes, dataVars
  <2>2. \A e \in Dirs : Finished(e) => Finished(e)'
    BY <2>1, <1>3, Directions DEF Finished, TypeOK
  <2>3. \A k \in Conns : ends[k] = "aborted" => ends'[k] = "aborted"
    BY <2>1, <1>3 DEF TypeOK
  <2>4. QED
    BY <2>2, <2>3 DEF Cause
<1>4. ASSUME NEW d \in Dirs, Shut(d) \/ Leave(d) PROVE Cause'
  BY <1>3, <1>4, Directions DEF Shut, Leave, Ends
<1>5. ASSUME NEW c \in Conns, Abort(c) PROVE Cause'
  BY <1>3, <1>5 DEF Abort, Ends
<1>6. QED
  BY <1>1, <1>2, <1>4, <1>5 DEF Next, Handle, Request, DialNext, DialConnects, DialFails,
     HijackFails, Establish, RoundTripFails, RoundTripAnswers, Copy, CopyEnd, RelayEnd, World, SendTooLate, Receive, Answer,
     vars, dataVars, connVars

(* A copy that stops has a cause, or the other copy had one.               *)
LEMMA StopsForCause ==
  ASSUME TypeOK, Reasons, NEW d \in Dirs, copier[d] = "copy", CopyStops(d)
  PROVE  Cause
<1>1. pc \in Dialed
  BY DEF Reasons, Dialed
<1>2. \A e \in Dirs : copier[e] = "over" => Cause
  BY DEF Reasons, Cause
<1>3. CASE ends[In(d)] = "aborted" \/ ends[Out(d)] = "aborted"
  BY <1>3, Directions DEF Cause
<1>4. CASE ~open[In(d)]
  BY <1>1, <1>2, <1>4, Directions DEF Reasons
<1>5. CASE hand[d] = 0 /\ near[d] = 0 /\ ends[In(d)] # "open"
  <2>1. ends[In(d)] = "gone" => Cause
    BY <1>2, Directions DEF Reasons
  <2>2. ends[In(d)] = "shut" => Finished(d)
    BY <1>5 DEF Reasons, Finished
  <2>3. QED
    BY <1>3, <1>5, <2>1, <2>2, Directions DEF TypeOK, Ends, Cause
<1>6. QED
  BY <1>3, <1>4, <1>5 DEF CopyStops

(* No step breaks the reasons.                                             *)
LEMMA ReasonsStep == TypeOK /\ Reasons /\ [Next]_vars => Reasons'
<1> SUFFICES ASSUME TypeOK, Reasons, [Next]_vars PROVE Reasons'
  OBVIOUS
<1>0. (\E d \in Dirs : copier[d] = "over") => Cause'
  BY CauseStays DEF Reasons, Cause
<1>1. CASE UNCHANGED <<pc, copier, left, open, ends, cut>>
  BY <1>0, <1>1 DEF Reasons, Cause
<1>2. ASSUME \A d \in Dirs : copier[d] = "none", UNCHANGED <<left, copier, ends, cut>>,
             pc' \notin {"tunnel", "relay"},
             pc' \in {"hijack", "forward"} => open'["src"] /\ open'["dst"],
             pc' \in {"asked", "dial"} => open'["src"]
      PROVE  Reasons'
  BY <1>2 DEF Reasons, Dialed, Dirs, Out
<1>3. CASE Handle
  <2>1. pc \notin {"tunnel", "relay"}
    BY <1>3 DEF Handle, Request, DialNext, DialConnects, DialFails, HijackFails, Establish,
       RoundTripFails
  <2>2. \A d \in Dirs : copier[d] = "none"
    BY <2>1 DEF Reasons
  <2>3. CASE Establish
    <3>1. /\ copier' = [d \in Dirs |-> "copy"] /\ pc' = "tunnel" /\ pc = "hijack"
          /\ UNCHANGED <<left, open, ends, cut>>
      BY <2>3 DEF Establish, dataVars
    <3>2. \A d \in Dirs : open[Out(d)]
      BY <2>2, <3>1 DEF Reasons, Dialed
    <3>3. QED
      BY <2>2, <3>1, <3>2 DEF Reasons, Dialed
  <2>4. CASE DialConnects
    BY <1>2, <2>2, <2>4 DEF DialConnects, Reasons, TypeOK, dataVars, Conns
  <2>5. CASE Request \/ DialNext \/ DialFails \/ HijackFails \/ RoundTripFails
    BY <1>2, <2>2, <2>5 DEF Reasons, Request, DialNext, DialFails, HijackFails,
       RoundTripFails, Answer, dataVars, connVars
  <2>6. QED
    BY <1>3, <2>3, <2>4, <2>5 DEF Handle
<1>4. ASSUME NEW d \in Dirs, CopyEnd(d) PROVE Reasons'
  <2>1. /\ copier' = [copier EXCEPT ![d] = "over"]
        /\ open' = [open EXCEPT ![Out(d)] = FALSE]
        /\ UNCHANGED <<pc, left, ends>>
        /\ copier[d] = "copy" /\ CopyStops(d)
        /\ cut' = cut \/ cut' = [cut EXCEPT ![Out(d)] = TRUE]
    BY <1>4 DEF CopyEnd, dialVars, dataVars
  <2>2. Cause'
    BY <2>1, StopsForCause, CauseStays
  <2>3. \A e \in Dirs : cut'[Out(e)] => cut[Out(e)] \/ e = d
    BY <2>1, Directions DEF TypeOK
  <2>4. \A e \in Dirs : e # d => open'[Out(e)] = open[Out(e)]
    BY <2>1, Directions DEF TypeOK
  <2>5. QED
    BY <2>1, <2>2, <2>3, <2>4 DEF Reasons, Cause, TypeOK
<1>5. ASSUME NEW d \in Dirs, Send(d) PROVE Reasons'
  BY <1>0, <1>5 DEF Send, Reasons, Cause, TypeOK, connVars
<1>6. ASSUME NEW d \in Dirs, SendTooLate(d) PROVE Reasons'
  <2>1. copier[Other(d)] = "over"
    BY <1>6, Directions DEF SendTooLate, Flows, Dialed, Reasons
  <2>2. \A e \in Dirs : cut'[Out(e)] => cut[Out(e)] \/ e = Other(d)
    BY <1>6, Directions DEF SendTooLate, TypeOK
  <2>3. QED
    BY <1>0, <1>6, <2>1, <2>2 DEF SendTooLate, Reasons, Cause, dataVars
<1>7. ASSUME NEW d \in Dirs, Shut(d) PROVE Reasons'
  <2>1. \A e \in Dirs : ends'[In(e)] = "shut" => ends[In(e)] = "shut" \/ e = d
    BY <1>7, Directions DEF Shut, EndGoes, TypeOK
  <2>2. \A e \in Dirs : ends'[Out(e)] = "gone" => ends[Out(e)] = "gone"
    BY <1>7, Directions DEF Shut, EndGoes, TypeOK
  <2>3. QED
    BY <1>0, <1>7, <2>1, <2>2 DEF Shut, EndGoes, Reasons, Cause, dataVars
<1>8. ASSUME NEW d \in Dirs, Leave(d) PROVE Reasons'
  <2>1. copier[d] = "over"
    BY <1>8 DEF Leave, SawEnd, Reasons
  <2>2. \A e \in Dirs : ends'[In(e)] = "shut" => ends[In(e)] = "shut"
    BY <1>8, Directions DEF Leave, EndGoes, TypeOK
  <2>3. \A e \in Dirs : ends'[Out(e)] = "gone" => ends[Out(e)] = "gone" \/ e = d
    BY <1>8, Directions DEF Leave, EndGoes, TypeOK
  <2>4. QED
    BY <1>0, <1>8, <2>1, <2>2, <2>3 DEF Leave, EndGoes, Reasons, Cause, dataVars
<1>9. ASSUME NEW c \in Conns, Abort(c) PROVE Reasons'
  <2>1. \A e \in Dirs : /\ ends'[In(e)] = "shut" => ends[In(e)] = "shut"
                        /\ ends'[Out(e)] = "gone" => ends[Out(e)] = "gone"
    BY <1>9, Directions DEF Abort, EndGoes, TypeOK
  <2>2. QED
    BY <1>0, <1>9, <2>1 DEF Abort, EndGoes, Reasons, Cause, dataVars
<1>10. CASE RoundTripAnswers
  <2>1. /\ copier' = [copier EXCEPT !["down"] = "copy"]
        /\ pc = "forward" /\ pc' = "relay"
        /\ UNCHANGED <<left, open, ends, cut>>
    BY <1>10 DEF RoundTripAnswers, dataVars
  <2>2. \A d \in Dirs : copier[d] = "none"
    BY <2>1 DEF Reasons
  <2>3. QED
    BY <2>1, <2>2 DEF Reasons, Dialed, TypeOK
<1>11. CASE RelayEnd
  <2>1. /\ copier' = [d \in Dirs |-> "over"]
        /\ UNCHANGED <<pc, left, ends>>
        /\ pc = "relay" /\ copier["down"] = "copy" /\ CopyStops("down")
    BY <1>11 DEF RelayEnd, dialVars, dataVars
  <2>2. Cause'
    BY <2>1, StopsForCause, CauseStays DEF Dirs
  <2>3. QED
    BY <2>1, <2>2 DEF Reasons, Cause
<1>12. QED
  BY <1>1, <1>3, <1>4, <1>5, <1>6, <1>7, <1>8, <1>9, <1>10, <1>11
     DEF Next, Copy, World, CopyRead, CopyWrite, Receive, dataVars, connVars, vars

(* A relay that is over stays whole or cut off.                            *)
LEMMA AnnouncedStep == TypeOK /\ Announced /\ Reasons /\ [Next]_vars => Announced'
<1> SUFFICES ASSUME TypeOK, Announced, Reasons, [Next]_vars PROVE Announced'
  OBVIOUS
<1>1. UNCHANGED form
  BY DEF Next, Handle, Request, DialNext, DialConnects, DialFails, HijackFails, Establish,
     RoundTripFails, RoundTripAnswers, Copy, CopyRead, CopyWrite, CopyEnd, RelayEnd, World,
     Send, SendTooLate, Receive, Shut, Leave, Abort, EndGoes, vars, askVars
<1>2. (pc \in {"hijack", "tunnel"} => form = "connect")'
  BY <1>1 DEF Announced, Next, Handle, Request, DialNext, DialConnects, DialFails,
     HijackFails, Establish, RoundTripFails, RoundTripAnswers, Copy, CopyRead, CopyWrite,
     CopyEnd, RelayEnd, World, Send, SendTooLate, Receive, Shut, Leave, Abort, EndGoes,
     Answer, vars
<1>3. ASSUME form = "sized", copier'["down"] = "over", ~cut'["src"] PROVE ~Short("down")'
  <2>1. CASE RelayEnd
    BY <1>3, <2>1 DEF RelayEnd, TypeOK, Conns, Short, dataVars
  <2>2. CASE UNCHANGED <<left, near, hand, copier>> /\ (cut["src"] => cut'["src"])
    BY <1>3, <2>2 DEF Announced, Short
  <2>3. ASSUME NEW d \in Dirs, CopyRead(d) \/ CopyWrite(d) \/ Send(d)
        PROVE  ~Short("down")'
    <3>1. UNCHANGED <<copier, cut>>
      BY <2>3 DEF CopyRead, CopyWrite, Send, connVars
    <3>2. copier["down"] = "over" /\ ~Short("down")
      BY <1>3, <3>1 DEF Announced
    <3>3. left["down"] = 0 /\ near["down"] = 0 /\ hand["down"] = 0
      BY <3>2 DEF Short, TypeOK, Dirs
    <3>4. UNCHANGED <<left["down"], near["down"], hand["down"]>>
      BY <2>3, <3>2, <3>3 DEF CopyRead, CopyWrite, Send, TypeOK, Dirs
    <3>5. QED
      BY <3>3, <3>4 DEF Short
  <2>4. ASSUME NEW d \in Dirs, SendTooLate(d) PROVE ~Short("down")'
    BY <1>3, <2>2, <2>4, Directions DEF SendTooLate, dataVars, TypeOK
  <2>5. ASSUME NEW d \in Dirs, CopyEnd(d) PROVE ~Short("down")'
    BY <1>3, <2>5 DEF CopyEnd, Announced
  <2>6. CASE Establish \/ RoundTripAnswers
    BY <1>3, <2>6 DEF Establish, RoundTripAnswers, TypeOK, Dirs
  <2>7. QED
    BY <2>1, <2>2, <2>3, <2>4, <2>5, <2>6 DEF Next, Handle, Request, DialNext,
       DialConnects, DialFails, HijackFails, RoundTripFails, Copy, World, Receive, Shut,
       Leave, Abort, EndGoes, vars, dataVars, connVars
<1>4. QED
  BY <1>1, <1>2, <1>3 DEF Announced

(* Every variable of the proxy keeps its type.                             *)
THEOREM ProxyTyped == Spec => []TypeOK
<1>1. Init => TypeOK
  BY RoomAssumption DEF Init, TypeOK, Nothing, Ends
<1>2. QED
  BY <1>1, ProxyTypes, PTL DEF Spec

(* No chunk is lost or made up, and no copy ends without a cause.          *)
THEOREM TunnelHolds == Spec => []TunnelInv
<1>1. Init => TunnelInv
  <2> SUFFICES ASSUME Init PROVE TunnelInv
    OBVIOUS
  <2>1. Conserved
    BY RoomAssumption DEF Init, Conserved, Nothing
  <2>2. Reasons
    BY Directions DEF Init, Reasons, Dialed, Conns
  <2>3. Announced
    BY DEF Init, Announced, Dirs
  <2>4. QED
    BY <2>1, <2>2, <2>3 DEF TunnelInv
<1>2. TypeOK /\ TunnelInv /\ [Next]_vars => TunnelInv'
  BY ConservedStep, ReasonsStep, AnnouncedStep DEF TunnelInv
<1>3. QED
  BY <1>1, <1>2, ProxyTyped, PTL DEF Spec

(* An end that has not ended its sending reads the end of the stream only  *)
(* after all of it, for streams and buffers of any size.                   *)
THEOREM StreamsWhole == Spec => []WholeStream
<1>1. TypeOK /\ TunnelInv => WholeStream
  <2> SUFFICES ASSUME TypeOK, TunnelInv, NEW d \in Dirs, SawEnd(d), ends[Out(d)] = "open",
                      ends[In(d)] # "aborted" \/ (d = "down" /\ form = "sized")
               PROVE  got[d] = total[d]
    BY DEF WholeStream
  <2>1. far[d] = 0
    BY DEF SawEnd
  <2>2. CASE ends[In(d)] # "aborted"
    <3>1. \A c \in Conns : ends[c] # "aborted"
      BY <2>2, Directions DEF Conns, Dirs, In, Out
    <3>2. PICK e \in Dirs : Finished(e)
      BY <3>1 DEF SawEnd, TunnelInv, Reasons
    <3>3. e = d
      BY <3>2, Directions DEF Finished
    <3>4. left[d] = 0 /\ near[d] = 0 /\ hand[d] = 0
      BY <3>2, <3>3 DEF Finished
    <3>5. QED
      BY <2>1, <3>4 DEF TunnelInv, Conserved, TypeOK
  <2>3. CASE d = "down" /\ form = "sized"
    <3>1. copier["down"] = "over" /\ ~cut["src"]
      BY <2>3 DEF SawEnd, Out
    <3>2. ~Short(d)
      BY <2>3, <3>1 DEF TunnelInv, Announced
    <3>3. left[d] = 0 /\ near[d] = 0 /\ hand[d] = 0
      BY <3>2 DEF Short, TypeOK
    <3>4. QED
      BY <2>1, <3>3 DEF TunnelInv, Conserved, TypeOK
  <2>4. QED
    BY <2>2, <2>3
<1>2. QED
  BY <1>1, ProxyTyped, TunnelHolds, PTL

---------------------------------------------------------------------------
(* A step of the handler up to the copies keeps what Closing says.         *)
LEMMA HandleCloses ==
  ASSUME TypeOK, Reasons, Closing, Handle \/ RoundTripAnswers
  PROVE  Closing'
<1> USE DEF TypeOK, askVars, dialVars, dataVars, connVars
<1>1. CASE Request \/ DialNext \/ DialFails
  BY <1>1 DEF Closing, Request, DialNext, DialFails, Answer
<1>2. CASE DialConnects
  <2>1. \A c \in Conns : ends[c] = "open"
    BY <1>2 DEF DialConnects, Closing, Reasons, Conns
  <2>2. pc' \in {"hijack", "forward"} /\ UNCHANGED <<ends, copier>>
    BY <1>2 DEF DialConnects
  <2>3. QED
    BY <2>1, <2>2 DEF Closing
<1>3. CASE HijackFails \/ Establish
  <2>1. \A d \in Dirs : copier[d] # "over"
    BY <1>3 DEF HijackFails, Establish, Reasons
  <2>2. open["src"]
    BY <1>3, <2>1 DEF HijackFails, Establish, Reasons, Dialed, Dirs, Out
  <2>3. \A c \in Conns : ends[c] = "open"
    BY <1>3, <2>2 DEF HijackFails, Establish, Closing, Conns
  <2>4. QED
    BY <1>3, <2>3 DEF HijackFails, Establish, Closing, Answer
<1>4. CASE RoundTripFails
  BY <1>4 DEF RoundTripFails, Closing, Answer
<1>5. CASE RoundTripAnswers
  <2>1. \A d \in Dirs : copier[d] = "none"
    BY <1>5 DEF RoundTripAnswers, Reasons
  <2>2. ends["src"] # "shut"
    BY <1>5 DEF RoundTripAnswers, Closing, Conns
  <2>3. pc' = "relay" /\ copier' = [copier EXCEPT !["down"] = "copy"] /\ UNCHANGED <<open, ends>>
    BY <1>5 DEF RoundTripAnswers
  <2>4. copier'["down"] = "copy" /\ copier'["up"] = "none"
    BY <2>1, <2>3 DEF Dirs
  <2>5. QED
    BY <2>2, <2>3, <2>4 DEF Closing
<1>6. QED
  BY <1>1, <1>2, <1>3, <1>4, <1>5 DEF Handle

(* No step leaves a connection open behind a copy that is over.            *)
LEMMA ClosingStep == TypeOK /\ Reasons /\ Closing /\ [Next]_vars => Closing'
<1> SUFFICES ASSUME TypeOK, Reasons, Closing, [Next]_vars PROVE Closing'
  OBVIOUS
<1> USE DEF TypeOK, askVars, dialVars, dataVars, connVars
<1>1. CASE Handle \/ RoundTripAnswers
  BY <1>1, HandleCloses
<1>2. CASE UNCHANGED <<pc, copier, open, ends>>
  BY <1>2 DEF Closing
<1>3. ASSUME NEW d \in Dirs, CopyEnd(d) PROVE Closing'
  <2>1. /\ pc = "tunnel" /\ UNCHANGED <<pc, ends>>
        /\ copier' = [copier EXCEPT ![d] = "over"]
        /\ open' = [open EXCEPT ![Out(d)] = FALSE]
    BY <1>3 DEF CopyEnd
  <2>2. \A e \in Dirs : copier'[e] = "over" => ~open'[Out(e)]
    BY <2>1, Directions DEF Closing
  <2>3. QED
    BY <2>1, <2>2 DEF Closing
<1>4. CASE RelayEnd
  <2>1. /\ pc = "relay" /\ UNCHANGED <<pc, ends>>
        /\ copier' = [d \in Dirs |-> "over"]
        /\ open' = [c \in Conns |-> FALSE]
    BY <1>4 DEF RelayEnd
  <2>2. copier'["down"] = "over" /\ \A c \in Conns : ~open'[c]
    BY <2>1 DEF Dirs
  <2>3. QED
    BY <2>1, <2>2 DEF Closing
<1>5. ASSUME NEW c \in Conns, NEW s \in {"shut", "gone", "aborted"}, EndGoes(c, s),
             pc \in {"tunnel", "relay", "forward"},
             pc = "forward" => s = "aborted",
             pc = "relay" /\ c = "src" => s # "shut"
      PROVE  Closing'
  <2>1. ends' = [ends EXCEPT ![c] = s] /\ UNCHANGED <<pc, copier, open>>
    BY <1>5 DEF EndGoes
  <2>2. pc = "relay" => ends'["src"] # "shut"
    BY <1>5, <2>1 DEF Closing, Conns
  <2>3. pc = "forward" => \A k \in Conns : ends'[k] \in {"open", "aborted"}
    BY <1>5, <2>1 DEF Closing
  <2>4. QED
    BY <1>5, <2>1, <2>2, <2>3 DEF Closing
<1>6. ASSUME NEW d \in Dirs, Shut(d) PROVE Closing'
  <2>1. EndGoes(In(d), "shut") /\ Flows(d)
    BY <1>6 DEF Shut
  <2>2. QED
    BY <1>5, <2>1, Directions DEF Flows, In
<1>7. ASSUME NEW d \in Dirs, Leave(d) PROVE Closing'
  <2>1. EndGoes(Out(d), "gone") /\ copier[d] = "over"
    BY <1>7 DEF Leave, SawEnd, Reasons
  <2>2. pc \in {"tunnel", "relay"}
    BY <2>1 DEF Reasons
  <2>3. QED
    BY <1>5, <2>1, <2>2, Directions
<1>8. ASSUME NEW c \in Conns, Abort(c) PROVE Closing'
  BY <1>5, <1>8 DEF Abort
<1>9. QED
  BY <1>1, <1>2, <1>3, <1>4, <1>6, <1>7, <1>8
     DEF Next, Copy, CopyRead, CopyWrite, World, Send, SendTooLate, Receive, vars

(* A copy whose source has ended, or whose source's connection is closed,  *)
(* can go on unless it waits for a living receiver.                        *)
LEMMA GoesOn ==
  ASSUME TypeOK, NEW d \in Dirs, copier[d] = "copy", ends[In(d)] # "open" \/ ~open[In(d)]
  PROVE  CanCopy(d) \/ Stalled(d)
<1>1. CASE hand[d] = 1
  <2>1. far[d] < Room \/ far[d] = Room
    BY RoomAssumption DEF TypeOK
  <2>2. ends[Out(d)] = "aborted" => CopyStops(d)
    BY <1>1 DEF CopyStops
  <2>3. QED
    BY <1>1, <2>1, <2>2 DEF CanCopy, Stalled
<1>2. CASE hand[d] = 0
  <2>1. near[d] = 0 \/ near[d] > 0
    BY RoomAssumption DEF TypeOK
  <2>2. ~open[In(d)] => CopyStops(d)
    BY <1>2 DEF CopyStops
  <2>3. near[d] = 0 /\ ends[In(d)] # "open" => CopyStops(d)
    BY <1>2 DEF CopyStops
  <2>4. QED
    BY <1>2, <2>1, <2>2, <2>3 DEF CanCopy
<1>3. QED
  BY <1>1, <1>2 DEF TypeOK

(* The copies and the ends never all wait for one another, for any streams *)
(* and room: once an end has finished or died, a connection is only still  *)
(* open because a copy has something left to do or a living end does not   *)
(* read.                                                                   *)
THEOREM NeverWedged == Spec => []NotWedged
<1>1. Init => Closing
  BY DEF Init, Closing
<1>2. TypeOK /\ TunnelInv /\ Closing /\ [Next]_vars => Closing'
  BY ClosingStep DEF TunnelInv
<1>3. TypeOK /\ TunnelInv /\ Closing => NotWedged
  <2> SUFFICES ASSUME TypeOK, TunnelInv, Closing,
                      NEW c \in Conns, ends[c] # "open", NEW k \in Conns, open[k],
                      ~(pc = "forward" /\ \E x \in Conns : ends[x] = "aborted")
               PROVE  \E d \in Dirs : CanCopy(d) \/ Stalled(d)
    BY DEF NotWedged
  <2>1. pc \in {"tunnel", "relay"}
    BY DEF Closing, TypeOK
  <2>2. CASE pc = "tunnel"
    <3>1. PICK d \in Dirs : c = In(d)
      BY Directions
    <3>2. CASE copier[d] = "copy"
      BY <3>1, <3>2, GoesOn
    <3>3. CASE copier[d] # "copy"
      <4>1. ~open[Out(d)] /\ Other(d) \in Dirs /\ In(Other(d)) = Out(d) /\ Out(Other(d)) = In(d)
        BY <2>2, <3>3, Directions DEF Closing, TypeOK
      <4>2. k = In(d)
        BY <4>1, Directions DEF Conns, Dirs, In, Out
      <4>3. copier[Other(d)] = "copy"
        BY <2>2, <4>1, <4>2 DEF Closing, TypeOK
      <4>4. QED
        BY <4>1, <4>3, GoesOn
    <3>4. QED
      BY <3>2, <3>3
  <2>3. CASE pc = "relay"
    <3>1. copier["down"] = "copy" /\ copier["up"] = "none" /\ "down" \in Dirs
      BY <2>3 DEF Closing, TypeOK, Dirs
    <3>2. CASE c = "dst"
      BY <3>1, <3>2, GoesOn DEF In
    <3>3. CASE c = "src"
      <4>1. ends["src"] # "gone"
        BY <3>1 DEF TunnelInv, Reasons, Dirs, Out
      <4>2. ends["src"] = "aborted"
        BY <2>3, <3>3, <4>1 DEF Closing, TypeOK, Ends, Conns
      <4>3. CopyStops("down")
        BY <2>3, <4>2 DEF CopyStops, Out
      <4>4. QED
        BY <3>1, <4>3 DEF CanCopy
    <3>4. QED
      BY <3>2, <3>3 DEF Conns
  <2>4. QED
    BY <2>1, <2>2, <2>3
<1>4. QED
  BY <1>1, <1>2, <1>3, ProxyTyped, TunnelHolds, PTL DEF Spec

(* Every step of a copy leaves the two of them less to do.                 *)
LEMMA CopyLowers ==
  ASSUME TypeOK, NEW d \in Dirs, Copy(d)
  PROVE  Work' < Work
<1> USE DEF TypeOK, Dirs, Work, CopyWork, dataVars, connVars
<1>1. CASE CopyRead(d)
  BY <1>1 DEF CopyRead
<1>2. CASE CopyWrite(d)
  BY <1>2 DEF CopyWrite
<1>3. CASE CopyEnd(d)
  BY <1>3 DEF CopyEnd
<1>4. CASE RelayEnd
  BY <1>4 DEF RelayEnd
<1>5. QED
  BY <1>1, <1>2, <1>3, <1>4 DEF Copy

(* Once the copies run, what they have to do only falls, for streams of    *)
(* any length: with NeverWedged, a tunnel that stays open although an end  *)
(* has finished or died is one that a living end does not read.            *)
THEOREM CopiesEnd == Spec => CopiesRunOut
<1>1. ASSUME TypeOK, [Next]_vars
      PROVE  /\ pc \in {"tunnel", "relay"} => Work' =< Work
             /\ \A d \in Dirs : Copy(d) => Work' < Work
  <2> USE <1>1
  <2>0. Work \in Nat
    BY RoomAssumption DEF TypeOK, Dirs, Work, CopyWork
  <2>1. \A d \in Dirs : Copy(d) => Work' < Work
    BY CopyLowers
  <2> SUFFICES ASSUME pc \in {"tunnel", "relay"} PROVE Work' =< Work
    BY <2>1
  <2>2. ASSUME NEW d \in Dirs, Copy(d) PROVE Work' =< Work
    <3>1. Work' \in Int
      BY RoomAssumption, ProxyTypes DEF TypeOK, Dirs, Work, CopyWork
    <3>2. QED
      BY <2>0, <2>1, <2>2, <3>1
  <2>3. ASSUME NEW d \in Dirs, Send(d) PROVE Work' =< Work
    BY <2>3 DEF Send, TypeOK, Dirs, Work, CopyWork, connVars
  <2>4. CASE UNCHANGED <<left, near, hand, copier>>
    BY <2>0, <2>4 DEF Work, CopyWork
  <2>5. QED
    BY <2>2, <2>3, <2>4
       DEF Next, Handle, Request, DialNext, DialConnects, DialFails, HijackFails, Establish,
           RoundTripFails, RoundTripAnswers, World, SendTooLate, Receive, Shut, Leave, Abort,
           EndGoes, vars, dataVars, connVars
<1>2. QED
  BY <1>1, ProxyTyped, PTL DEF Spec, CopiesRunOut

---------------------------------------------------------------------------
(* isPublicIP's tests of bits are the blocks: an address passes them       *)
(* exactly if it is on the public internet.                                *)
THEOREM PublicIsRoutable == ASSUME NEW ip \in Ip PROVE IsPublic(ip) <=> Routable(ip)
<1> USE DEF Ip, Octets
<1>1. /\ ip[1] \in 0..255 /\ ip[2] \in 0..255 /\ ip[3] \in 0..255 /\ ip[4] \in 0..255
  OBVIOUS
<1>2. ip[1] \div 16 = 14 <=> ip[1] \in 224..239
  BY <1>1
<1>3. ip[2] \div 16 = 1 <=> ip[2] \in 16..31
  BY <1>1
<1>4. (ip[2] \div 64) * 64 = 64 <=> ip[2] \in 64..127
  BY <1>1
<1>5. (ip[2] \div 2) * 2 = 18 <=> ip[2] \in 18..19
  BY <1>1
<1>6. (\A i \in 1..4 : ip[i] = 0) => ip[1] = 0
  OBVIOUS
<1>7. QED
  BY <1>1, <1>2, <1>3, <1>4, <1>5, <1>6 DEF IsPublic, Special, Routable

LEMMA DialableIsReachable ==
  TypeOK => \A k \in DOMAIN addrs : Dialable(addrs[k]) <=> MayReach(addrs[k])
<1> SUFFICES ASSUME TypeOK, NEW k \in DOMAIN addrs PROVE Dialable(addrs[k]) <=> MayReach(addrs[k])
  OBVIOUS
<1>0. PICK n \in 1..MaxAddrs : addrs \in [1..n -> Ips]
  BY DEF TypeOK, Addrs
<1>1. addrs[k] \in Ip
  BY <1>0, HostsAssumption
<1>2. QED
  BY <1>1, PublicIsRoutable DEF Dialable, MayReach

(* What the handler knows of the host at each place of the dial.           *)
Known ==
    /\ tried <= Len(addrs)
    /\ pc \in Dialed \union {"dial"} => Allowed(host)
    /\ pc \in {"asked", "dial"} /\ lastErr = "private" =>
          \A k \in 1..tried : ~Dialable(addrs[k])
    /\ pc \in Dialed => tried < Len(addrs) /\ Dialable(addrs[tried + 1])
    /\ reply \in {"200", "relayed"} => pc \in Dialed

LEMMA AddrsAreSeq == \A a \in Addrs : Len(a) \in Nat /\ DOMAIN a = 1..Len(a)
BY DEF Addrs

LEMMA KnownStep ==
  ASSUME TypeOK, Known, Verdict, [Next]_vars
  PROVE  Known' /\ Verdict'
<1> USE DEF askVars, dialVars, Known, Verdict
<1>1. Len(addrs) \in Nat /\ DOMAIN addrs = 1..Len(addrs) /\ tried \in Nat
  BY AddrsAreSeq DEF TypeOK
<1>2. UNCHANGED <<host, addrs>>
  BY DEF Next, Handle, Request, DialNext, DialConnects, DialFails, HijackFails, Establish,
         RoundTripFails, RoundTripAnswers, Copy, CopyRead, CopyWrite, CopyEnd, RelayEnd,
         World, Send, SendTooLate, Receive, Shut, Leave, Abort, EndGoes, vars
<1>3. Allowed(host)' = Allowed(host)
  BY <1>2 DEF Allowed
<1>4. \A k : /\ Dialable(addrs[k])' = Dialable(addrs[k])
             /\ MayReach(addrs[k])' = MayReach(addrs[k])
  BY <1>2 DEF Dialable, MayReach, IsPublic, Special, Routable
<1>5. \A k \in DOMAIN addrs : Dialable(addrs[k]) <=> MayReach(addrs[k])
  BY DialableIsReachable
<1> USE DEF Dialed
<1>6. CASE Request
  BY <1>1, <1>2, <1>3, <1>4, <1>6 DEF Request, Answer
<1>7. CASE DialNext
  <2>1. \A k \in 1..tried' : k \in 1..tried \/ k = tried + 1
    BY <1>1, <1>7 DEF DialNext
  <2>2. QED
    BY <1>1, <1>2, <1>3, <1>4, <1>7, <2>1 DEF DialNext
<1>8. CASE DialConnects
  <2>1. tried + 1 \in DOMAIN addrs
    BY <1>1, <1>8 DEF DialConnects
  <2>2. QED
    BY <1>1, <1>2, <1>3, <1>4, <1>8, <2>1 DEF DialConnects
<1>9. CASE DialFails
  BY <1>1, <1>2, <1>3, <1>4, <1>5, <1>9 DEF DialFails, Answer, TypeOK
<1>10. CASE HijackFails \/ RoundTripFails
  BY <1>1, <1>2, <1>3, <1>4, <1>10 DEF HijackFails, RoundTripFails, Answer
<1>11. CASE Establish \/ RoundTripAnswers
  <2>1. tried + 1 \in DOMAIN addrs
    BY <1>1, <1>11 DEF Establish, RoundTripAnswers
  <2>2. QED
    BY <1>1, <1>2, <1>3, <1>4, <1>5, <1>11, <2>1 DEF Establish, RoundTripAnswers
<1>12. CASE UNCHANGED <<tried, lastErr, pc, reply>>
  BY <1>1, <1>2, <1>3, <1>4, <1>12
<1>13. QED
  BY <1>6, <1>7, <1>8, <1>9, <1>10, <1>11, <1>12
     DEF Next, Handle, Copy, CopyRead, CopyWrite, CopyEnd, RelayEnd, World, Send,
         SendTooLate, Receive, Shut, Leave, Abort, EndGoes, vars

(* A 403 is a host that is not listed or has private addresses only, and a *)
(* tunnel leads to a listed host's address that may be dialed, whatever    *)
(* the host resolves to.                                                   *)
THEOREM VerdictRight == Spec => []Verdict
<1>1. Init => Known /\ Verdict
  <2> SUFFICES ASSUME Init PROVE Known /\ Verdict
    OBVIOUS
  <2>1. Len(addrs) \in Nat
    BY AddrsAreSeq DEF Init
  <2>2. QED
    BY <2>1 DEF Init, Known, Dialed, Verdict
<1>2. QED
  BY <1>1, KnownStep, ProxyTyped, PTL DEF Spec
============================================================================
