------------------------------- MODULE Proxy -------------------------------
(***************************************************************************)
(* One request through the egress proxy (internal/proxy/proxy.go): the     *)
(* allowlist, the dial of the resolved addresses in turn, and then a       *)
(* tunnel or a relay.  The tunnel of a CONNECT is two io.Copy loops over   *)
(* two TCP connections: a goroutine copies src (the client in the sandbox) *)
(* to dst (the server) and closes dst, the handler copies dst to src and   *)
(* closes src.  A plain request is forwarded by http.Transport, and the    *)
(* handler copies the body of the answer: one io.Copy.  Data is counted in *)
(* chunks; a host is the sequence of its labels.                           *)
(***************************************************************************)
EXTENDS Integers, SequencesExt

CONSTANTS
    Allow,         \* the allowed domains
    Hosts,         \* the hosts a client may ask for
    Ips,           \* the IPv4 addresses a host may resolve to
    AllowPrivate,  \* whether private addresses may be dialed
    MaxAddrs,      \* bound: the most addresses a host resolves to
    MaxChunks,     \* bound: the most an end sends
    Room,          \* what one direction of a connection holds
    Faults         \* what may go wrong: see AllFaults

AllFaults == {"lookup",  \* a host does not resolve
              "dial",    \* an address does not answer in time
              "hijack",  \* the client's connection cannot be taken over
              "abort"}   \* an end dies in the middle of the exchange

(* A CONNECT, or a plain request whose answer announces its length or not. *)
Forms == {"connect", "sized", "chunked"}

Dirs == {"up", "down"}
Conns == {"src", "dst"}
Other(d) == IF d = "up" THEN "down" ELSE "up"
In(d)  == IF d = "up" THEN "src" ELSE "dst"   \* where a copy reads
Out(d) == IF d = "up" THEN "dst" ELSE "src"   \* where it writes

Octets == 0..255
Ip == [1..4 -> Octets]
Addrs == UNION {[1..n -> Ips] : n \in 1..MaxAddrs}

ASSUME HostsAssumption == AllowPrivate \in BOOLEAN /\ Hosts # {} /\ Ips \subseteq Ip
ASSUME RoomAssumption == Room \in Nat \ {0} /\ MaxChunks \in Nat /\ MaxAddrs \in Nat \ {0}
ASSUME FaultsAssumption == Faults \subseteq AllFaults

VARIABLES
    form,    \* the form of the request
    host,    \* the host of the request
    addrs,   \* the addresses it resolves to
    tried,   \* how many of them dial is done with
    lastErr, \* dial's error: "private" or "net"
    pc,      \* "asked", "dial", "hijack", "tunnel", "forward", "relay", "over"
    reply,   \* what the client was answered
    total,   \* total[d]: what the source of d has to send in all
    left,    \* left[d]: what it has not sent yet
    near,    \* near[d]: sent, and not read by the proxy
    hand,    \* hand[d]: read by the copy, and not written
    far,     \* far[d]: written by the proxy, and not received
    got,     \* got[d]: received
    copier,  \* copier[d]: "none", "copy", "over"
    open,    \* open[c]: the proxy has not closed its side of c (a relay: ended it)
    ends,    \* ends[c]: the other side of c: see Ends
    cut      \* cut[c]: c was reset, and the other side reads an error

askVars  == <<form, host, addrs, total>>
dialVars == <<tried, lastErr, reply>>
dataVars == <<left, near, hand, far, got>>
connVars == <<copier, open, ends, cut>>
vars == <<askVars, dialVars, pc, dataVars, connVars>>

(* "shut": has sent all and said so, and reads on; "gone": has left after  *)
(* the end of what it was sent; "aborted": died.                           *)
Ends == {"open", "shut", "gone", "aborted"}

TypeOK ==
    /\ form \in Forms /\ host \in Hosts /\ addrs \in Addrs /\ tried \in Nat
    /\ lastErr \in {"private", "net"}
    /\ pc \in {"asked", "dial", "hijack", "tunnel", "forward", "relay", "over"}
    /\ reply \in {"none", "200", "relayed", "403", "502", "error"}
    /\ total \in [Dirs -> 0..MaxChunks]
    /\ left \in [Dirs -> Nat]
    /\ near \in [Dirs -> 0..Room]
    /\ hand \in [Dirs -> 0..1]
    /\ far \in [Dirs -> 0..Room]
    /\ got \in [Dirs -> Nat]
    /\ copier \in [Dirs -> {"none", "copy", "over"}]
    /\ open \in [Conns -> BOOLEAN]
    /\ ends \in [Conns -> Ends]
    /\ cut \in [Conns -> BOOLEAN]

Nothing == [d \in Dirs |-> 0]

Init ==
    /\ form \in Forms /\ host \in Hosts /\ addrs \in Addrs /\ tried = 0
    /\ lastErr = "private"
    /\ pc = "asked" /\ reply = "none"
    /\ total \in [Dirs -> 0..MaxChunks] /\ (form # "connect" => total["up"] = 0)
    /\ left = total /\ near = Nothing /\ hand = Nothing /\ far = Nothing /\ got = Nothing
    /\ copier = [d \in Dirs |-> "none"]
    /\ open = [c \in Conns |-> c = "src"]
    /\ ends = [c \in Conns |-> "open"]
    /\ cut = [c \in Conns |-> FALSE]

---------------------------------------------------------------------------
(* The request: the allowlist, the lookup, the dial.                       *)

(* A listed domain and its subdomains.                                     *)
Allowed(h) == \E d \in Allow : IsSuffix(d, h)

Answer(code) == pc' = "over" /\ reply' = code

Request ==
    /\ pc = "asked"
    /\ \/ ~Allowed(host) /\ Answer("403")
       \/ Allowed(host) /\ "lookup" \in Faults /\ Answer("502")
       \/ Allowed(host) /\ pc' = "dial" /\ UNCHANGED reply
    /\ UNCHANGED <<askVars, tried, lastErr, dataVars, connVars>>

(* The library's own predicates: 0.0.0.0, loopback, private, link-local    *)
(* and multicast addresses.                                                *)
Special(ip) ==
    \/ \A i \in 1..4 : ip[i] = 0
    \/ ip[1] \in {127, 10} \/ ip[1] \div 16 = 14
    \/ ip[1] = 172 /\ ip[2] \div 16 = 1
    \/ ip[1] = 192 /\ ip[2] = 168
    \/ ip[1] = 169 /\ ip[2] = 254

(* Mutant: a range is taken for its first block.                           *)
PublicByBlock(ip) ==
    /\ ~Special(ip) /\ ip[1] # 0 /\ ip[1] < 240
    /\ ~(ip[1] = 100 /\ ip[2] = 64) /\ ~(ip[1] = 198 /\ ip[2] = 18)
    /\ ~(ip[1] = 192 /\ ip[2] = 0 /\ ip[3] = 0)

(* isPublicIP; x & 0xc0 = 64 keeps two bits of an octet, x & 0xfe = 18     *)
(* seven.                                                                  *)
IsPublic(ip) ==
    /\ ~Special(ip)
    /\ ip[1] # 0
    /\ ~(ip[1] = 100 /\ (ip[2] \div 64) * 64 = 64)
    /\ ~(ip[1] = 192 /\ ip[2] = 0 /\ ip[3] = 0)
    /\ ~(ip[1] = 198 /\ (ip[2] \div 2) * 2 = 18)
    /\ ip[1] < 240

Dialable(a) == AllowPrivate \/ IsPublic(a)

(* Mutant: the error of an address that does not answer is forgotten.      *)
DialForgets ==
    /\ pc = "dial" /\ tried < Len(addrs)
    /\ tried' = tried + 1
    /\ ~Dialable(addrs[tried + 1]) \/ "dial" \in Faults
    /\ UNCHANGED <<askVars, lastErr, reply, pc, dataVars, connVars>>

(* An address that may not be dialed is passed over; one that does not     *)
(* answer leaves its error.                                                *)
DialNext ==
    /\ pc = "dial" /\ tried < Len(addrs)
    /\ tried' = tried + 1
    /\ \/ ~Dialable(addrs[tried + 1]) /\ UNCHANGED lastErr
       \/ Dialable(addrs[tried + 1]) /\ "dial" \in Faults /\ lastErr' = "net"
    /\ UNCHANGED <<askVars, reply, pc, dataVars, connVars>>

DialConnects ==
    /\ pc = "dial" /\ tried < Len(addrs) /\ Dialable(addrs[tried + 1])
    /\ pc' = IF form = "connect" THEN "hijack" ELSE "forward"
    /\ open' = [open EXCEPT !["dst"] = TRUE]
    /\ UNCHANGED <<askVars, dialVars, dataVars, copier, ends, cut>>

DialFails ==
    /\ pc = "dial" /\ tried = Len(addrs)
    /\ Answer(IF lastErr = "private" THEN "403" ELSE "502")
    /\ UNCHANGED <<askVars, tried, lastErr, dataVars, connVars>>

HijackFails ==
    /\ pc = "hijack" /\ "hijack" \in Faults
    /\ Answer("error")
    /\ open' = [open EXCEPT !["dst"] = FALSE]
    /\ UNCHANGED <<askVars, tried, lastErr, dataVars, copier, ends, cut>>

(* The client is told, and both copies start.                              *)
Establish ==
    /\ pc = "hijack"
    /\ pc' = "tunnel" /\ reply' = "200"
    /\ copier' = [d \in Dirs |-> "copy"]
    /\ UNCHANGED <<askVars, tried, lastErr, dataVars, open, ends, cut>>

(* RoundTrip fails when the server dies before it answers, or the client,  *)
(* whose end cancels the request.                                          *)
RoundTripFails ==
    /\ pc = "forward" /\ \E c \in Conns : ends[c] = "aborted"
    /\ Answer("502")
    /\ open' = [c \in Conns |-> FALSE]
    /\ UNCHANGED <<askVars, tried, lastErr, dataVars, copier, ends, cut>>

(* The server answers: the status and the header are passed on.            *)
RoundTripAnswers ==
    /\ pc = "forward"
    /\ pc' = "relay" /\ reply' = "relayed"
    /\ copier' = [copier EXCEPT !["down"] = "copy"]
    /\ UNCHANGED <<askVars, tried, lastErr, dataVars, open, ends, cut>>

---------------------------------------------------------------------------
(* The copies.                                                             *)

CopyRead(d) ==
    /\ copier[d] = "copy" /\ hand[d] = 0 /\ near[d] > 0 /\ open[In(d)]
    /\ near' = [near EXCEPT ![d] = @ - 1]
    /\ hand' = [hand EXCEPT ![d] = 1]
    /\ UNCHANGED <<askVars, dialVars, pc, left, far, got, connVars>>

(* Mutant: a write never blocks.                                           *)
WriteUnbounded(d) ==
    /\ copier[d] = "copy" /\ hand[d] = 1
    /\ hand' = [hand EXCEPT ![d] = 0]
    /\ far' = [far EXCEPT ![d] = @ + 1]
    /\ UNCHANGED <<askVars, dialVars, pc, left, near, got, connVars>>

CopyWrite(d) ==
    /\ copier[d] = "copy" /\ hand[d] = 1 /\ far[d] < Room
    /\ hand' = [hand EXCEPT ![d] = 0]
    /\ far' = [far EXCEPT ![d] = @ + 1]
    /\ UNCHANGED <<askVars, dialVars, pc, left, near, got, connVars>>

(* Mutant: the end of the stream is noticed before what precedes it.       *)
EndsWhenTold(d) == hand[d] = 0 /\ (ends[In(d)] # "open" \/ ~open[In(d)])

(* A read meets the end of the stream, its connection closed by the other  *)
(* copy, or a reset; a write meets a dead end.  A read of the body of an   *)
(* answer also fails when the client has died.                             *)
CopyStops(d) ==
    \/ hand[d] = 0 /\ near[d] = 0 /\ ends[In(d)] # "open"
    \/ hand[d] = 0 /\ (~open[In(d)] \/ ends[In(d)] = "aborted")
    \/ (hand[d] = 1 \/ pc = "relay") /\ ends[Out(d)] = "aborted"

(* Mutant: a copy that is over leaves the connection it wrote to open.     *)
EndNoClose(d) ==
    /\ copier[d] = "copy" /\ CopyStops(d)
    /\ copier' = [copier EXCEPT ![d] = "over"]
    /\ UNCHANGED <<askVars, dialVars, pc, dataVars, open, ends, cut>>

(* A connection closed with input unread is reset, and what was written on *)
(* it last may be lost.                                                    *)
CopyEnd(d) ==
    /\ pc = "tunnel" /\ copier[d] = "copy" /\ CopyStops(d)
    /\ copier' = [copier EXCEPT ![d] = "over"]
    /\ open' = [open EXCEPT ![Out(d)] = FALSE]
    /\ \/ UNCHANGED cut
       \/ near[Other(d)] > 0 /\ cut' = [cut EXCEPT ![Out(d)] = TRUE]
    /\ UNCHANGED <<askVars, dialVars, pc, dataVars, ends>>

(* Mutant: an answer that is short of its length ends like a whole one.    *)
RelayEndsWell ==
    /\ pc = "relay" /\ copier["down"] = "copy" /\ CopyStops("down")
    /\ copier' = [d \in Dirs |-> "over"]
    /\ open' = [c \in Conns |-> FALSE]
    /\ UNCHANGED <<askVars, dialVars, pc, dataVars, ends, cut>>

(* Part of d's stream was not passed on.                                   *)
Short(d) == left[d] + near[d] + hand[d] > 0

(* The handler returns, whatever stopped the copy: the body is closed, and *)
(* net/http ends the answer, or cuts the client off if the answer is short *)
(* of the length it announced.                                             *)
RelayEnd ==
    /\ pc = "relay" /\ copier["down"] = "copy" /\ CopyStops("down")
    /\ copier' = [d \in Dirs |-> "over"]
    /\ open' = [c \in Conns |-> FALSE]
    /\ cut' = [cut EXCEPT !["src"] = form = "sized" /\ Short("down")]
    /\ UNCHANGED <<askVars, dialVars, pc, dataVars, ends>>

---------------------------------------------------------------------------
(* The two ends and the network.                                           *)

(* A plain request has no body, and its client only reads.                 *)
Flows(d) == pc = "tunnel" \/ (pc = "relay" /\ d = "down")

Send(d) ==
    /\ Flows(d) /\ ends[In(d)] = "open" /\ open[In(d)]
    /\ left[d] > 0 /\ near[d] < Room
    /\ left' = [left EXCEPT ![d] = @ - 1]
    /\ near' = [near EXCEPT ![d] = @ + 1]
    /\ UNCHANGED <<askVars, dialVars, pc, hand, far, got, connVars>>

(* What is sent on a connection the proxy has closed is answered by reset. *)
SendTooLate(d) ==
    /\ Flows(d) /\ ends[In(d)] = "open" /\ ~open[In(d)] /\ left[d] > 0
    /\ cut' = [cut EXCEPT ![In(d)] = TRUE]
    /\ UNCHANGED <<askVars, dialVars, pc, dataVars, copier, open, ends>>

Receive(d) ==
    /\ ends[Out(d)] \in {"open", "shut"} /\ ~cut[Out(d)] /\ far[d] > 0
    /\ far' = [far EXCEPT ![d] = @ - 1]
    /\ got' = [got EXCEPT ![d] = @ + 1]
    /\ UNCHANGED <<askVars, dialVars, pc, left, near, hand, connVars>>

(* The receiver of d has read to the end of the stream.                    *)
SawEnd(d) == copier[d] = "over" /\ ~open[Out(d)] /\ far[d] = 0 /\ ~cut[Out(d)]

EndGoes(c, s) == /\ ends' = [ends EXCEPT ![c] = s]
                 /\ UNCHANGED <<askVars, dialVars, pc, dataVars, copier, open, cut>>

Shut(d) == /\ Flows(d) /\ ends[In(d)] = "open" /\ left[d] = 0
           /\ EndGoes(In(d), "shut")

Leave(d) == /\ ends[Out(d)] \in {"open", "shut"}
            /\ SawEnd(d) \/ cut[Out(d)]
            /\ EndGoes(Out(d), "gone")

Abort(c) == /\ pc \in {"forward", "relay", "tunnel"} /\ "abort" \in Faults
            /\ ends[c] \in {"open", "shut"}
            /\ EndGoes(c, "aborted")

Handle == Request \/ DialNext \/ DialConnects \/ DialFails \/ HijackFails \/ Establish
          \/ RoundTripFails
Copy(d) == CopyRead(d) \/ CopyWrite(d) \/ CopyEnd(d) \/ (d = "down" /\ RelayEnd)
World(d) == Send(d) \/ SendTooLate(d) \/ Receive(d) \/ Shut(d) \/ Leave(d)

Next == Handle \/ RoundTripAnswers \/ (\E d \in Dirs : Copy(d) \/ World(d)) \/ (\E c \in Conns : Abort(c))

Spec == Init /\ [][Next]_vars

(* The handler and its goroutine run on; nothing is assumed of the ends,   *)
(* not that a server answers.                                              *)
LiveSpec == Spec /\ WF_vars(Handle) /\ \A d \in Dirs : WF_vars(Copy(d))

---------------------------------------------------------------------------
(* Properties.                                                             *)

(* The blocks of addresses that are not on the public internet.            *)
Routable(ip) ==
    /\ ip[1] \in 1..223 \ {10, 127}
    /\ ip[1] = 100 => ip[2] \notin 64..127
    /\ ip[1] = 169 => ip[2] # 254
    /\ ip[1] = 172 => ip[2] \notin 16..31
    /\ ip[1] = 192 => ip[2] # 168 /\ (ip[2] = 0 => ip[3] # 0)
    /\ ip[1] = 198 => ip[2] \notin 18..19

MayReach(a) == AllowPrivate \/ Routable(a)

(* "Refused even for allowed domains": a 403 means the host is not listed  *)
(* or has no address on the public internet; a tunnel or a relay means it  *)
(* is listed, and that the very address that was dialed is a public one;   *)
(* a public address that fails is a 502.                                   *)
Verdict ==
    /\ reply = "403" => ~Allowed(host) \/ \A k \in DOMAIN addrs : ~MayReach(addrs[k])
    /\ reply \in {"200", "relayed"} =>
          Allowed(host) /\ tried < Len(addrs) /\ MayReach(addrs[tried + 1])

(* An end that has not ended its own sending, facing one that did not die, *)
(* reads the end of the stream only after all that was sent to it: neither *)
(* copy closes a connection under the other before the exchange is over.   *)
(* A client also never takes an answer for whole whose server died in it,  *)
(* if the answer announced its length.                                     *)
WholeStream ==
    \A d \in Dirs :
        SawEnd(d) /\ ends[Out(d)] = "open"
        /\ (ends[In(d)] # "aborted" \/ (d = "down" /\ form = "sized")) => got[d] = total[d]

(* An end that is alive and does not read what fills its connection.       *)
Stalled(d) == /\ copier[d] = "copy" /\ hand[d] = 1 /\ far[d] = Room
              /\ ends[Out(d)] # "aborted"

(* A copy that can go on: there is something to read or room to write, or  *)
(* a reason to stop.                                                       *)
CanCopy(d) ==
    /\ copier[d] = "copy"
    /\ \/ hand[d] = 0 /\ near[d] > 0 /\ open[In(d)]
       \/ hand[d] = 1 /\ far[d] < Room
       \/ CopyStops(d)

(* The proxy's two copies and the two ends never all wait for one another: *)
(* while an end has finished or died and a connection is still open, the   *)
(* handler or a copy has a step to take, or an end that is alive does not  *)
(* read what fills its connection.  A copy that blocks on a read would     *)
(* otherwise hold a goroutine and a connection for ever.                   *)
NotWedged ==
    (\E c \in Conns : ends[c] # "open") /\ (\E c \in Conns : open[c])
    => \/ \E d \in Dirs : CanCopy(d) \/ Stalled(d)
       \/ pc = "forward" /\ \E c \in Conns : ends[c] = "aborted"

(* What the copies still have to do: each chunk is sent, read and written. *)
CopyWork(d) == 3 * left[d] + 2 * near[d] + hand[d] + (IF copier[d] = "copy" THEN 1 ELSE 0)
Work == CopyWork("up") + CopyWork("down")

(* From the start of a tunnel or a relay on, no step of anybody gives the  *)
(* copies more to do, and each of theirs leaves them less.                 *)
CopiesRunOut ==
    [][/\ pc \in {"tunnel", "relay"} => Work' =< Work
       /\ \A d \in Dirs : Copy(d) => Work' < Work]_vars

(* No connection and no goroutine is left over: when one end has finished  *)
(* or died, the copies end and close both connections, unless an end that  *)
(* is alive stops reading for ever (nothing has a deadline).               *)
TunnelCloses ==
    <>[](\A d \in Dirs : ~Stalled(d))
    => ((\E c \in Conns : ends[c] # "open") ~> (\A c \in Conns : ~open[c]))

---------------------------------------------------------------------------
(* The inductive invariant behind WholeStream.                             *)

Conserved ==
    \A d \in Dirs : left[d] + near[d] + hand[d] + far[d] + got[d] = total[d]

(* The source of d has sent all, and the proxy has passed all of it on.    *)
Finished(d) == left[d] = 0 /\ near[d] = 0 /\ hand[d] = 0 /\ ends[In(d)] # "open"

(* The places of the handler at which it has a connection to the server.   *)
Dialed == {"hijack", "tunnel", "forward", "relay"}

(* The first copy to end does so because a stream is finished or an end    *)
(* died, and only then is a connection closed or an end gone.              *)
Reasons ==
    /\ \A d \in Dirs : copier[d] = "over" =>
          (\E e \in Dirs : Finished(e)) \/ (\E c \in Conns : ends[c] = "aborted")
    /\ \A d \in Dirs : pc \in Dialed /\ copier[d] # "over" => open[Out(d)]
    /\ pc \in {"asked", "dial"} => open["src"]
    /\ \A d \in Dirs : ends[In(d)] = "shut" => left[d] = 0
    /\ \A d \in Dirs : ends[Out(d)] = "gone" \/ cut[Out(d)] => copier[d] = "over"
    /\ \A d \in Dirs : copier[d] # "none" => pc \in {"tunnel", "relay"}

(* Only a CONNECT is tunnelled, and a relay that is over and did not cut   *)
(* the client off has passed on all of an answer that announced its length. *)
Announced ==
    /\ pc \in {"hijack", "tunnel"} => form = "connect"
    /\ form = "sized" /\ copier["down"] = "over" /\ ~cut["src"] => ~Short("down")

TunnelInv == Conserved /\ Reasons /\ Announced

(* The inductive invariant behind NotWedged: a copy that is over has       *)
(* closed what it wrote to, and without one no end has finished.           *)
Closing ==
    /\ pc = "tunnel" => \A d \in Dirs : copier[d] # "none"
    /\ pc = "relay" => copier["down"] # "none" /\ ends["src"] # "shut"
    /\ pc = "tunnel" => \A d \in Dirs : copier[d] = "over" => ~open[Out(d)]
    /\ pc = "relay" /\ copier["down"] = "over" => \A c \in Conns : ~open[c]
    /\ pc = "relay" /\ copier["down"] # "over" => copier["up"] = "none"
    /\ pc = "forward" => \A c \in Conns : ends[c] \in {"open", "aborted"}
    /\ pc \in {"asked", "dial", "hijack", "over"} =>
          (\A c \in Conns : ends[c] = "open") \/ (\A c \in Conns : ~open[c])
============================================================================
