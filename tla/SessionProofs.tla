--------------------------- MODULE SessionProofs ----------------------------
(***************************************************************************)
(* The filename exchange: the theorems, for every set of rcopies, every    *)
(* number of forks, every retry bound and channel capacity, with or        *)
(* without loss and failing sends, and whichever rcopies' PDUs add up.     *)
(***************************************************************************)
EXTENDS Session, DatagramsProofs, FiniteSetTheorems

\* The states in which rcopy has taken a child's address for its server's.
Talking == {"FILE_VALID", "AWAIT_ACK", "GET_DATA"}

\* The states of a child that has not answered yet.
Undecided == {"TALK_HERE", "GET_FILENAME"}

\* Who a process works for: a process that is free has no peer, the main server
\* never gets one, and only a child that opened the file sends data.
PeerInv ==
  /\ proc[Main] \in {"MAIN", "EXITED"} /\ peer[Main] = "none"
  /\ \A q \in Forks : /\ proc[q] = "free" <=> peer[q] = "none"
                      /\ q \in opened => proc[q] \in {"SEND_DATA", "MAIN", "EXITED"}
                      /\ proc[q] = "SEND_DATA" => q \in opened

\* What is on its way to an rcopy comes from its own children, and an answer
\* about the file tells what became of fopen.
Honest(r, m) ==
  /\ peer[m.from] = r
  /\ m.flag \in {TalkHereFlag, FileOkFlag, FileBadFlag, DataFlag}
  /\ m.flag = FileOkFlag => m.from \in opened
  /\ m.flag = FileBadFlag => m.from \notin opened /\ proc[m.from] \notin Undecided

ServeInv ==
  \A r \in Clients :
    /\ \A m \in BagToSet(cin[r]) : Honest(r, m)
    /\ cpc[r] \in Talking => peer[server[r]] = r
    /\ cpc[r] = "GET_DATA" => server[r] \in opened

\* Where PDUs to a child come from: nobody but the rcopy it was forked for ever
\* learns its address.
SenderInv ==
  /\ \A q \in Forks : \A m \in BagToSet(pin[q]) : m.from = peer[q]
  /\ \A r \in Clients : server[r] = Main \/ peer[server[r]] = r

CountInv ==
  \A r \in Clients \ Cancelling :
    /\ IsFiniteSet(Children(r)) /\ IsFiniteSet(Unread(r))
    /\ Cardinality(Children(r)) + Cardinality(Unread(r)) <= requests[r]

\* The first child of an rcopy that sent its filename once: what it has still to
\* send, what is under way and what rcopy has taken add up to one of each.
Once(r, q) ==
  /\ Copies(PDU(TalkHereFlag, q), cin[r])
       <= IF proc[q] = "TALK_HERE" \/ cpc[r] \in Talking THEN 0 ELSE 1
  /\ cpc[r] \in Talking => proc[q] # "TALK_HERE"
  /\ Copies(PDU(FileOkFlag, q), cin[r])
       <= IF proc[q] \in Undecided \/ cpc[r] = "GET_DATA" THEN 0 ELSE 1

OnceInv ==
  \A r \in Clients \ Cancelling : requests[r] <= 1 => \A q \in Children(r) : Once(r, q)

IInv == SessionTypeOK /\ PeerInv /\ ServeInv /\ SenderInv /\ CountInv /\ OnceInv

-----------------------------------------------------------------------------
(* What the sends and receives of a step do to the sockets.                *)

\* The main server is no child.
LEMMA ForksAreProcs == Main \notin Forks /\ Main \in Procs /\ Forks \subseteq Procs
  BY SessionAssumption DEF Main, Procs

\* A PDU that is made has its flag and its sender.
LEMMA PDUType ==
  \A f, from : PDU(f, from) = [flag |-> f, from |-> from]
                 /\ PDU(f, from).flag = f /\ PDU(f, from).from = from
  BY DEF PDU

\* A send of a child adds one PDU to its rcopy's socket, or none.
LEMMA ClientSent ==
  ASSUME SessionTypeOK, NEW r \in Clients, NEW m, ToClient(r, m)
  PROVE  /\ DOMAIN cin' = Clients
         /\ \A x \in Clients : x # r => cin'[x] = cin[x]
         /\ IsABag(cin'[r]) /\ BagToSet(cin'[r]) \subseteq BagToSet(cin[r]) \cup {m}
         /\ cpc[r] = "DONE" => cin'[r] = EmptyBag
<1>1. DOMAIN cin = Clients /\ IsABag(cin[r])
  BY DEF SessionTypeOK, CinTypeOK
<1>2. PICK q : /\ cin' = [cin EXCEPT ![r] = q]
               /\ q \in IF cpc[r] = "DONE" THEN {EmptyBag} ELSE sendtoErr(cin[r], m)
  BY DEF ToClient
<1>3. DOMAIN cin' = Clients /\ cin'[r] = q /\ \A x \in Clients : x # r => cin'[x] = cin[x]
  BY <1>1, <1>2
<1> QED
  BY <1>1, <1>2, <1>3, NothingSent, SendCounts, SendAdds

\* It adds at most one copy, of what is sent.
LEMMA ClientCopies ==
  ASSUME SessionTypeOK, NEW r \in Clients, NEW m, ToClient(r, m), NEW k
  PROVE  /\ Copies(k, cin[r]) \in Nat /\ Copies(k, cin'[r]) \in Nat
         /\ Copies(k, cin'[r]) <= Copies(k, cin[r]) + 1
         /\ k # m => Copies(k, cin'[r]) <= Copies(k, cin[r])
<1>1. DOMAIN cin = Clients /\ IsABag(cin[r]) /\ IsABag(cin'[r])
  BY ClientSent DEF SessionTypeOK, CinTypeOK
<1>2. Copies(k, cin[r]) \in Nat /\ Copies(k, cin'[r]) \in Nat
  BY <1>1, CopiesType
<1>3. cin'[r] = EmptyBag \/ cin'[r] \in sendtoErr(cin[r], m)
  BY <1>1 DEF ToClient
<1>4. CASE cin'[r] = EmptyBag
  <2>1. Copies(k, cin'[r]) = 0
    BY <1>4, NothingSent
  <2> QED
    BY <1>2, <2>1
<1>5. CASE cin'[r] \in sendtoErr(cin[r], m)
  <2>1. /\ k # m => Copies(k, cin'[r]) = Copies(k, cin[r])
        /\ Copies(m, cin'[r]) \in {Copies(m, cin[r]), Copies(m, cin[r]) + 1}
    BY <1>1, <1>5, SendCounts
  <2>2. CASE k = m
    BY <1>2, <2>1, <2>2
  <2>3. CASE k # m
    BY <1>2, <2>1, <2>3
  <2> QED
    BY <2>2, <2>3
<1> QED
  BY <1>3, <1>4, <1>5

\* A send of rcopy adds one PDU to a process's socket, or none.
LEMMA ServerSent ==
  ASSUME SessionTypeOK, NEW p \in Procs, NEW m, ToServer(p, m)
  PROVE  /\ DOMAIN pin' = Procs
         /\ \A x \in Procs : x # p => pin'[x] = pin[x]
         /\ IsABag(pin'[p]) /\ BagToSet(pin'[p]) \subseteq BagToSet(pin[p]) \cup {m}
         /\ proc[p] \in {"free", "EXITED"} => pin'[p] = EmptyBag
<1>1. DOMAIN pin = Procs /\ IsABag(pin[p])
  BY DEF SessionTypeOK, PinTypeOK
<1>2. PICK q : /\ pin' = [pin EXCEPT ![p] = q]
               /\ q \in IF proc[p] \in {"free", "EXITED"} THEN {EmptyBag}
                        ELSE sendtoErr(pin[p], m)
  BY DEF ToServer
<1>3. DOMAIN pin' = Procs /\ pin'[p] = q /\ \A x \in Procs : x # p => pin'[x] = pin[x]
  BY <1>1, <1>2
<1> QED
  BY <1>1, <1>2, <1>3, NothingSent, SendCounts, SendAdds

\* It adds at most one copy, of what is sent.
LEMMA ServerCopies ==
  ASSUME SessionTypeOK, NEW p \in Procs, NEW m, ToServer(p, m), NEW k
  PROVE  /\ Copies(k, pin[p]) \in Nat /\ Copies(k, pin'[p]) \in Nat
         /\ Copies(k, pin'[p]) <= Copies(k, pin[p]) + 1
         /\ k # m => Copies(k, pin'[p]) <= Copies(k, pin[p])
<1>1. DOMAIN pin = Procs /\ IsABag(pin[p]) /\ IsABag(pin'[p])
  BY ServerSent DEF SessionTypeOK, PinTypeOK
<1>2. Copies(k, pin[p]) \in Nat /\ Copies(k, pin'[p]) \in Nat
  BY <1>1, CopiesType
<1>3. pin'[p] = EmptyBag \/ pin'[p] \in sendtoErr(pin[p], m)
  BY <1>1 DEF ToServer
<1>4. CASE pin'[p] = EmptyBag
  <2>1. Copies(k, pin'[p]) = 0
    BY <1>4, NothingSent
  <2> QED
    BY <1>2, <2>1
<1>5. CASE pin'[p] \in sendtoErr(pin[p], m)
  <2>1. /\ k # m => Copies(k, pin'[p]) = Copies(k, pin[p])
        /\ Copies(m, pin'[p]) \in {Copies(m, pin[p]), Copies(m, pin[p]) + 1}
    BY <1>1, <1>5, SendCounts
  <2>2. CASE k = m
    BY <1>2, <2>1, <2>2
  <2>3. CASE k # m
    BY <1>2, <2>1, <2>3
  <2> QED
    BY <2>2, <2>3
<1> QED
  BY <1>3, <1>4, <1>5

\* A receive of rcopy takes one copy of a PDU out of its socket.
LEMMA ClientTook ==
  ASSUME SessionTypeOK, NEW r \in Clients, NEW m \in BagToSet(cin[r]), ClientTakes(r, m)
  PROVE  /\ DOMAIN cin' = Clients
         /\ \A x \in Clients : x # r => cin'[x] = cin[x]
         /\ IsABag(cin'[r]) /\ BagToSet(cin'[r]) \subseteq BagToSet(cin[r])
         /\ \A k : /\ Copies(k, cin[r]) \in Nat /\ Copies(k, cin'[r]) \in Nat
                  /\ Copies(k, cin'[r]) <= Copies(k, cin[r])
         /\ Copies(m, cin'[r]) = Copies(m, cin[r]) - 1
<1>1. DOMAIN cin = Clients /\ IsABag(cin[r])
  BY DEF SessionTypeOK, CinTypeOK, PinTypeOK
<1>2. /\ DOMAIN cin' = Clients /\ cin'[r] = recvfrom(cin[r], m)
      /\ \A x \in Clients : x # r => cin'[x] = cin[x]
  BY <1>1 DEF ClientTakes
<1>3. /\ IsABag(cin'[r]) /\ \A k : k # m => Copies(k, cin'[r]) = Copies(k, cin[r])
      /\ Copies(m, cin'[r]) = Copies(m, cin[r]) - 1
      /\ BagToSet(cin'[r]) \subseteq BagToSet(cin[r])
  BY <1>1, <1>2, ReceiveCounts, ReceiveTakes
<1>4. \A k : Copies(k, cin[r]) \in Nat /\ Copies(k, cin'[r]) \in Nat
  BY <1>1, <1>3, CopiesType
<1> QED
  BY <1>2, <1>3, <1>4

\* A receive of a process takes one copy of a PDU out of its socket.
LEMMA ProcTook ==
  ASSUME SessionTypeOK, NEW p \in Procs, NEW m \in BagToSet(pin[p]), ProcTakes(p, m)
  PROVE  /\ DOMAIN pin' = Procs
         /\ \A x \in Procs : x # p => pin'[x] = pin[x]
         /\ IsABag(pin'[p]) /\ BagToSet(pin'[p]) \subseteq BagToSet(pin[p])
         /\ \A k : /\ Copies(k, pin[p]) \in Nat /\ Copies(k, pin'[p]) \in Nat
                  /\ Copies(k, pin'[p]) <= Copies(k, pin[p])
         /\ Copies(m, pin'[p]) = Copies(m, pin[p]) - 1
         /\ proc[p] \notin {"free", "EXITED"}
<1>1. DOMAIN pin = Procs /\ IsABag(pin[p])
  BY DEF SessionTypeOK, CinTypeOK, PinTypeOK
<1>2. /\ DOMAIN pin' = Procs /\ pin'[p] = recvfrom(pin[p], m)
      /\ \A x \in Procs : x # p => pin'[x] = pin[x]
  BY <1>1 DEF ProcTakes
<1>3. /\ IsABag(pin'[p]) /\ \A k : k # m => Copies(k, pin'[p]) = Copies(k, pin[p])
      /\ Copies(m, pin'[p]) = Copies(m, pin[p]) - 1
      /\ BagToSet(pin'[p]) \subseteq BagToSet(pin[p])
  BY <1>1, <1>2, ReceiveCounts, ReceiveTakes
<1>4. \A k : Copies(k, pin[p]) \in Nat /\ Copies(k, pin'[p]) \in Nat
  BY <1>1, <1>3, CopiesType
<1>5. proc[p] \notin {"free", "EXITED"}
  BY NothingSent DEF SessionTypeOK, PinTypeOK
<1> QED
  BY <1>2, <1>3, <1>4, <1>5

-----------------------------------------------------------------------------
(* Types.                                                                  *)

\* The state of an rcopy that leaves, and of its socket.
LEMMA LeaveType ==
  ASSUME SessionTypeOK, NEW r \in Clients, Leave(r),
         server' \in [Clients -> Procs], UNCHANGED requests
  PROVE  /\ ClientTypeOK' /\ CinTypeOK'
         /\ cpc' = [cpc EXCEPT ![r] = "DONE"] /\ cin'[r] = EmptyBag
         /\ \A x \in Clients : x # r => cin'[x] = cin[x]
<1>1. ClientTypeOK /\ CinTypeOK
  BY DEF SessionTypeOK
<1>2. cpc' = [cpc EXCEPT ![r] = "DONE"] /\ tries' = [tries EXCEPT ![r] = 0]
  BY DEF Leave, Goto
<1>3. ClientTypeOK'
  BY <1>1, <1>2, SessionAssumption DEF ClientTypeOK
<1>4. /\ DOMAIN cin' = Clients /\ cin'[r] = EmptyBag
      /\ \A x \in Clients : x # r => cin'[x] = cin[x]
  BY <1>1 DEF Leave, CinTypeOK
<1>5. CinTypeOK'
  BY <1>1, <1>2, <1>4, NothingSent DEF CinTypeOK, ClientTypeOK
<1> QED
  BY <1>2, <1>3, <1>4, <1>5

\* A try of FILE_VALID stays within its loop.
LEMMA NextTryType ==
  ASSUME SessionTypeOK, NEW r \in Clients, NextTry(r),
         server' \in [Clients -> Procs], UNCHANGED requests
  PROVE  /\ ClientTypeOK' /\ cpc'[r] \in {cpc[r], "SEND_FILENAME"}
         /\ \A x \in Clients : x # r => cpc'[x] = cpc[x]
  BY SessionAssumption DEF SessionTypeOK, ClientTypeOK, NextTry, Goto

\* A receive that does not end rcopy keeps the types of the sockets.
LEMMA CinTakeType ==
  ASSUME SessionTypeOK, NEW r \in Clients, NEW m \in BagToSet(cin[r]), ClientTakes(r, m),
         \A x \in Clients : cpc'[x] = "DONE" => cpc[x] = "DONE"
  PROVE  CinTypeOK'
<1>1. CinTypeOK
  BY DEF SessionTypeOK
<1>2. cpc[r] # "DONE"
  BY <1>1, NothingSent DEF CinTypeOK
<1> QED
  BY <1>1, <1>2, ClientTook DEF CinTypeOK

\* So does a send to an rcopy.
LEMMA CinSendType ==
  ASSUME SessionTypeOK, NEW r \in Clients, NEW f \in Flags, NEW q \in Procs,
         ToClient(r, PDU(f, q)), UNCHANGED cpc
  PROVE  CinTypeOK'
<1>1. CinTypeOK
  BY DEF SessionTypeOK
<1>2. PDU(f, q) \in [flag : Flags, from : Procs]
  BY DEF PDU
<1> QED
  BY <1>1, <1>2, ClientSent DEF CinTypeOK

\* A send to a process.
LEMMA PinSendType ==
  ASSUME SessionTypeOK, NEW p \in Procs, NEW f \in Flags, NEW r \in Clients,
         ToServer(p, PDU(f, r)), UNCHANGED proc
  PROVE  PinTypeOK'
<1>1. PinTypeOK
  BY DEF SessionTypeOK
<1>2. PDU(f, r) \in [flag : Flags, from : Clients]
  BY DEF PDU
<1> QED
  BY <1>1, <1>2, ServerSent DEF PinTypeOK

\* A receive of a process that ends nobody.
LEMMA PinTakeType ==
  ASSUME SessionTypeOK, NEW p \in Procs, NEW m \in BagToSet(pin[p]), ProcTakes(p, m),
         \A x \in Procs : proc'[x] \in {"free", "EXITED"} => proc'[x] = proc[x]
  PROVE  PinTypeOK'
<1>1. PinTypeOK
  BY DEF SessionTypeOK
<1> QED
  BY <1>1, ProcTook DEF PinTypeOK

\* A process that exits.
LEMMA ExitType ==
  ASSUME SessionTypeOK, NEW p \in Procs, Exit(p)
  PROVE  /\ PinTypeOK' /\ sigchld' \subseteq Procs
         /\ proc' = [proc EXCEPT ![p] = "EXITED"] /\ pin'[p] = EmptyBag
         /\ \A x \in Procs : x # p => pin'[x] = pin[x]
<1>1. PinTypeOK /\ ProcTypeOK
  BY DEF SessionTypeOK
<1>2. /\ DOMAIN pin' = Procs /\ pin'[p] = EmptyBag
      /\ \A x \in Procs : x # p => pin'[x] = pin[x]
      /\ proc' = [proc EXCEPT ![p] = "EXITED"]
  BY <1>1 DEF Exit, Become, PinTypeOK
<1>3. PinTypeOK'
  BY <1>1, <1>2, NothingSent DEF PinTypeOK, ProcTypeOK
<1>4. sigchld' \subseteq Procs
  BY <1>1 DEF Exit, ProcTypeOK
<1> QED
  BY <1>2, <1>3, <1>4

\* The types hold at first.
LEMMA TypeInit == Init => SessionTypeOK
<1> SUFFICES ASSUME Init PROVE SessionTypeOK
  OBVIOUS
<1>1. ClientTypeOK
  BY SessionAssumption, ForksAreProcs DEF Init, ClientTypeOK
<1>2. ProcTypeOK
  BY SessionAssumption, ForksAreProcs DEF Init, ProcTypeOK
<1>3. CinTypeOK /\ PinTypeOK
  BY NothingSent DEF Init, CinTypeOK, PinTypeOK
<1> QED
  BY <1>1, <1>2, <1>3 DEF SessionTypeOK

\* Every step of an rcopy keeps the types.
LEMMA ClientTypeStep ==
  ASSUME SessionTypeOK, NEW r \in Clients, ClientNext(r)
  PROVE  SessionTypeOK'
<1>1. ClientTypeOK /\ ProcTypeOK /\ CinTypeOK /\ PinTypeOK
  BY DEF SessionTypeOK
<1>2. UNCHANGED procVars
  BY DEF ClientNext, SendFilename, FilenameTimeout, CheckDestFile, AckTimeout, DataReply,
         DataOver, FilenameReply, AckReply, DataReceive, clientVars
<1>3. UNCHANGED <<proc, parent, peer, eretries, sigchld, opened>>
  BY <1>2 DEF procVars
<1>4. ProcTypeOK'
  BY <1>1, <1>3 DEF ProcTypeOK
<1>5. server[r] \in Procs /\ server \in [Clients -> Procs]
  BY <1>1 DEF ClientTypeOK
<1>6. /\ UNCHANGED pin => PinTypeOK'
      /\ UNCHANGED <<cin, cpc>> => CinTypeOK'
  BY <1>1, <1>3 DEF PinTypeOK, CinTypeOK
<1>7. FilenameFlag \in Flags /\ TalkHereFlag \in Flags /\ ControlFlag \in Flags
  BY DEF Flags
<1>8. SUFFICES ClientTypeOK' /\ CinTypeOK' /\ PinTypeOK'
  BY <1>4 DEF SessionTypeOK
<1>a. CASE SendFilename(r)
  <2>1. CASE ToServer(server[r], PDU(FilenameFlag, r)) /\ Goto(r, "AWAIT_TALK_HERE")
             /\ requests' = [requests EXCEPT ![r] = @ + 1] /\ UNCHANGED <<tries, server, cin>>
    <3>1. PinTypeOK'
      BY <1>3, <1>5, <1>7, <2>1, PinSendType
    <3>2. ClientTypeOK' /\ CinTypeOK'
      BY <1>1, <2>1 DEF ClientTypeOK, CinTypeOK, Goto
    <3> QED
      BY <3>1, <3>2
  <2>2. CASE Leave(r) /\ UNCHANGED <<pin, requests, server>>
    BY <1>5, <1>6, <2>2, LeaveType
  <2> QED
    BY <1>a, <2>1, <2>2 DEF SendFilename
<1>b. CASE FilenameTimeout(r)
  <2>1. CASE Leave(r) /\ UNCHANGED <<pin, requests, server>>
    BY <1>5, <1>6, <2>1, LeaveType
  <2>2. CASE /\ tries[r] + 1 < SendTries /\ tries' = [tries EXCEPT ![r] = @ + 1]
             /\ Goto(r, "SEND_FILENAME") /\ UNCHANGED <<cin, server, requests, pin>>
    <3>1. ClientTypeOK'
      BY <1>1, <2>2, SessionAssumption DEF ClientTypeOK, Goto
    <3>2. CinTypeOK'
      BY <1>1, <2>2 DEF ClientTypeOK, CinTypeOK, Goto
    <3> QED
      BY <1>6, <2>2, <3>1, <3>2
  <2> QED
    BY <1>b, <2>1, <2>2 DEF FilenameTimeout
<1>c. CASE CheckDestFile(r)
  <2>1. CASE Leave(r) /\ UNCHANGED <<pin, requests, server>>
    BY <1>5, <1>6, <2>1, LeaveType
  <2>2. CASE Goto(r, "AWAIT_ACK") /\ UNCHANGED <<tries, cin, server, requests, pin>>
    BY <1>1, <1>6, <2>2 DEF ClientTypeOK, CinTypeOK, Goto
  <2> QED
    BY <1>c, <2>1, <2>2 DEF CheckDestFile
<1>d. CASE AckTimeout(r)
  <2>1. /\ cpc[r] = "AWAIT_ACK" /\ NextTry(r) /\ UNCHANGED <<server, requests, cin, pin>>
    BY <1>d DEF AckTimeout
  <2>2. ClientTypeOK' /\ \A x \in Clients : cpc'[x] = "DONE" => cpc[x] = "DONE"
    BY <1>5, <2>1, NextTryType
  <2>3. CinTypeOK'
    BY <1>1, <2>1, <2>2 DEF CinTypeOK
  <2> QED
    BY <1>6, <2>1, <2>2, <2>3
<1>e. CASE DataReply(r)
  <2>1. ToServer(server[r], PDU(ControlFlag, r)) /\ UNCHANGED <<cpc, tries, server, requests, cin>>
    BY <1>e DEF DataReply, clientVars
  <2>2. PinTypeOK'
    BY <1>3, <1>5, <1>7, <2>1, PinSendType
  <2> QED
    BY <1>1, <1>6, <2>1, <2>2 DEF ClientTypeOK
<1>f. CASE DataOver(r)
  BY <1>5, <1>6, <1>f, LeaveType DEF DataOver
<1>g. ASSUME NEW m \in BagToSet(cin[r]), FilenameReply(r, m)
      PROVE  ClientTypeOK' /\ CinTypeOK' /\ PinTypeOK'
  <2>1. server' \in [Clients -> Procs] /\ UNCHANGED <<requests, pin>>
    BY <1>1, <1>g DEF FilenameReply, CinTypeOK, ClientTypeOK
  <2>2. CASE Leave(r)
    BY <1>6, <2>1, <2>2, LeaveType
  <2>3. CASE /\ Goto(r, "FILE_VALID") /\ tries' = [tries EXCEPT ![r] = 0]
             /\ ClientTakes(r, m)
    <3>1. ClientTypeOK' /\ \A x \in Clients : cpc'[x] = "DONE" => cpc[x] = "DONE"
      BY <1>1, <2>1, <2>3, SessionAssumption DEF ClientTypeOK, Goto
    <3> QED
      BY <1>6, <2>1, <2>3, <3>1, CinTakeType
  <2> QED
    BY <1>g, <2>2, <2>3 DEF FilenameReply
<1>h. ASSUME NEW m \in BagToSet(cin[r]), AckReply(r, m)
      PROVE  ClientTypeOK' /\ CinTypeOK' /\ PinTypeOK'
  <2>1. server' \in [Clients -> Procs] /\ m.from \in Procs /\ UNCHANGED requests
        /\ cpc[r] = "AWAIT_ACK"
    BY <1>1, <1>h DEF AckReply, CinTypeOK, ClientTypeOK
  <2>2. CASE /\ Goto(r, "GET_DATA") /\ tries' = [tries EXCEPT ![r] = 0]
             /\ ClientTakes(r, m) /\ UNCHANGED pin
    <3>1. ClientTypeOK' /\ \A x \in Clients : cpc'[x] = "DONE" => cpc[x] = "DONE"
      BY <1>1, <2>1, <2>2, SessionAssumption DEF ClientTypeOK, Goto
    <3> QED
      BY <1>6, <2>2, <3>1, CinTakeType
  <2>3. CASE /\ ToServer(m.from, PDU(TalkHereFlag, r)) \/ UNCHANGED pin
             /\ Leave(r)
    <3>1. PinTypeOK'
      BY <1>3, <1>6, <1>7, <2>1, <2>3, PinSendType
    <3> QED
      BY <2>1, <2>3, <3>1, LeaveType
  <2>4. CASE NextTry(r) /\ ClientTakes(r, m) /\ UNCHANGED pin
    <3>1. ClientTypeOK' /\ \A x \in Clients : cpc'[x] = "DONE" => cpc[x] = "DONE"
      BY <2>1, <2>4, NextTryType
    <3> QED
      BY <1>6, <2>4, <3>1, CinTakeType
  <2> QED
    BY <1>h, <2>2, <2>3, <2>4 DEF AckReply
<1>i. ASSUME NEW m \in BagToSet(cin[r]), DataReceive(r, m)
      PROVE  ClientTypeOK' /\ CinTypeOK' /\ PinTypeOK'
  <2>1. ClientTakes(r, m) /\ UNCHANGED <<cpc, tries, server, requests, pin>>
    BY <1>i DEF DataReceive, clientVars
  <2> QED
    BY <1>1, <1>6, <2>1, CinTakeType DEF ClientTypeOK
<1> QED
  BY <1>a, <1>b, <1>c, <1>d, <1>e, <1>f, <1>g, <1>h, <1>i DEF ClientNext

\* Every step of a process keeps the types.
LEMMA ProcTypeStep ==
  ASSUME SessionTypeOK, PeerInv, NEW p \in Procs, ProcNext(p)
  PROVE  SessionTypeOK'
<1>1. ClientTypeOK /\ ProcTypeOK /\ CinTypeOK /\ PinTypeOK
  BY DEF SessionTypeOK
<1>2. UNCHANGED <<cpc, tries, server, requests>>
  BY DEF ProcNext, TalkHere, OpenSource, ErrTimeout, SendData, DataEnd, Sigchld, Request,
         BadChecksum, ErrAck, TakeControl, clientVars
<1>3. ClientTypeOK'
  BY <1>1, <1>2 DEF ClientTypeOK
<1>4. /\ UNCHANGED cin => CinTypeOK'
      /\ UNCHANGED <<pin, proc>> => PinTypeOK'
      /\ UNCHANGED procVars => ProcTypeOK'
  BY <1>1, <1>2 DEF CinTypeOK, PinTypeOK, ProcTypeOK, procVars
<1>5. SUFFICES ProcTypeOK' /\ CinTypeOK' /\ PinTypeOK'
  BY <1>3 DEF SessionTypeOK
<1>6. {TalkHereFlag, FileOkFlag, FileBadFlag, DataFlag} \subseteq Flags
  BY DEF Flags
<1>7. proc[p] \in {"TALK_HERE", "GET_FILENAME", "SEND_DATA"} => p \in Forks /\ peer[p] \in Clients
  BY <1>1, ForksAreProcs DEF PeerInv, ProcTypeOK, Procs
<1>a. CASE TalkHere(p)
  <2>1. ProcTypeOK' /\ PinTypeOK'
    BY <1>1, <1>a DEF TalkHere, Become, ProcTypeOK, PinTypeOK
  <2>2. CinTypeOK'
    BY <1>2, <1>4, <1>6, <1>7, <1>a, CinSendType DEF TalkHere
  <2> QED
    BY <2>1, <2>2
<1>b. CASE OpenSource(p)
  <2>1. ProcTypeOK' /\ PinTypeOK'
    BY <1>1, <1>7, <1>b DEF OpenSource, Become, fopenWorks, fopenFails, ProcTypeOK, PinTypeOK
  <2>2. CinTypeOK'
    BY <1>2, <1>4, <1>6, <1>7, <1>b, CinSendType DEF OpenSource
  <2> QED
    BY <2>1, <2>2
<1>c. CASE ErrTimeout(p)
  <2>1. ProcTypeOK'
    BY <1>1, <1>c, SessionAssumption DEF ErrTimeout, Become, ProcTypeOK
  <2>2. PinTypeOK'
    BY <1>1, <1>c DEF ErrTimeout, Become, ProcTypeOK, PinTypeOK
  <2> QED
    BY <1>4, <1>c, <2>1, <2>2 DEF ErrTimeout
<1>d. CASE SendData(p)
  <2>1. CinTypeOK'
    BY <1>2, <1>6, <1>7, <1>d, CinSendType DEF SendData
  <2> QED
    BY <1>4, <1>d, <2>1 DEF SendData, procVars
<1>e. CASE DataEnd(p)
  <2>1. CASE Become(p, "MAIN") /\ UNCHANGED <<pin, sigchld>>
    BY <1>1, <1>4, <1>e, <2>1 DEF DataEnd, Become, ProcTypeOK, PinTypeOK
  <2>2. CASE Exit(p)
    <3>1. PinTypeOK' /\ sigchld' \subseteq Procs /\ proc' = [proc EXCEPT ![p] = "EXITED"]
      BY <2>2, ExitType
    <3> QED
      BY <1>1, <1>4, <1>e, <3>1 DEF DataEnd, ProcTypeOK
  <2> QED
    BY <1>e, <2>1, <2>2 DEF DataEnd
<1>f. CASE Sigchld(p)
  <2>1. CASE sigchld' = sigchld \ {p} /\ UNCHANGED <<proc, pin>>
    BY <1>1, <1>4, <1>f, <2>1 DEF Sigchld, ProcTypeOK
  <2>2. CASE Exit(p)
    <3>1. PinTypeOK' /\ sigchld' \subseteq Procs /\ proc' = [proc EXCEPT ![p] = "EXITED"]
      BY <2>2, ExitType
    <3> QED
      BY <1>1, <1>4, <1>f, <3>1 DEF Sigchld, ProcTypeOK
  <2> QED
    BY <1>f, <2>1, <2>2 DEF Sigchld
<1>g. ASSUME NEW m \in BagToSet(pin[p]), Request(p, m)
      PROVE  ProcTypeOK' /\ CinTypeOK' /\ PinTypeOK'
  <2>1. m.from \in Clients
    BY <1>1 DEF PinTypeOK
  <2>2. /\ ProcTakes(p, m) /\ UNCHANGED <<cin, eretries, sigchld, opened>>
        /\ \/ UNCHANGED <<proc, parent, peer>>
           \/ \E q \in Free : /\ Become(q, "TALK_HERE")
                              /\ parent' = [parent EXCEPT ![q] = p]
                              /\ peer' = [peer EXCEPT ![q] = m.from]
    BY <1>g DEF Request, Consumed
  <2>3. ProcTypeOK' /\ \A x \in Procs : proc'[x] \in {"free", "EXITED"} => proc'[x] = proc[x]
    BY <1>1, <2>1, <2>2, ForksAreProcs DEF ProcTypeOK, Become, Free
  <2> QED
    BY <1>4, <2>2, <2>3, PinTakeType
<1>h. ASSUME NEW m \in BagToSet(pin[p]), BadChecksum(p, m) \/ TakeControl(p, m)
      PROVE  ProcTypeOK' /\ CinTypeOK' /\ PinTypeOK'
  <2>1. ProcTakes(p, m) /\ UNCHANGED <<procVars, cin>>
    BY <1>h DEF BadChecksum, TakeControl, Consumed
  <2>2. UNCHANGED proc
    BY <2>1 DEF procVars
  <2> QED
    BY <1>4, <2>1, <2>2, PinTakeType
<1>i. ASSUME NEW m \in BagToSet(pin[p]), ErrAck(p, m)
      PROVE  ProcTypeOK' /\ CinTypeOK' /\ PinTypeOK'
  <2>1. ProcTakes(p, m) /\ UNCHANGED cin
    BY <1>i DEF ErrAck
  <2>2. ProcTypeOK' /\ \A x \in Procs : proc'[x] \in {"free", "EXITED"} => proc'[x] = proc[x]
    BY <1>1, <1>i, SessionAssumption DEF ErrAck, Become, ProcTypeOK
  <2> QED
    BY <1>4, <2>1, <2>2, PinTakeType
<1> QED
  BY <1>a, <1>b, <1>c, <1>d, <1>e, <1>f, <1>g, <1>h, <1>i DEF ProcNext

-----------------------------------------------------------------------------
(* Who serves whom.                                                        *)

\* rcopies change no process.
LEMMA ClientLeavesProcs ==
  ASSUME NEW r \in Clients, ClientNext(r)
  PROVE  UNCHANGED <<proc, parent, peer, eretries, sigchld, opened>>
  BY DEF ClientNext, SendFilename, FilenameTimeout, CheckDestFile, AckTimeout, DataReply,
         DataOver, FilenameReply, AckReply, DataReceive, clientVars, procVars

\* Processes change no rcopy.
LEMMA ProcLeavesClients ==
  ASSUME NEW p \in Procs, ProcNext(p)
  PROVE  UNCHANGED <<cpc, tries, server, requests>>
  BY DEF ProcNext, TalkHere, OpenSource, ErrTimeout, SendData, DataEnd, Sigchld, Request,
         BadChecksum, ErrAck, TakeControl, clientVars

\* What a step of a process does to the processes: a child keeps its peer, only
\* fopen adds to opened, and a child that has answered stays so.
ProcEffect ==
  /\ \A x \in Procs : /\ peer[x] # "none" => peer'[x] = peer[x]
                      /\ proc[x] \notin Undecided \cup {"free"} => proc'[x] \notin Undecided
                      /\ proc'[x] = "TALK_HERE" /\ peer[x] # "none" => proc[x] = "TALK_HERE"
                      /\ proc'[x] \in Undecided /\ peer[x] # "none" => proc[x] \in Undecided
                      /\ x \in opened' \ opened => proc[x] = "GET_FILENAME"
  /\ opened \subseteq opened'

\* Every step of a process has that effect, and keeps PeerInv.
LEMMA PeerStep ==
  ASSUME SessionTypeOK, PeerInv, NEW p \in Procs, ProcNext(p)
  PROVE  PeerInv' /\ ProcEffect
<1> USE DEF Undecided
<1>1. ProcTypeOK /\ PinTypeOK
  BY DEF SessionTypeOK
<1>2. p = Main => proc[p] \in {"MAIN", "EXITED"} /\ p \notin Forks
  BY ForksAreProcs DEF PeerInv
<1>3. UNCHANGED <<proc, peer, opened>> => PeerInv' /\ ProcEffect
  BY DEF PeerInv, ProcEffect
<1>4. \A s : Become(p, s) => /\ DOMAIN proc' = Procs /\ proc'[p] = s
                             /\ \A x \in Procs : x # p => proc'[x] = proc[x]
  BY <1>1 DEF Become, ProcTypeOK
<1>a. CASE TalkHere(p)
  BY <1>1, <1>2, <1>4, <1>a, ForksAreProcs
     DEF TalkHere, PeerInv, ProcEffect, ProcTypeOK
<1>b. CASE OpenSource(p)
  <2>1. p \in Forks /\ proc[p] = "GET_FILENAME" /\ UNCHANGED peer /\ p \notin opened
    BY <1>1, <1>2, <1>b DEF OpenSource, Procs, PeerInv
  <2>2. \/ proc'[p] = "SEND_DATA" /\ opened' = opened \cup {p}
        \/ proc'[p] = "AWAIT_ERR_ACK" /\ opened' = opened
        \/ proc'[p] = "MAIN" /\ opened' \in {opened, opened \cup {p}}
    BY <1>4, <1>b DEF OpenSource, fopenWorks, fopenFails
  <2>3. \A x \in Procs : x # p => proc'[x] = proc[x]
    BY <1>4, <1>b DEF OpenSource
  <2> QED
    BY <1>1, <2>1, <2>2, <2>3, ForksAreProcs DEF PeerInv, ProcEffect, ProcTypeOK
<1>c. CASE ErrTimeout(p)
  <2>1. CASE UNCHANGED proc
    BY <1>3, <1>c, <2>1 DEF ErrTimeout
  <2>2. CASE Become(p, "MAIN")
    BY <1>1, <1>2, <1>4, <1>c, <2>2, ForksAreProcs DEF ErrTimeout, PeerInv, ProcEffect, ProcTypeOK
  <2> QED
    BY <1>c, <2>1, <2>2 DEF ErrTimeout
<1>d. CASE SendData(p)
  BY <1>3, <1>d DEF SendData, procVars
<1>e. CASE DataEnd(p)
  <2>1. Become(p, "MAIN") \/ Become(p, "EXITED")
    BY <1>e DEF DataEnd, Exit
  <2> QED
    BY <1>1, <1>2, <1>4, <1>e, <2>1, ForksAreProcs DEF DataEnd, PeerInv, ProcEffect, ProcTypeOK
<1>f. CASE Sigchld(p)
  <2>1. CASE UNCHANGED proc
    BY <1>3, <1>f, <2>1 DEF Sigchld
  <2>2. CASE proc[p] = "MAIN" /\ Become(p, "EXITED")
    BY <1>1, <1>2, <1>4, <1>f, <2>2, ForksAreProcs DEF Sigchld, PeerInv, ProcEffect, ProcTypeOK
  <2> QED
    BY <1>f, <2>1, <2>2 DEF Sigchld, Exit
<1>g. ASSUME NEW m \in BagToSet(pin[p]), Request(p, m)
      PROVE  PeerInv' /\ ProcEffect
  <2>1. m.from \in Clients /\ m.from # "none" /\ UNCHANGED opened
    BY <1>1, <1>g, SessionAssumption DEF PinTypeOK, Request
  <2>2. CASE UNCHANGED <<proc, peer>>
    BY <1>3, <2>1, <2>2
  <2>3. ASSUME NEW q \in Free, Become(q, "TALK_HERE"), peer' = [peer EXCEPT ![q] = m.from]
        PROVE  PeerInv' /\ ProcEffect
    <3>1. q \in Forks /\ q \in Procs /\ q # Main /\ proc[q] = "free" /\ peer[q] = "none"
      BY ForksAreProcs DEF Free, PeerInv
    <3>2. /\ proc'[q] = "TALK_HERE" /\ peer'[q] = m.from
          /\ \A x \in Procs : x # q => proc'[x] = proc[x] /\ peer'[x] = peer[x]
      BY <1>1, <2>3, <3>1 DEF Become, ProcTypeOK
    <3> QED
      BY <2>1, <3>1, <3>2, ForksAreProcs DEF PeerInv, ProcEffect
  <2> QED
    BY <1>g, <2>2, <2>3 DEF Request
<1>h. ASSUME NEW m \in BagToSet(pin[p]), BadChecksum(p, m) \/ TakeControl(p, m)
      PROVE  PeerInv' /\ ProcEffect
  BY <1>3, <1>h DEF BadChecksum, TakeControl, procVars
<1>i. ASSUME NEW m \in BagToSet(pin[p]), ErrAck(p, m)
      PROVE  PeerInv' /\ ProcEffect
  BY <1>1, <1>2, <1>4, <1>i, ForksAreProcs DEF ErrAck, PeerInv, ProcEffect, ProcTypeOK
<1> QED
  BY <1>a, <1>b, <1>c, <1>d, <1>e, <1>f, <1>g, <1>h, <1>i DEF ProcNext

\* No step of an rcopy adds a PDU to the socket of one.
LEMMA ClientShrinks ==
  ASSUME SessionTypeOK, NEW r \in Clients, ClientNext(r), NEW x \in Clients
  PROVE  /\ BagToSet(cin'[x]) \subseteq BagToSet(cin[x])
         /\ \A k : /\ Copies(k, cin[x]) \in Nat /\ Copies(k, cin'[x]) \in Nat
                   /\ Copies(k, cin'[x]) <= Copies(k, cin[x])
         /\ x # r => cin'[x] = cin[x]
<1>1. DOMAIN cin = Clients /\ IsABag(cin[x])
  BY DEF SessionTypeOK, CinTypeOK
<1>2. \A k : Copies(k, cin[x]) \in Nat
  BY <1>1, CopiesType
<1>3. CASE UNCHANGED cin
  BY <1>2, <1>3
<1>4. CASE cin' = [cin EXCEPT ![r] = EmptyBag]
  <2>1. cin'[x] = IF x = r THEN EmptyBag ELSE cin[x]
    BY <1>1, <1>4
  <2> QED
    BY <1>2, <2>1, NothingSent
<1>5. ASSUME NEW m \in BagToSet(cin[r]), ClientTakes(r, m)
      PROVE  /\ BagToSet(cin'[x]) \subseteq BagToSet(cin[x])
             /\ \A k : /\ Copies(k, cin'[x]) \in Nat
                       /\ Copies(k, cin'[x]) <= Copies(k, cin[x])
             /\ x # r => cin'[x] = cin[x]
  BY <1>2, <1>5, ClientTook
<1>6. \/ UNCHANGED cin \/ cin' = [cin EXCEPT ![r] = EmptyBag]
      \/ \E m \in BagToSet(cin[r]) : ClientTakes(r, m)
  BY DEF ClientNext, SendFilename, FilenameTimeout, CheckDestFile, AckTimeout, DataReply,
         DataOver, FilenameReply, AckReply, DataReceive, Leave
<1> QED
  BY <1>2, <1>3, <1>4, <1>5, <1>6

\* How an rcopy gets to its states: a reply makes its sender the server, "talk
\* here now" and the good answer are what lets it go on, and only SEND_FILENAME
\* counts a request.
ClientEffect(r) ==
  /\ \A x \in Clients : x # r => /\ cpc'[x] = cpc[x] /\ server'[x] = server[x]
                                 /\ requests'[x] = requests[x]
  /\ \/ requests'[r] = requests[r]
     \/ /\ requests'[r] = requests[r] + 1 /\ requests' = [requests EXCEPT ![r] = @ + 1]
        /\ cpc[r] = "SEND_FILENAME" /\ cpc'[r] = "AWAIT_TALK_HERE"
  /\ cpc[r] # "DONE" /\ (cpc[r] = "GET_DATA" => cpc'[r] \in {"GET_DATA", "DONE"})
  /\ \/ cpc'[r] \notin Talking
     \/ /\ cpc[r] \in Talking /\ server'[r] = server[r]
        /\ cpc'[r] = "GET_DATA" <=> cpc[r] = "GET_DATA"
     \/ \E m \in BagToSet(cin[r]) :
          /\ server'[r] = m.from
          /\ \/ /\ cpc[r] = "AWAIT_TALK_HERE" /\ cpc'[r] = "FILE_VALID"
                /\ m.flag = TalkHereFlag /\ ClientTakes(r, m)
             \/ /\ cpc[r] = "AWAIT_ACK" /\ cpc'[r] = "GET_DATA"
                /\ m.flag = FileOkFlag /\ ClientTakes(r, m)
             \/ cpc[r] = "AWAIT_ACK" /\ cpc'[r] = "AWAIT_ACK"

\* Every step of an rcopy has that effect.
LEMMA ClientMoves ==
  ASSUME SessionTypeOK, NEW r \in Clients, ClientNext(r)
  PROVE  ClientEffect(r)
<1> USE DEF Talking
<1>1. ClientTypeOK
  BY DEF SessionTypeOK
<1>2. \A s : Goto(r, s) => cpc'[r] = s /\ \A x \in Clients : x # r => cpc'[x] = cpc[x]
  BY <1>1 DEF Goto, ClientTypeOK
<1>3. Leave(r) => cpc'[r] = "DONE" /\ \A x \in Clients : x # r => cpc'[x] = cpc[x]
  BY <1>2 DEF Leave
<1>4. NextTry(r) => /\ cpc'[r] \in {cpc[r], "SEND_FILENAME"}
                    /\ \A x \in Clients : x # r => cpc'[x] = cpc[x]
  BY <1>2 DEF NextTry
<1>a. CASE SendFilename(r)
  BY <1>1, <1>2, <1>3, <1>a DEF SendFilename, ClientEffect, ClientTypeOK
<1>b. CASE FilenameTimeout(r)
  BY <1>2, <1>3, <1>b DEF FilenameTimeout, ClientEffect
<1>c. CASE CheckDestFile(r)
  BY <1>2, <1>3, <1>c DEF CheckDestFile, ClientEffect
<1>d. CASE AckTimeout(r)
  BY <1>4, <1>d DEF AckTimeout, ClientEffect
<1>e. CASE DataReply(r)
  BY <1>e DEF DataReply, ClientEffect, clientVars
<1>f. CASE DataOver(r)
  BY <1>3, <1>f DEF DataOver, ClientEffect
<1>g. ASSUME NEW m \in BagToSet(cin[r]), FilenameReply(r, m) PROVE ClientEffect(r)
  <2>1. server'[r] = m.from /\ \A x \in Clients : x # r => server'[x] = server[x]
    BY <1>1, <1>g DEF FilenameReply, ClientTypeOK
  <2> QED
    BY <1>2, <1>3, <1>g, <2>1 DEF FilenameReply, ClientEffect
<1>h. ASSUME NEW m \in BagToSet(cin[r]), AckReply(r, m) PROVE ClientEffect(r)
  <2>1. server'[r] = m.from /\ \A x \in Clients : x # r => server'[x] = server[x]
    BY <1>1, <1>h DEF AckReply, ClientTypeOK
  <2> QED
    BY <1>2, <1>3, <1>4, <1>h, <2>1 DEF AckReply, MeansFileOk, ClientEffect
<1>i. ASSUME NEW m \in BagToSet(cin[r]), DataReceive(r, m) PROVE ClientEffect(r)
  BY <1>i DEF DataReceive, ClientEffect, clientVars
<1> QED
  BY <1>a, <1>b, <1>c, <1>d, <1>e, <1>f, <1>g, <1>h, <1>i DEF ClientNext

\* A step of an rcopy: it learns of its server from PDUs that are honest.
LEMMA ClientServeStep ==
  ASSUME SessionTypeOK, ServeInv, NEW r \in Clients, ClientNext(r)
  PROVE  ServeInv'
<1>1. UNCHANGED <<proc, peer, opened>>
  BY ClientLeavesProcs
<1>2. ClientEffect(r)
  BY ClientMoves
<1>3. ASSUME NEW x \in Clients, NEW m \in BagToSet(cin'[x]) PROVE Honest(x, m)'
  <2>1. Honest(x, m)
    BY ClientShrinks DEF ServeInv
  <2> QED
    BY <1>1, <2>1 DEF Honest
<1>4. ASSUME NEW x \in Clients
      PROVE  /\ cpc'[x] \in Talking => peer'[server'[x]] = x
             /\ cpc'[x] = "GET_DATA" => server'[x] \in opened'
  BY <1>1, <1>2 DEF ServeInv, ClientEffect, Honest, Talking
<1> QED
  BY <1>3, <1>4 DEF ServeInv

\* A step of a process: what it sends is honest, and stays so.
LEMMA ProcServeStep ==
  ASSUME SessionTypeOK, PeerInv, ServeInv, NEW p \in Procs, ProcNext(p)
  PROVE  ServeInv'
<1>1. UNCHANGED <<cpc, server>>
  BY ProcLeavesClients
<1>2. ProcEffect
  BY PeerStep
<1>3. ProcTypeOK /\ CinTypeOK /\ ClientTypeOK
  BY DEF SessionTypeOK
<1>4. \A x \in Clients : x # "none"
  BY SessionAssumption
<1>5. ASSUME NEW x \in Clients, NEW m \in BagToSet(cin[x]) PROVE Honest(x, m)'
  <2>1. Honest(x, m) /\ m.from \in Procs
    BY <1>3 DEF ServeInv, CinTypeOK
  <2>2. proc[m.from] # "free"
    BY <1>4, <2>1, ForksAreProcs DEF Honest, PeerInv, Procs
  <2> QED
    BY <1>2, <1>4, <2>1, <2>2 DEF ProcEffect, Honest, Undecided
<1>6. ASSUME NEW x \in Clients
      PROVE  /\ cpc'[x] \in Talking => peer'[server'[x]] = x
             /\ cpc'[x] = "GET_DATA" => server'[x] \in opened'
  BY <1>1, <1>2, <1>3, <1>4 DEF ServeInv, ProcEffect, ClientTypeOK
<1>7. ASSUME NEW f, ToClient(peer[p], PDU(f, p)), Honest(peer[p], PDU(f, p))', peer[p] \in Clients,
             UNCHANGED peer, NEW x \in Clients, NEW m \in BagToSet(cin'[x])
      PROVE  Honest(x, m)'
  <2>1. m \in BagToSet(cin[x]) \/ (x = peer[p] /\ m = PDU(f, p))
    BY <1>7, ClientSent
  <2> QED
    BY <1>5, <1>7, <2>1 DEF Honest
<1>8. proc[p] \notin {"MAIN", "EXITED", "free"} => peer[p] \in Clients /\ p \in Forks
  BY <1>3 DEF PeerInv, ProcTypeOK, Procs
<1>9. ASSUME NEW x \in Clients, NEW m \in BagToSet(cin'[x]) PROVE Honest(x, m)'
  <2>1. CASE UNCHANGED cin
    BY <1>5, <2>1
  <2>2. CASE TalkHere(p) /\ ToClient(peer[p], PDU(TalkHereFlag, p))
    <3>1. peer[p] \in Clients /\ UNCHANGED peer
      BY <1>8, <2>2 DEF TalkHere
    <3>2. Honest(peer[p], PDU(TalkHereFlag, p))'
      BY <3>1, PDUType DEF Honest, TalkHereFlag, FileOkFlag, FileBadFlag
    <3> QED
      BY <1>7, <2>2, <3>1, <3>2
  <2>3. CASE OpenSource(p) /\ ~ UNCHANGED cin
    <3>1. peer[p] \in Clients /\ p \in Forks /\ UNCHANGED peer
      BY <1>8, <2>3 DEF OpenSource
    <3>2. CASE fopenWorks(p) /\ ToClient(peer[p], PDU(FileOkFlag, p))
      <4>1. Honest(peer[p], PDU(FileOkFlag, p))'
        BY <3>1, <3>2, PDUType DEF Honest, fopenWorks, FileOkFlag, FileBadFlag
      <4> QED
        BY <1>7, <3>1, <3>2, <4>1
    <3>3. CASE fopenFails(p) /\ ToClient(peer[p], PDU(FileBadFlag, p)) /\ Become(p, "AWAIT_ERR_ACK")
      <4>1. p \notin opened' /\ proc'[p] \notin Undecided
        BY <1>3, <2>3, <3>1, <3>3
           DEF PeerInv, OpenSource, fopenFails, Become, ProcTypeOK, Undecided
      <4>2. Honest(peer[p], PDU(FileBadFlag, p))'
        BY <3>1, <4>1, PDUType DEF Honest, FileOkFlag, FileBadFlag
      <4> QED
        BY <1>7, <3>1, <3>3, <4>2
    <3> QED
      BY <2>3, <3>2, <3>3 DEF OpenSource
  <2>4. CASE SendData(p)
    <3>1. peer[p] \in Clients /\ UNCHANGED peer /\ ToClient(peer[p], PDU(DataFlag, p))
      BY <1>8, <2>4 DEF SendData, procVars
    <3>2. Honest(peer[p], PDU(DataFlag, p))'
      BY <3>1, PDUType DEF Honest, DataFlag, FileOkFlag, FileBadFlag
    <3> QED
      BY <1>7, <3>1, <3>2
  <2> QED
    BY <2>1, <2>2, <2>3, <2>4
       DEF ProcNext, TalkHere, OpenSource, ErrTimeout, DataEnd, Sigchld, Request,
           BadChecksum, ErrAck, TakeControl
<1> QED
  BY <1>6, <1>9 DEF ServeInv

\* A step of an rcopy: it sends to the main server and to its own children.
LEMMA ClientSenderStep ==
  ASSUME SessionTypeOK, PeerInv, ServeInv, SenderInv, NEW r \in Clients, ClientNext(r)
  PROVE  SenderInv'
<1>1. UNCHANGED <<proc, peer>>
  BY ClientLeavesProcs
<1>2. PinTypeOK /\ CinTypeOK /\ ClientTypeOK
  BY DEF SessionTypeOK
<1>3. \A m \in BagToSet(cin[r]) : m.from \in Procs /\ peer[m.from] = r
  BY <1>2 DEF CinTypeOK, ServeInv, Honest
<1>4. server[r] \in Procs /\ (server[r] = Main \/ peer[server[r]] = r)
  BY <1>2 DEF ClientTypeOK, SenderInv
<1>5. UNCHANGED server \/ \E m \in BagToSet(cin[r]) : server' = [server EXCEPT ![r] = m.from]
  BY DEF ClientNext, SendFilename, FilenameTimeout, CheckDestFile, AckTimeout, DataReply,
         DataOver, FilenameReply, AckReply, DataReceive, clientVars
<1>6. \A x \in Clients : server'[x] = Main \/ peer'[server'[x]] = x
  BY <1>1, <1>2, <1>3, <1>5 DEF ClientTypeOK, SenderInv
<1>7. CASE UNCHANGED pin
  BY <1>1, <1>6, <1>7 DEF SenderInv
<1>8. ASSUME NEW f, NEW s \in Procs, s = Main \/ peer[s] = r, ToServer(s, PDU(f, r))
      PROVE  SenderInv'
  <2>1. ASSUME NEW q \in Forks, NEW m \in BagToSet(pin'[q]) PROVE m.from = peer'[q]
    <3>1. m \in BagToSet(pin[q]) \/ (q = s /\ m = PDU(f, r))
      BY <1>8, <2>1, ServerSent, ForksAreProcs
    <3> QED
      BY <1>1, <1>8, <3>1, PDUType, ForksAreProcs DEF SenderInv
  <2> QED
    BY <1>6, <2>1 DEF SenderInv
<1>9. \/ UNCHANGED pin
      \/ \E f : ToServer(server[r], PDU(f, r))
      \/ \E f : \E m \in BagToSet(cin[r]) : ToServer(m.from, PDU(f, r))
  BY DEF ClientNext, SendFilename, FilenameTimeout, CheckDestFile, AckTimeout, DataReply,
         DataOver, FilenameReply, AckReply, DataReceive, clientVars
<1> QED
  BY <1>3, <1>4, <1>7, <1>8, <1>9

\* A step of a process: its socket loses PDUs, and its peer stays.
LEMMA ProcSenderStep ==
  ASSUME SessionTypeOK, PeerInv, SenderInv, NEW p \in Procs, ProcNext(p)
  PROVE  SenderInv'
<1>1. UNCHANGED server /\ ProcEffect
  BY ProcLeavesClients, PeerStep
<1>2. PinTypeOK /\ ClientTypeOK
  BY DEF SessionTypeOK
<1>3. \A x \in Clients : x # "none"
  BY SessionAssumption
<1>4. \A x \in Clients : server'[x] = Main \/ peer'[server'[x]] = x
  BY <1>1, <1>2, <1>3 DEF SenderInv, ProcEffect, ClientTypeOK
<1>5. \A x \in Procs : BagToSet(pin'[x]) \subseteq BagToSet(pin[x])
  <2>1. CASE UNCHANGED pin
    BY <2>1
  <2>2. CASE Exit(p)
    BY <2>2, ExitType, NothingSent
  <2>3. ASSUME NEW m \in BagToSet(pin[p]), ProcTakes(p, m)
        PROVE  \A x \in Procs : BagToSet(pin'[x]) \subseteq BagToSet(pin[x])
    BY <2>3, ProcTook
  <2> QED
    BY <2>1, <2>2, <2>3
       DEF ProcNext, TalkHere, OpenSource, ErrTimeout, SendData, DataEnd, Sigchld, Request,
           BadChecksum, ErrAck, TakeControl, Consumed
<1>6. ASSUME NEW q \in Forks, NEW m \in BagToSet(pin'[q]) PROVE m.from = peer'[q]
  <2>1. m \in BagToSet(pin[q]) /\ m.from = peer[q] /\ q \in Procs
    BY <1>5, <1>6, ForksAreProcs DEF SenderInv
  <2>2. m.from \in Clients
    BY <1>2, <2>1 DEF PinTypeOK
  <2> QED
    BY <1>1, <1>3, <2>1, <2>2 DEF ProcEffect
<1> QED
  BY <1>4, <1>6 DEF SenderInv

\* What main takes for a request is one, or comes from an rcopy whose PDUs it may
\* take for one.
LEMMA RequestOf ==
  ASSUME SessionTypeOK, PeerInv, SenderInv, NEW p \in Procs, NEW m \in BagToSet(pin[p]),
         Request(p, m)
  PROVE  m.flag = FilenameFlag \/ m.from \in Cancelling
<1>1. CASE peer[p] \in Cancelling
  <2>1. p \in Forks
    BY <1>1, SessionAssumption DEF PeerInv, Procs
  <2> QED
    BY <1>1, <2>1 DEF SenderInv
<1> QED
  BY <1>1 DEF Request, PassesChecksum

-----------------------------------------------------------------------------
(* Requests and children are counted.                                      *)

\* The filename PDUs of r under way to p.
Sent(r, p) == Copies(PDU(FilenameFlag, r), pin[p])

\* What Unread is made of.
LEMMA UnreadHas ==
  ASSUME NEW r, NEW x
  PROVE  x \in Unread(r) <=> \E p \in Procs : \E k \in 1 .. Sent(r, p) : x = <<p, k>>
  BY DEF Unread, Sent

\* When no socket gets a filename PDU of r, no unread one is new.
LEMMA UnreadShrinks ==
  ASSUME NEW r,
         \A p \in Procs : Sent(r, p) \in Nat /\ Sent(r, p)' \in Nat /\ Sent(r, p)' <= Sent(r, p)
  PROVE  Unread(r)' \subseteq Unread(r)
<1> SUFFICES ASSUME NEW x \in Unread(r)' PROVE x \in Unread(r)
  OBVIOUS
<1>1. PICK p \in Procs : \E k \in 1 .. Sent(r, p)' : x = <<p, k>>
  BY DEF Unread, Sent
<1>2. PICK k \in 1 .. Sent(r, p)' : x = <<p, k>>
  BY <1>1
<1>3. k \in 1 .. Sent(r, p)
  BY <1>2
<1> QED
  BY <1>2, <1>3, UnreadHas

\* A socket that gets one more adds one.
LEMMA UnreadGrows ==
  ASSUME NEW r, NEW p \in Procs, Sent(r, p)' <= Sent(r, p) + 1,
         \A x \in Procs : /\ Sent(r, x) \in Nat /\ Sent(r, x)' \in Nat
                          /\ x # p => Sent(r, x)' <= Sent(r, x)
  PROVE  Unread(r)' \subseteq Unread(r) \cup {<<p, Sent(r, p) + 1>>}
<1> SUFFICES ASSUME NEW x \in Unread(r)'
             PROVE  x \in Unread(r) \cup {<<p, Sent(r, p) + 1>>}
  OBVIOUS
<1>1. PICK y \in Procs : \E k \in 1 .. Sent(r, y)' : x = <<y, k>>
  BY DEF Unread, Sent
<1>2. PICK k \in 1 .. Sent(r, y)' : x = <<y, k>>
  BY <1>1
<1>3. k \in 1 .. Sent(r, y) \/ (y = p /\ k = Sent(r, p) + 1)
  BY <1>2
<1> QED
  BY <1>2, <1>3, UnreadHas

\* A socket that one is read from loses one.
LEMMA UnreadRead ==
  ASSUME NEW r, NEW p \in Procs, Sent(r, p)' = Sent(r, p) - 1,
         \A x \in Procs : /\ Sent(r, x) \in Nat /\ Sent(r, x)' \in Nat
                          /\ x # p => Sent(r, x)' <= Sent(r, x)
  PROVE  /\ Unread(r)' \subseteq Unread(r) \ {<<p, Sent(r, p)>>}
         /\ <<p, Sent(r, p)>> \in Unread(r)
<1>1. Sent(r, p) \in 1 .. Sent(r, p)
  OBVIOUS
<1>2. <<p, Sent(r, p)>> \in Unread(r)
  BY <1>1, UnreadHas
<1>3. ASSUME NEW x \in Unread(r)' PROVE x \in Unread(r) \ {<<p, Sent(r, p)>>}
  <2>1. PICK y \in Procs : \E k \in 1 .. Sent(r, y)' : x = <<y, k>>
    BY DEF Unread, Sent
  <2>2. PICK k \in 1 .. Sent(r, y)' : x = <<y, k>>
    BY <2>1
  <2>3. k \in 1 .. Sent(r, y) /\ (y # p \/ k # Sent(r, p))
    BY <2>2
  <2> QED
    BY <2>2, <2>3, UnreadHas
<1> QED
  BY <1>2, <1>3

\* The numbers of copies are numbers.
LEMMA SentType ==
  ASSUME PinTypeOK, NEW r, NEW p \in Procs
  PROVE  Sent(r, p) \in Nat
  BY CopiesType DEF PinTypeOK, Sent

\* What a send of r adds to the filename PDUs of x that are under way.
LEMMA SentCounts ==
  ASSUME SessionTypeOK, NEW p \in Procs, NEW f, NEW r, ToServer(p, PDU(f, r)), NEW x
  PROVE  /\ Sent(x, p)' <= Sent(x, p) + 1
         /\ f # FilenameFlag \/ x # r => Sent(x, p)' <= Sent(x, p)
         /\ \A y \in Procs : y # p => Sent(x, y)' = Sent(x, y)
<1> DEFINE m == PDU(f, r)
           k == PDU(FilenameFlag, x)
<1>1. f # FilenameFlag \/ x # r => k # m
  BY PDUType
<1>2. ToServer(p, m)
  OBVIOUS
<1> HIDE DEF m, k
<1>3. \A y \in Procs : y # p => pin'[y] = pin[y]
  BY <1>2, ServerSent
<1>4. /\ Copies(k, pin[p]) \in Nat /\ Copies(k, pin'[p]) \in Nat
      /\ Copies(k, pin'[p]) <= Copies(k, pin[p]) + 1
      /\ k # m => Copies(k, pin'[p]) <= Copies(k, pin[p])
  BY <1>2, ServerCopies
<1>5. \A y : Sent(x, y) = Copies(k, pin[y]) /\ Sent(x, y)' = Copies(k, pin'[y])
  BY DEF Sent, k
<1> QED
  BY <1>1, <1>3, <1>4, <1>5

\* One rcopy's share of CountInv.
Counted(r) ==
  /\ IsFiniteSet(Children(r)) /\ IsFiniteSet(Unread(r))
  /\ Cardinality(Children(r)) + Cardinality(Unread(r)) <= requests[r]

\* Steps after which nothing is counted that was not before.
LEMMA CountKept ==
  ASSUME NEW r, Counted(r), requests[r] \in Nat, UNCHANGED peer, requests'[r] = requests[r],
         Unread(r)' \subseteq Unread(r)
  PROVE  Counted(r)'
<1>1. Children(r)' = Children(r)
  BY DEF Children
<1>2. /\ IsFiniteSet(Unread(r)') /\ Cardinality(Unread(r)') <= Cardinality(Unread(r))
      /\ Cardinality(Unread(r)') \in Nat /\ Cardinality(Unread(r)) \in Nat
  BY FS_Subset, FS_CardinalityType DEF Counted
<1>3. Cardinality(Children(r)) \in Nat
  BY FS_CardinalityType DEF Counted
<1> QED
  BY <1>1, <1>2, <1>3 DEF Counted

\* A step of an rcopy sends no filename PDU, or counts the one it sends.
LEMMA ClientCountStep ==
  ASSUME SessionTypeOK, SessionTypeOK', CountInv, NEW r \in Clients, ClientNext(r)
  PROVE  CountInv'
<1>1. UNCHANGED peer
  BY ClientLeavesProcs
<1>2. PinTypeOK /\ PinTypeOK' /\ ClientTypeOK /\ CinTypeOK
  BY DEF SessionTypeOK
<1>3. \A x, p : p \in Procs => Sent(x, p) \in Nat /\ Sent(x, p)' \in Nat
  BY <1>2, CopiesType DEF PinTypeOK, Sent
<1>4. \A x \in Clients \ Cancelling : x \in Clients /\ requests[x] \in Nat /\ Counted(x)
  BY <1>2 DEF ClientTypeOK, CountInv, Counted
<1>5. SUFFICES ASSUME NEW x \in Clients \ Cancelling PROVE Counted(x)'
  BY DEF CountInv, Counted
<1>6. CASE /\ requests'[x] = requests[x]
           /\ \A p \in Procs : Sent(x, p)' <= Sent(x, p)
  BY <1>1, <1>3, <1>4, <1>6, UnreadShrinks, CountKept
<1>7. CASE UNCHANGED pin /\ requests'[x] = requests[x]
  BY <1>3, <1>6, <1>7 DEF Sent
<1>8. ASSUME NEW f, NEW s \in Procs, ToServer(s, PDU(f, r)),
             f # FilenameFlag \/ x # r, requests'[x] = requests[x]
      PROVE  Counted(x)'
  <2>1. Sent(x, s)' <= Sent(x, s) /\ \A p \in Procs : p # s => Sent(x, p)' = Sent(x, p)
    BY <1>8, SentCounts
  <2>2. \A p \in Procs : Sent(x, p)' <= Sent(x, p)
    BY <1>3, <2>1
  <2> QED
    BY <1>6, <1>8, <2>2
<1>9. CASE /\ SendFilename(r) /\ ToServer(server[r], PDU(FilenameFlag, r))
           /\ requests' = [requests EXCEPT ![r] = @ + 1]
  <2>1. server[r] \in Procs
    BY <1>2 DEF ClientTypeOK
  <2>2. CASE x # r
    BY <1>2, <1>8, <1>9, <2>1, <2>2 DEF ClientTypeOK
  <2>3. CASE x = r
    <3> DEFINE new == <<server[r], Sent(r, server[r]) + 1>>
    <3>1. requests'[r] = requests[r] + 1 /\ Children(r)' = Children(r)
      BY <1>1, <1>2, <1>9 DEF ClientTypeOK, Children
    <3>2. /\ Sent(r, server[r])' <= Sent(r, server[r]) + 1
          /\ \A p \in Procs : p # server[r] => Sent(r, p)' <= Sent(r, p)
      <4>1. PICK s \in Procs : s = server[r]
        BY <2>1
      <4>2. s = server'[r] /\ ToServer(s, PDU(FilenameFlag, r))
        BY <1>9, <4>1 DEF SendFilename
      <4>3. /\ Sent(r, s)' <= Sent(r, s) + 1
            /\ \A p \in Procs : p # s => Sent(r, p)' = Sent(r, p)
        BY <4>2, SentCounts
      <4> QED
        BY <1>3, <4>1, <4>2, <4>3 DEF Sent
    <3>3. Unread(r)' \subseteq Unread(r) \cup {new}
      <4>1. UNCHANGED server
        BY <1>9 DEF SendFilename
      <4> QED
        BY <1>3, <2>1, <3>2, <4>1, UnreadGrows
    <3>4. IsFiniteSet(Unread(r)) /\ Cardinality(Unread(r)) \in Nat /\ Cardinality(Children(r)) \in Nat
      BY <1>4, <2>3, FS_CardinalityType DEF Counted
    <3>5. /\ IsFiniteSet(Unread(r) \cup {new})
          /\ Cardinality(Unread(r) \cup {new}) \in {Cardinality(Unread(r)), Cardinality(Unread(r)) + 1}
      BY <3>4, FS_AddElement
    <3> HIDE DEF new
    <3>6. /\ IsFiniteSet(Unread(r)') /\ Cardinality(Unread(r)') \in Nat
          /\ Cardinality(Unread(r)') <= Cardinality(Unread(r) \cup {new})
      BY <3>3, <3>5, FS_Subset, FS_CardinalityType
    <3>7. Cardinality(Unread(r)') <= Cardinality(Unread(r)) + 1
      BY <3>4, <3>5, <3>6
    <3> QED
      BY <1>4, <2>3, <3>1, <3>4, <3>6, <3>7 DEF Counted
  <2> QED
    BY <2>2, <2>3
<1>10. CASE DataReply(r)
  BY <1>2, <1>8, <1>10 DEF DataReply, clientVars, ClientTypeOK, ControlFlag, FilenameFlag
<1>11. ASSUME NEW m \in BagToSet(cin[r]), AckReply(r, m), ToServer(m.from, PDU(TalkHereFlag, r))
       PROVE  Counted(x)'
  BY <1>2, <1>8, <1>11 DEF AckReply, CinTypeOK, TalkHereFlag, FilenameFlag
<1> QED
  BY <1>7, <1>9, <1>10, <1>11
     DEF ClientNext, SendFilename, FilenameTimeout, CheckDestFile, AckTimeout, DataOver,
         FilenameReply, AckReply, DataReceive, clientVars

\* What a receive of p takes from the filename PDUs of x that are under way.
LEMMA ReadCounts ==
  ASSUME SessionTypeOK, NEW p \in Procs, NEW m \in BagToSet(pin[p]), ProcTakes(p, m), NEW x
  PROVE  /\ Sent(x, p)' <= Sent(x, p)
         /\ m = PDU(FilenameFlag, x) => Sent(x, p)' = Sent(x, p) - 1
         /\ \A y \in Procs : y # p => Sent(x, y)' = Sent(x, y)
<1> DEFINE k == PDU(FilenameFlag, x)
<1>1. DOMAIN pin = Procs /\ IsABag(pin[p])
  BY DEF SessionTypeOK, PinTypeOK
<1>2. pin'[p] = recvfrom(pin[p], m) /\ \A y \in Procs : y # p => pin'[y] = pin[y]
  BY <1>1 DEF ProcTakes
<1>3. \A y : Sent(x, y) = Copies(k, pin[y]) /\ Sent(x, y)' = Copies(k, pin'[y])
  BY DEF Sent
<1> HIDE DEF k
<1>4. /\ k # m => Copies(k, pin'[p]) = Copies(k, pin[p])
      /\ k = m => Copies(k, pin'[p]) = Copies(k, pin[p]) - 1
  BY <1>1, <1>2, ReceiveCounts
<1>5. Copies(k, pin[p]) \in Nat
  BY <1>1, CopiesType
<1>6. Copies(k, pin'[p]) <= Copies(k, pin[p])
  BY <1>4, <1>5
<1> QED
  BY <1>2, <1>3, <1>4, <1>6 DEF k

\* A step of a process reads a filename PDU for each child it forks, where the
\* rest behind another PDU does not add up.
LEMMA ProcCountStep ==
  ASSUME SessionTypeOK, SessionTypeOK', PeerInv, SenderInv, CountInv, NEW p \in Procs,
         ProcNext(p)
  PROVE  CountInv'
<1>1. UNCHANGED requests
  BY ProcLeavesClients
<1>2. PinTypeOK /\ PinTypeOK' /\ ClientTypeOK /\ ProcTypeOK
  BY DEF SessionTypeOK
<1>3. \A x, y : y \in Procs => Sent(x, y) \in Nat /\ Sent(x, y)' \in Nat
  BY <1>2, CopiesType DEF PinTypeOK, Sent
<1>4. \A x \in Clients \ Cancelling : x \in Clients /\ requests[x] \in Nat /\ Counted(x)
  BY <1>2 DEF ClientTypeOK, CountInv, Counted
<1>5. SUFFICES ASSUME NEW x \in Clients \ Cancelling PROVE Counted(x)'
  BY DEF CountInv, Counted
<1>6. CASE UNCHANGED peer /\ \A y \in Procs : Sent(x, y)' <= Sent(x, y)
  BY <1>1, <1>3, <1>4, <1>6, UnreadShrinks, CountKept
<1>7. CASE UNCHANGED <<peer, pin>>
  BY <1>3, <1>6, <1>7 DEF Sent
<1>8. ASSUME Exit(p), UNCHANGED peer PROVE Counted(x)'
  <2>1. \A y \in Procs : pin'[y] = IF y = p THEN EmptyBag ELSE pin[y]
    BY <1>8, ExitType
  <2>2. \A y \in Procs : Sent(x, y)' = IF y = p THEN 0 ELSE Sent(x, y)
    BY <2>1, NothingSent DEF Sent
  <2> QED
    BY <1>3, <1>6, <1>8, <2>2
<1>9. ASSUME NEW m \in BagToSet(pin[p]), ProcTakes(p, m), UNCHANGED peer
      PROVE  Counted(x)'
  <2>1. Sent(x, p)' <= Sent(x, p) /\ \A y \in Procs : y # p => Sent(x, y)' = Sent(x, y)
    BY <1>9, ReadCounts
  <2>2. \A y \in Procs : Sent(x, y)' <= Sent(x, y)
    BY <1>3, <2>1
  <2> QED
    BY <1>6, <1>9, <2>2
<1>10. ASSUME NEW m \in BagToSet(pin[p]), Request(p, m), NEW q \in Free,
              peer' = [peer EXCEPT ![q] = m.from]
       PROVE  Counted(x)'
  <2>1. m \in [flag : Flags, from : Clients] /\ ProcTakes(p, m)
    BY <1>2, <1>10 DEF PinTypeOK, Request, Consumed
  <2>2. /\ Sent(x, p)' <= Sent(x, p) /\ \A y \in Procs : y # p => Sent(x, y)' = Sent(x, y)
        /\ m = PDU(FilenameFlag, x) => Sent(x, p)' = Sent(x, p) - 1
    BY <2>1, ReadCounts
  <2>3. q \in Procs /\ q \in Forks /\ peer[q] = "none"
    BY ForksAreProcs DEF Free, PeerInv
  <2>4. \A y \in Procs : Sent(x, y)' <= Sent(x, y)
    BY <1>3, <2>2
  <2>5. /\ IsFiniteSet(Children(x)) /\ Cardinality(Children(x)) \in Nat
        /\ IsFiniteSet(Unread(x)) /\ Cardinality(Unread(x)) \in Nat
    BY <1>4, FS_CardinalityType DEF Counted
  <2>6. CASE x # m.from
    <3>1. Children(x)' = Children(x)
      BY <1>2, <1>10, <2>3, <2>6, SessionAssumption DEF Children, ProcTypeOK
    <3>2. Unread(x)' \subseteq Unread(x)
      BY <1>3, <2>4, UnreadShrinks
    <3>3. /\ IsFiniteSet(Unread(x)') /\ Cardinality(Unread(x)') <= Cardinality(Unread(x))
          /\ Cardinality(Unread(x)') \in Nat
      BY <2>5, <3>2, FS_Subset, FS_CardinalityType
    <3> QED
      BY <1>1, <1>4, <2>5, <3>1, <3>3 DEF Counted
  <2>7. CASE x = m.from
    <3>1. m = PDU(FilenameFlag, x)
      BY <1>10, <2>1, <2>7, RequestOf DEF PDU
    <3>2. q \notin Children(x) /\ Children(x)' = Children(x) \cup {q}
      BY <1>2, <1>10, <2>3, <2>7, SessionAssumption DEF Children, ProcTypeOK
    <3>3. IsFiniteSet(Children(x)') /\ Cardinality(Children(x)') = Cardinality(Children(x)) + 1
      BY <2>5, <3>2, FS_AddElement
    <3> DEFINE read == <<p, Sent(x, p)>>
    <3>4. Unread(x)' \subseteq Unread(x) \ {read} /\ read \in Unread(x)
      BY <1>3, <2>2, <3>1, UnreadRead
    <3> HIDE DEF read
    <3>5. /\ IsFiniteSet(Unread(x) \ {read})
          /\ Cardinality(Unread(x) \ {read}) = Cardinality(Unread(x)) - 1
      BY <2>5, <3>4, FS_RemoveElement
    <3>6. /\ IsFiniteSet(Unread(x)') /\ Cardinality(Unread(x)') \in Nat
          /\ Cardinality(Unread(x)') <= Cardinality(Unread(x) \ {read})
      BY <3>4, <3>5, FS_Subset, FS_CardinalityType
    <3> QED
      BY <1>1, <1>4, <2>5, <3>3, <3>5, <3>6 DEF Counted
  <2> QED
    BY <2>6, <2>7
<1>11. ASSUME NEW m \in BagToSet(pin[p]), Request(p, m) PROVE Counted(x)'
  BY <1>9, <1>10, <1>11 DEF Request, Consumed
<1>12. ASSUME NEW m \in BagToSet(pin[p]), BadChecksum(p, m) \/ TakeControl(p, m) \/ ErrAck(p, m)
       PROVE  Counted(x)'
  BY <1>9, <1>12 DEF BadChecksum, TakeControl, ErrAck, Consumed, procVars
<1>13. CASE TalkHere(p) \/ OpenSource(p) \/ ErrTimeout(p) \/ SendData(p)
  BY <1>7, <1>13 DEF TalkHere, OpenSource, ErrTimeout, SendData, procVars
<1>14. CASE DataEnd(p) \/ Sigchld(p)
  BY <1>7, <1>8, <1>14 DEF DataEnd, Sigchld
<1> QED
  BY <1>11, <1>12, <1>13, <1>14 DEF ProcNext

-----------------------------------------------------------------------------
(* One request, one child.                                                 *)

\* Two finite sets with at most one element between them.
LEMMA OnlyOne ==
  ASSUME NEW C, IsFiniteSet(C), NEW U, IsFiniteSet(U), NEW n \in Nat, n <= 1,
         Cardinality(C) + Cardinality(U) <= n, NEW a \in C, NEW b \in C
  PROVE  a = b /\ n = 1
<1>1. Cardinality(C) \in Nat /\ Cardinality(U) \in Nat
  BY FS_CardinalityType
<1>2. Cardinality(C) # 0
  BY FS_EmptySet
<1>3. Cardinality(C) = 1 /\ n = 1
  BY <1>1, <1>2
<1>4. \E x : C = {x}
  BY <1>3, FS_Singleton
<1> QED
  BY <1>3, <1>4

\* An rcopy that sent at most one request has at most one child.
LEMMA OnlyChild ==
  ASSUME NEW r, Counted(r), requests[r] \in Nat, requests[r] <= 1,
         NEW a \in Children(r), NEW b \in Children(r)
  PROVE  a = b /\ requests[r] = 1
  BY OnlyOne DEF Counted

\* A step of an rcopy takes the one "talk here now" and the one good answer.
LEMMA ClientOnceStep ==
  ASSUME SessionTypeOK, ServeInv, CountInv, OnceInv, NEW r \in Clients, ClientNext(r)
  PROVE  OnceInv'
<1>1. UNCHANGED <<proc, peer>> /\ ClientEffect(r) /\ ClientTypeOK /\ CinTypeOK
  BY ClientLeavesProcs, ClientMoves DEF SessionTypeOK
<1>2. SUFFICES ASSUME NEW x \in Clients \ Cancelling, requests'[x] <= 1, NEW q \in Children(x)
               PROVE  Once(x, q)'
  BY <1>1 DEF OnceInv, Children
<1>3. CASE x # r
  <2>1. requests'[x] = requests[x] /\ cpc'[x] = cpc[x] /\ cin'[x] = cin[x]
    BY <1>1, <1>3, ClientShrinks DEF ClientEffect
  <2>2. Once(x, q)
    BY <1>2, <2>1 DEF OnceInv
  <2> QED
    BY <1>1, <2>1, <2>2 DEF Once
<1>4. CASE x = r
  <2> DEFINE T == PDU(TalkHereFlag, q)
             K == PDU(FileOkFlag, q)
  <2>1. requests[r] \in Nat /\ Counted(r)
    BY <1>1, <1>4 DEF ClientTypeOK, CountInv, Counted
  <2>2. requests'[r] = requests[r] /\ requests[r] <= 1
    <3>1. CASE requests'[r] = requests[r] + 1
      BY <1>2, <1>4, <2>1, <3>1, OnlyChild
    <3> QED
      BY <1>1, <1>2, <1>4, <3>1 DEF ClientEffect
  <2>3. Once(r, q)
    BY <1>2, <1>4, <2>2 DEF OnceInv
  <2>4. /\ Copies(T, cin[r]) \in Nat /\ Copies(T, cin'[r]) \in Nat
        /\ Copies(T, cin'[r]) <= Copies(T, cin[r])
    BY ClientShrinks
  <2>5. /\ Copies(K, cin[r]) \in Nat /\ Copies(K, cin'[r]) \in Nat
        /\ Copies(K, cin'[r]) <= Copies(K, cin[r])
    BY ClientShrinks
  <2>6. /\ Copies(T, cin[r]) <= IF proc[q] = "TALK_HERE" \/ cpc[r] \in Talking THEN 0 ELSE 1
        /\ cpc[r] \in Talking => proc[q] # "TALK_HERE"
        /\ Copies(K, cin[r]) <= IF proc[q] \in Undecided \/ cpc[r] = "GET_DATA" THEN 0 ELSE 1
    BY <2>3 DEF Once
  <2>7. SUFFICES
          /\ Copies(T, cin'[r]) <= IF proc[q] = "TALK_HERE" \/ cpc'[r] \in Talking THEN 0 ELSE 1
          /\ cpc'[r] \in Talking => proc[q] # "TALK_HERE"
          /\ Copies(K, cin'[r]) <= IF proc[q] \in Undecided \/ cpc'[r] = "GET_DATA" THEN 0 ELSE 1
    BY <1>1, <1>4 DEF Once
  <2>8. ASSUME NEW m \in BagToSet(cin[r]), ClientTakes(r, m)
        PROVE  /\ m = PDU(m.flag, q) /\ Copies(m, cin[r]) \in Nat /\ Copies(m, cin[r]) >= 1
               /\ Copies(m, cin'[r]) = Copies(m, cin[r]) - 1
    <3>1. m \in [flag : Flags, from : Procs] /\ peer[m.from] = r /\ IsABag(cin[r])
      BY <1>1 DEF CinTypeOK, ServeInv, Honest
    <3>2. m.from = q
      BY <1>2, <1>4, <2>1, <2>2, <3>1, OnlyChild DEF Children
    <3>3. m = PDU(m.flag, q)
      BY <3>1, <3>2 DEF PDU
    <3>4. Copies(m, cin'[r]) = Copies(m, cin[r]) - 1
      BY <2>8, ClientTook
    <3> QED
      BY <3>1, <3>3, <3>4, CopiesType
  <2> HIDE DEF T, K
  <2>9. CASE cpc'[r] \notin Talking
    BY <2>4, <2>5, <2>6, <2>9 DEF Talking
  <2>10. CASE cpc[r] \in Talking /\ (cpc'[r] = "GET_DATA" <=> cpc[r] = "GET_DATA")
    BY <2>4, <2>5, <2>6, <2>10
  <2>11. ASSUME NEW m \in BagToSet(cin[r]), cpc[r] = "AWAIT_TALK_HERE", cpc'[r] = "FILE_VALID",
                m.flag = TalkHereFlag, ClientTakes(r, m)
         PROVE  /\ Copies(T, cin'[r]) = 0 /\ proc[q] # "TALK_HERE"
                /\ Copies(K, cin'[r]) <= IF proc[q] \in Undecided THEN 0 ELSE 1
    <3>1. m = T
      BY <2>8, <2>11 DEF T
    <3>2. /\ Copies(T, cin[r]) >= 1 /\ Copies(T, cin'[r]) = Copies(T, cin[r]) - 1
      BY <2>8, <2>11, <3>1
    <3> QED
      BY <2>4, <2>5, <2>6, <2>11, <3>2 DEF Talking
  <2>12. ASSUME NEW m \in BagToSet(cin[r]), cpc[r] = "AWAIT_ACK", cpc'[r] = "GET_DATA",
                m.flag = FileOkFlag, ClientTakes(r, m)
         PROVE  /\ Copies(T, cin'[r]) = 0 /\ proc[q] # "TALK_HERE"
                /\ Copies(K, cin'[r]) = 0
    <3>1. m = K
      BY <2>8, <2>12 DEF K
    <3>2. /\ Copies(K, cin[r]) >= 1 /\ Copies(K, cin'[r]) = Copies(K, cin[r]) - 1
      BY <2>8, <2>12, <3>1
    <3> QED
      BY <2>4, <2>5, <2>6, <2>12, <3>2 DEF Talking
  <2>13. CASE cpc[r] = "AWAIT_ACK" /\ cpc'[r] = "AWAIT_ACK"
    BY <2>4, <2>5, <2>6, <2>13
  <2> QED
    BY <1>1, <2>4, <2>5, <2>9, <2>10, <2>11, <2>12, <2>13 DEF ClientEffect
<1> QED
  BY <1>3, <1>4

\* A step of a process sends each of the two at most once.
LEMMA ProcOnceStep ==
  ASSUME SessionTypeOK, PeerInv, ServeInv, CountInv, CountInv', OnceInv,
         NEW p \in Procs, ProcNext(p)
  PROVE  OnceInv'
<1>1. UNCHANGED <<cpc, server, requests>> /\ ProcEffect
  BY ProcLeavesClients, PeerStep
<1>2. ClientTypeOK /\ CinTypeOK /\ ProcTypeOK
  BY DEF SessionTypeOK
<1>3. SUFFICES ASSUME NEW r \in Clients, r \notin Cancelling, requests[r] <= 1,
                      NEW q \in Procs, peer'[q] = r
               PROVE  Once(r, q)'
  BY <1>1 DEF OnceInv, Children
<1>4. r # "none" /\ requests[r] \in Nat /\ Counted(r) /\ Counted(r)'
  BY <1>2, <1>3, SessionAssumption DEF ClientTypeOK, CountInv, Counted
<1> DEFINE T == PDU(TalkHereFlag, q)
           K == PDU(FileOkFlag, q)
<1>5. SUFFICES
        /\ Copies(T, cin'[r]) <= IF proc'[q] = "TALK_HERE" \/ cpc[r] \in Talking THEN 0 ELSE 1
        /\ cpc[r] \in Talking => proc'[q] # "TALK_HERE"
        /\ Copies(K, cin'[r]) <= IF proc'[q] \in Undecided \/ cpc[r] = "GET_DATA" THEN 0 ELSE 1
  BY <1>1 DEF Once
<1>6. T.flag = TalkHereFlag /\ K.flag = FileOkFlag /\ IsABag(cin[r])
  BY <1>2, PDUType DEF CinTypeOK
<1>7. Copies(T, cin[r]) \in Nat /\ Copies(K, cin[r]) \in Nat
  BY <1>6, CopiesType
<1>8. CASE peer[q] # r
  <2>1. UNCHANGED cin
    BY <1>3, <1>8
       DEF ProcNext, TalkHere, OpenSource, ErrTimeout, SendData, DataEnd, Sigchld, Request,
           BadChecksum, ErrAck, TakeControl, procVars
  <2>2. ASSUME NEW y \in Procs, peer[y] = r PROVE FALSE
    <3>1. y \in Children(r)' /\ q \in Children(r)'
      BY <1>1, <1>3, <1>4, <2>2 DEF ProcEffect, Children
    <3>2. y = q
      BY <1>1, <1>3, <1>4, <3>1, OnlyOne DEF Counted
    <3> QED
      BY <1>8, <2>2, <3>2
  <2>3. BagToSet(cin[r]) = {}
    BY <1>2, <2>2 DEF ServeInv, Honest, CinTypeOK
  <2>4. Copies(T, cin[r]) = 0 /\ Copies(K, cin[r]) = 0
    BY <2>3 DEF Copies, BagIn
  <2>5. cpc[r] \notin Talking
    BY <1>2, <2>2 DEF ServeInv, ClientTypeOK
  <2> HIDE DEF T, K
  <2> QED
    BY <2>1, <2>4, <2>5
<1>9. CASE peer[q] = r
  <2>1. /\ Copies(T, cin[r]) <= IF proc[q] = "TALK_HERE" \/ cpc[r] \in Talking THEN 0 ELSE 1
        /\ cpc[r] \in Talking => proc[q] # "TALK_HERE"
        /\ Copies(K, cin[r]) <= IF proc[q] \in Undecided \/ cpc[r] = "GET_DATA" THEN 0 ELSE 1
    BY <1>3, <1>9 DEF OnceInv, Once, Children
  <2>2. /\ proc'[q] = "TALK_HERE" => proc[q] = "TALK_HERE"
        /\ proc'[q] \in Undecided => proc[q] \in Undecided
    BY <1>1, <1>4, <1>9 DEF ProcEffect
  <2>3. CASE cin'[r] = cin[r]
    <3> HIDE DEF T, K
    <3> QED
      BY <1>7, <2>1, <2>2, <2>3
  <2>4. ASSUME NEW f, ToClient(peer[p], PDU(f, p)), peer[p] \in Clients, peer[p] # r
        PROVE  cin'[r] = cin[r]
    BY <2>4, ClientSent
  <2>5. peer[p] = r => p = q
    BY <1>3, <1>4, <1>9, OnlyChild DEF Children
  <2>6. ASSUME NEW f, ToClient(r, PDU(f, q))
        PROVE  /\ Copies(T, cin'[r]) <= Copies(T, cin[r]) + 1 /\ Copies(T, cin'[r]) \in Nat
               /\ f # TalkHereFlag => Copies(T, cin'[r]) <= Copies(T, cin[r])
               /\ Copies(K, cin'[r]) <= Copies(K, cin[r]) + 1 /\ Copies(K, cin'[r]) \in Nat
               /\ f # FileOkFlag => Copies(K, cin'[r]) <= Copies(K, cin[r])
    <3> DEFINE m == PDU(f, q)
    <3>1. /\ f # TalkHereFlag => T # m
          /\ f # FileOkFlag => K # m
      BY PDUType
    <3>2. ToClient(r, m)
      BY <2>6
    <3> HIDE DEF T, K, m
    <3>3. /\ Copies(T, cin'[r]) <= Copies(T, cin[r]) + 1 /\ Copies(T, cin'[r]) \in Nat
          /\ T # m => Copies(T, cin'[r]) <= Copies(T, cin[r])
      BY <3>2, ClientCopies
    <3>4. /\ Copies(K, cin'[r]) <= Copies(K, cin[r]) + 1 /\ Copies(K, cin'[r]) \in Nat
          /\ K # m => Copies(K, cin'[r]) <= Copies(K, cin[r])
      BY <3>2, ClientCopies
    <3> QED
      BY <3>1, <3>3, <3>4
  <2> HIDE DEF T, K
  <2>7. CASE TalkHere(p) /\ peer[p] = r /\ ~ UNCHANGED cin
    <3>1. p = q /\ proc[q] = "TALK_HERE" /\ proc'[q] = "GET_FILENAME"
      BY <1>2, <2>5, <2>7 DEF TalkHere, Become, ProcTypeOK
    <3>2. ToClient(r, PDU(TalkHereFlag, q))
      BY <2>7, <3>1 DEF TalkHere
    <3>3. Copies(T, cin'[r]) <= Copies(T, cin[r]) + 1 /\ Copies(T, cin'[r]) \in Nat
      BY <2>6, <3>2
    <3>4. Copies(K, cin'[r]) <= Copies(K, cin[r]) /\ Copies(K, cin'[r]) \in Nat
      BY <2>6, <3>2 DEF TalkHereFlag, FileOkFlag
    <3> QED
      BY <1>7, <2>1, <3>1, <3>3, <3>4 DEF Undecided
  <2>8. CASE OpenSource(p) /\ peer[p] = r /\ ~ UNCHANGED cin
    <3>1. p = q /\ proc[q] = "GET_FILENAME" /\ proc'[q] \in {"SEND_DATA", "AWAIT_ERR_ACK", "MAIN"}
      BY <1>2, <2>5, <2>8 DEF OpenSource, Become, ProcTypeOK
    <3>2. cpc[r] # "GET_DATA"
      <4>1. q \notin opened
        BY <3>1, ForksAreProcs DEF PeerInv, Procs
      <4>2. cpc[r] = "GET_DATA" => server[r] = q
        BY <1>2, <1>3, <1>4, <1>9, OnlyChild DEF ServeInv, Children, ClientTypeOK, Talking
      <4> QED
        BY <4>1, <4>2 DEF ServeInv
    <3>3. ToClient(r, PDU(FileOkFlag, q)) \/ ToClient(r, PDU(FileBadFlag, q))
      BY <2>8, <3>1 DEF OpenSource
    <3>4. /\ Copies(T, cin'[r]) <= Copies(T, cin[r]) /\ Copies(T, cin'[r]) \in Nat
          /\ Copies(K, cin'[r]) <= Copies(K, cin[r]) + 1 /\ Copies(K, cin'[r]) \in Nat
      BY <2>6, <3>3 DEF TalkHereFlag, FileOkFlag, FileBadFlag
    <3> QED
      BY <1>7, <2>1, <3>1, <3>2, <3>4 DEF Undecided
  <2>9. CASE SendData(p) /\ peer[p] = r
    <3>1. p = q /\ proc'[q] = proc[q] /\ ToClient(r, PDU(DataFlag, q))
      BY <2>5, <2>9 DEF SendData, procVars
    <3>2. /\ Copies(T, cin'[r]) <= Copies(T, cin[r]) /\ Copies(T, cin'[r]) \in Nat
          /\ Copies(K, cin'[r]) <= Copies(K, cin[r]) /\ Copies(K, cin'[r]) \in Nat
      BY <2>6, <3>1 DEF TalkHereFlag, FileOkFlag, DataFlag
    <3> QED
      BY <1>7, <2>1, <3>1, <3>2
  <2>10. CASE (TalkHere(p) \/ OpenSource(p) \/ SendData(p)) /\ peer[p] # r
    <3>1. peer[p] \in Clients
      BY <1>2, <2>10 DEF TalkHere, OpenSource, SendData, PeerInv, ProcTypeOK, Procs
    <3>2. cin'[r] = cin[r]
      BY <2>4, <2>10, <3>1 DEF TalkHere, OpenSource, SendData
    <3> QED
      BY <2>3, <3>2
  <2>11. CASE UNCHANGED cin
    BY <2>3, <2>11
  <2> QED
    BY <2>7, <2>8, <2>9, <2>10, <2>11
       DEF ProcNext, ErrTimeout, DataEnd, Sigchld, Request, BadChecksum, ErrAck, TakeControl
<1> QED
  BY <1>8, <1>9

-----------------------------------------------------------------------------
(* The inductive invariant.                                                *)

\* It holds at first.
LEMMA IInvInit == Init => IInv
<1> SUFFICES ASSUME Init PROVE IInv
  OBVIOUS
<1>1. SessionTypeOK
  BY TypeInit
<1>2. /\ \A r \in Clients : /\ cpc[r] = "SEND_FILENAME" /\ requests[r] = 0
                            /\ BagToSet(cin[r]) = {}
      /\ \A p \in Procs : peer[p] = "none" /\ \A r : Sent(r, p) = 0
  BY NothingSent DEF Init, Sent
<1>3. PeerInv
  BY ForksAreProcs DEF Init, PeerInv
<1>4. ServeInv /\ SenderInv
  BY <1>2, ForksAreProcs, NothingSent DEF Init, ServeInv, SenderInv, Talking
<1>5. ASSUME NEW r \in Clients PROVE Children(r) = {} /\ Unread(r) = {}
  <2>1. Children(r) = {}
    BY <1>2, SessionAssumption DEF Children
  <2>2. ASSUME NEW x \in Unread(r) PROVE FALSE
    <3>1. PICK p \in Procs : \E k \in 1 .. Sent(r, p) : x = <<p, k>>
      BY <2>2, UnreadHas
    <3> QED
      BY <1>2, <3>1
  <2> QED
    BY <2>1, <2>2
<1>6. CountInv
  BY <1>2, <1>5, FS_EmptySet DEF CountInv
<1>7. OnceInv
  BY <1>5 DEF OnceInv
<1> QED
  BY <1>1, <1>3, <1>4, <1>6, <1>7 DEF IInv

\* A step that changes nothing keeps it.
LEMMA IInvStutter == IInv /\ UNCHANGED vars => IInv'
<1> SUFFICES ASSUME IInv, UNCHANGED vars PROVE IInv'
  OBVIOUS
<1>1. UNCHANGED <<cpc, tries, server, requests, proc, parent, peer, eretries, sigchld,
                  opened, cin, pin>>
  BY DEF vars, clientVars, procVars
<1>2. SessionTypeOK'
  BY <1>1 DEF IInv, SessionTypeOK, ClientTypeOK, ProcTypeOK, CinTypeOK, PinTypeOK
<1>3. PeerInv' /\ ServeInv' /\ SenderInv'
  BY <1>1 DEF IInv, PeerInv, ServeInv, SenderInv, Honest
<1>4. CountInv'
  BY <1>1 DEF IInv, CountInv, Children, Unread
<1>5. OnceInv'
  BY <1>1 DEF IInv, OnceInv, Children, Once
<1> QED
  BY <1>2, <1>3, <1>4, <1>5 DEF IInv

\* Every step keeps it.
LEMMA IInvStep == IInv /\ [Next]_vars => IInv'
<1> SUFFICES ASSUME IInv, [Next]_vars PROVE IInv'
  OBVIOUS
<1>1. ASSUME NEW r \in Clients, ClientNext(r) PROVE IInv'
  <2>1. SessionTypeOK'
    BY <1>1, ClientTypeStep DEF IInv
  <2>2. PeerInv'
    BY <1>1, ClientLeavesProcs DEF IInv, PeerInv
  <2>3. ServeInv' /\ SenderInv' /\ CountInv' /\ OnceInv'
    BY <1>1, <2>1, ClientServeStep, ClientSenderStep, ClientCountStep, ClientOnceStep DEF IInv
  <2> QED
    BY <2>1, <2>2, <2>3 DEF IInv
<1>2. ASSUME NEW p \in Procs, ProcNext(p) PROVE IInv'
  <2>1. SessionTypeOK'
    BY <1>2, ProcTypeStep DEF IInv
  <2>2. CountInv'
    BY <1>2, <2>1, ProcCountStep DEF IInv
  <2>3. PeerInv' /\ ServeInv' /\ SenderInv' /\ OnceInv'
    BY <1>2, <2>2, PeerStep, ProcServeStep, ProcSenderStep, ProcOnceStep DEF IInv
  <2> QED
    BY <2>1, <2>2, <2>3 DEF IInv
<1>3. CASE UNCHANGED vars
  BY <1>3, IInvStutter
<1> QED
  BY <1>1, <1>2, <1>3 DEF Next, Idle

\* It holds always.
LEMMA IInvAlways == Spec => []IInv
  BY IInvInit, IInvStep, PTL DEF Spec

-----------------------------------------------------------------------------
\* The variables of the exchange keep their types, its three retry counters
\* their bounds, and nothing is under way to a closed socket
\* (doSendFilenameState, doFileValidState, doGetFilenameState).
THEOREM SessionTypesHold == Spec => []SessionTypeOK
<1>1. IInv => SessionTypeOK
  BY DEF IInv
<1> QED
  BY <1>1, IInvAlways, PTL

\* For any number of rcopies and children: an rcopy that copies takes its data
\* from a child that was forked for it and opened the file (doSendFilenameState,
\* doFileValidState, startFSM).
THEOREM SessionServedByOpener == Spec => []ServedByOpener
<1>1. IInv => ServedByOpener
  BY DEF IInv, ServeInv, ServedByOpener, Talking
<1> QED
  BY <1>1, IInvAlways, PTL

\* main never serves a filename PDU twice: the children of an rcopy none of whose
\* other PDUs it takes for one, and its unread PDUs, are at most the PDUs it sent
\* (main, startFSM).
THEOREM SessionForkPerRequest == Spec => []ForkPerRequest
<1>1. IInv => ForkPerRequest
  BY DEF IInv, CountInv, ForkPerRequest
<1> QED
  BY <1>1, IInvAlways, PTL

\* Such an rcopy, when it sent its filename once, finds nothing but data in its
\* socket once it is in GET_DATA (doFileValidState, doGetFilenameState).
THEOREM SessionOneRequestOneChild == Spec => []OneRequestOneChild
<1>1. IInv => OneRequestOneChild
  <2> SUFFICES ASSUME IInv, NEW r \in Clients, r \notin Cancelling, cpc[r] = "GET_DATA",
                      requests[r] = 1, NEW m \in BagToSet(cin[r])
               PROVE  m.flag = DataFlag
    BY DEF OneRequestOneChild
  <2>1. m \in [flag : Flags, from : Procs] /\ Honest(r, m) /\ IsABag(cin[r])
    BY DEF IInv, SessionTypeOK, CinTypeOK, ServeInv
  <2>2. server[r] \in Children(r) /\ server[r] \in opened /\ m.from \in Children(r)
    BY <2>1 DEF IInv, SessionTypeOK, ClientTypeOK, ServeInv, Honest, Children, Talking
  <2>3. m.from \in opened
    <3>1. Counted(r)
      BY DEF IInv, CountInv, Counted
    <3>2. m.from = server[r]
      BY <2>2, <3>1, OnlyChild
    <3> QED
      BY <2>2, <3>2
  <2>4. Once(r, m.from)
    BY <2>2 DEF IInv, OnceInv
  <2>5. Copies(m, cin[r]) \in Nat /\ Copies(m, cin[r]) >= 1
    BY <2>1, CopiesType
  <2>6. m = PDU(m.flag, m.from)
    BY <2>1 DEF PDU
  <2>7. m.flag # TalkHereFlag /\ m.flag # FileOkFlag
    BY <2>4, <2>5, <2>6 DEF Once, Talking
  <2> QED
    BY <2>1, <2>3, <2>7 DEF Honest
<1> QED
  BY <1>1, IInvAlways, PTL

-----------------------------------------------------------------------------
(* The exchange implements Dispatch.                                       *)

dispatchVars == <<requests, Serves, opened, Source, Left>>

\* An rcopy asks, starts to copy, leaves, or does nothing Dispatch can see.
LEMMA ClientDispatches ==
  ASSUME IInv, IInv', NEW r \in Clients, ClientNext(r)
  PROVE  [Service!Next]_dispatchVars
<1>1. UNCHANGED <<peer, opened>> /\ ClientEffect(r)
  BY ClientLeavesProcs, ClientMoves DEF IInv
<1>2. UNCHANGED <<Serves, opened>>
  BY <1>1 DEF Serves
<1>3. ClientTypeOK /\ ClientTypeOK' /\ ServeInv'
  BY DEF IInv, SessionTypeOK
<1>4. /\ \A x \in Clients : x # r => /\ cpc'[x] = cpc[x] /\ server'[x] = server[x]
                                     /\ requests'[x] = requests[x]
      /\ cpc[r] # "DONE" /\ (cpc[r] = "GET_DATA" => cpc'[r] \in {"GET_DATA", "DONE"})
  BY <1>1 DEF ClientEffect
<1>5. requests'[r] = requests[r] => UNCHANGED requests
  BY <1>3, <1>4 DEF ClientTypeOK
<1>6. /\ DOMAIN Source = Clients /\ DOMAIN Source' = Clients
      /\ \A x \in Clients : /\ Source[x] = IF cpc[x] = "GET_DATA" THEN {server[x]} ELSE {}
                            /\ Source'[x] = IF cpc'[x] = "GET_DATA" THEN {server'[x]} ELSE {}
                            /\ x # r => Source'[x] = Source[x]
      /\ Source = [x \in Clients |-> Source[x]] /\ Source' = [x \in Clients |-> Source'[x]]
  BY <1>4 DEF Source
<1>7. Left = {x \in Clients : cpc[x] = "DONE"} /\ Left' = {x \in Clients : cpc'[x] = "DONE"}
  BY DEF Left
<1>8. CASE requests'[r] # requests[r]
  <2>1. /\ cpc[r] = "SEND_FILENAME" /\ cpc'[r] = "AWAIT_TALK_HERE"
        /\ requests' = [requests EXCEPT ![r] = @ + 1]
    BY <1>1, <1>8 DEF ClientEffect
  <2>2. UNCHANGED <<Source, Left>> /\ Source[r] = {} /\ r \notin Left
    BY <1>4, <1>6, <1>7, <2>1
  <2>3. Service!Ask(r)
    BY <1>2, <2>1, <2>2 DEF Service!Ask, Service!Waiting
  <2> QED
    BY <2>3 DEF Service!Next
<1>9. CASE requests'[r] = requests[r] /\ cpc'[r] = "DONE"
  <2>1. r \notin Left /\ Left' = Left \cup {r}
    BY <1>4, <1>7, <1>9
  <2>2. Source' = [Source EXCEPT ![r] = {}]
    BY <1>6, <1>9
  <2>3. Service!Leave(r)
    BY <1>2, <1>5, <1>9, <2>1, <2>2 DEF Service!Leave
  <2> QED
    BY <2>3 DEF Service!Next
<1>10. CASE requests'[r] = requests[r] /\ cpc'[r] = "GET_DATA" /\ cpc[r] # "GET_DATA"
  <2>1. server'[r] \in Procs /\ peer[server'[r]] = r /\ server'[r] \in opened
    BY <1>1, <1>3, <1>10 DEF ServeInv, ClientTypeOK, Talking
  <2>2. server'[r] \in Forks
    BY <2>1, SessionAssumption DEF IInv, PeerInv, Procs
  <2>3. UNCHANGED Left /\ r \notin Left /\ Source[r] = {}
    BY <1>4, <1>6, <1>7, <1>10
  <2>4. Source' = [Source EXCEPT ![r] = {server'[r]}]
    BY <1>6, <1>10
  <2>5. PICK p \in Forks : p = server'[r]
    BY <2>2
  <2>6. Serves[p] = r /\ p \in opened
    BY <2>1, <2>5 DEF Serves
  <2>7. Service!CopyFrom(r, p)
    BY <1>2, <1>5, <1>10, <2>3, <2>4, <2>5, <2>6 DEF Service!CopyFrom, Service!Waiting
  <2> QED
    BY <2>7 DEF Service!Next
<1>11. CASE /\ requests'[r] = requests[r] /\ cpc'[r] # "DONE"
            /\ cpc'[r] = "GET_DATA" <=> cpc[r] = "GET_DATA"
  <2>1. cpc[r] = "GET_DATA" => server'[r] = server[r]
    BY <1>1, <1>11 DEF ClientEffect, Talking
  <2>2. UNCHANGED <<Source, Left>>
    BY <1>4, <1>6, <1>7, <1>11, <2>1
  <2> QED
    BY <1>2, <1>5, <1>11, <2>2 DEF dispatchVars
<1> QED
  BY <1>4, <1>8, <1>9, <1>10, <1>11

\* A process is given to an rcopy that asked, opens the file, or does nothing
\* Dispatch can see.
LEMMA ProcDispatches ==
  ASSUME IInv, NEW p \in Procs, ProcNext(p)
  PROVE  [Service!Next]_dispatchVars
<1>1. UNCHANGED <<cpc, server, requests>>
  BY ProcLeavesClients
<1>2. UNCHANGED <<requests, Source, Left>>
  BY <1>1 DEF Source, Left
<1>3. PinTypeOK /\ ProcTypeOK /\ PeerInv /\ ClientTypeOK
  BY DEF IInv, SessionTypeOK
<1>4. CASE UNCHANGED <<peer, opened>>
  BY <1>2, <1>4 DEF Serves, dispatchVars
<1>5. ASSUME OpenSource(p), fopenWorks(p) PROVE [Service!Next]_dispatchVars
  <2>1. p \in Forks /\ p \notin opened /\ peer[p] # "none" /\ UNCHANGED peer
    BY <1>3, <1>5 DEF OpenSource, PeerInv, Procs
  <2>2. Serves[p] # "none" /\ UNCHANGED Serves /\ opened' = opened \cup {p}
    BY <1>5, <2>1 DEF Serves, fopenWorks
  <2>3. Service!Open(p)
    BY <1>2, <2>1, <2>2 DEF Service!Open
  <2> QED
    BY <2>1, <2>3 DEF Service!Next
<1>6. ASSUME NEW m \in BagToSet(pin[p]), Request(p, m), NEW q \in Free,
             peer' = [peer EXCEPT ![q] = m.from]
      PROVE  [Service!Next]_dispatchVars
  <2>1. m \in [flag : Flags, from : Clients] /\ UNCHANGED opened
    BY <1>3, <1>6 DEF PinTypeOK, Request
  <2>2. PICK r \in Clients : r = m.from
    BY <2>1
  <2>3. q \in Forks /\ peer[q] = "none"
    BY <1>3 DEF Free, PeerInv
  <2>4. Serves[q] = "none" /\ Serves' = [Serves EXCEPT ![q] = r]
    BY <1>3, <1>6, <2>2, <2>3, ForksAreProcs DEF Serves, ProcTypeOK
  <2>5. ASSUME r \notin Cancelling PROVE Cardinality({x \in Forks : Serves[x] = r}) < requests[r]
    <3>1. {x \in Forks : Serves[x] = r} = Children(r)
      BY <1>3, SessionAssumption DEF Serves, Children, PeerInv, Procs
    <3>2. m = PDU(FilenameFlag, r)
      BY <1>6, <2>1, <2>2, <2>5, RequestOf DEF PDU, IInv
    <3>3. Sent(r, p) \in Nat /\ Sent(r, p) >= 1
      BY <1>3, <3>2, CopiesType DEF PinTypeOK, Sent
    <3>4. <<p, 1>> \in Unread(r)
      BY <3>3, UnreadHas
    <3>5. Counted(r) /\ requests[r] \in Nat
      BY <1>3, <2>5 DEF IInv, CountInv, Counted, ClientTypeOK
    <3>6. /\ Cardinality(Children(r)) \in Nat /\ Cardinality(Unread(r)) \in Nat
          /\ Cardinality(Unread(r)) # 0
      BY <3>4, <3>5, FS_CardinalityType, FS_EmptySet DEF Counted
    <3>7. Cardinality(Children(r)) < requests[r]
      BY <3>5, <3>6 DEF Counted
    <3> QED
      BY <3>1, <3>7, Zenon
  <2>6. \A S : Service!Cardinality(S) = Cardinality(S)
    BY Zenon DEF Service!Cardinality, Cardinality, Service!IsFiniteSet, IsFiniteSet
  <2>7. r \in Cancelling \/ Service!Cardinality({x \in Forks : Serves[x] = r}) < requests[r]
    BY <2>5, <2>6, Zenon
  <2>8. Service!Assign(q, r)
    BY <1>2, <2>1, <2>4, <2>7 DEF Service!Assign
  <2> QED
    BY <2>3, <2>8 DEF Service!Next
<1>7. ASSUME NEW m \in BagToSet(pin[p]), Request(p, m) PROVE [Service!Next]_dispatchVars
  BY <1>4, <1>6, <1>7 DEF Request
<1>8. CASE OpenSource(p)
  BY <1>4, <1>5, <1>8 DEF OpenSource, fopenFails
<1> QED
  BY <1>4, <1>7, <1>8
     DEF ProcNext, TalkHere, ErrTimeout, SendData, DataEnd, Sigchld, BadChecksum, ErrAck,
         TakeControl, procVars

\* For any number of rcopies and children, the exchange implements Dispatch: a
\* child serves one rcopy for life, no rcopy gets more children than it asked for
\* unless main takes its other PDUs for requests too, and it copies from one of them only, one that opened the file
\* (main, startFSM, doGetFilenameState, doSendFilenameState, doFileValidState).
THEOREM SessionImplementsDispatch == Spec => ImplementsDispatch
<1>1. Init => Service!Init
  <2> SUFFICES ASSUME Init PROVE Service!Init
    OBVIOUS
  <2>1. Serves = [p \in Forks |-> "none"]
    BY ForksAreProcs DEF Init, Serves
  <2>2. Source = [r \in Clients |-> {}] /\ Left = {}
    BY DEF Init, Source, Left
  <2> QED
    BY <2>1, <2>2 DEF Init, Service!Init
<1>2. IInv /\ IInv' /\ [Next]_vars => [Service!Next]_dispatchVars
  <2> SUFFICES ASSUME IInv, IInv', [Next]_vars PROVE [Service!Next]_dispatchVars
    OBVIOUS
  <2>1. CASE UNCHANGED vars
    BY <2>1 DEF vars, clientVars, procVars, dispatchVars, Serves, Source, Left
  <2> QED
    BY <2>1, ClientDispatches, ProcDispatches DEF Next, Idle
<1> QED
  BY <1>1, <1>2, IInvAlways, PTL DEF Spec, Service!Spec, ImplementsDispatch, dispatchVars
=============================================================================
