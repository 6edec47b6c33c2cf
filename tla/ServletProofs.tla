--------------------------- MODULE ServletProofs ---------------------------
(***************************************************************************)
(* What the steps of the server, of its clients and of the network do to the   *)
(* two parts of the inductive invariant, for any number of connections,         *)
(* commands, peers and turns.                                                *)
(*                                                                          *)
(* First the lists of the models: what Append, Tail and RemoveAt do to the set   *)
(* of a list's elements and to its having no element twice.  Then, for each      *)
(* servlet, a lemma for every action that changes its part.                     *)
(*                                                                          *)
(* The core of the ENet part is the order of sessions: a session is asked, told  *)
(* to the server, answered and heard, and each of these takes it from the end or *)
(* to the end of a list in which the sessions rise.  The lemmas on lists say so  *)
(* for any two lists; those on the steps say what each does to its peer, and      *)
(* that the other peers do not notice.                                        *)
(***************************************************************************)
EXTENDS ComplexServer, SequenceTheorems, FiniteSetTheorems, TLAPS

-----------------------------------------------------------------------------
(* Lists.                                                                    *)

(* What is put at the end of a list is one more of its elements.              *)
LEMMA AppendFacts ==
  ASSUME NEW S, NEW s \in Seq(S), NEW e \in S
  PROVE  /\ Append(s, e) \in Seq(S)
         /\ Tcp!ToSet(Append(s, e)) = Tcp!ToSet(s) \cup {e}
         /\ Tcp!IsInjective(s) /\ e \notin Tcp!ToSet(s) => Tcp!IsInjective(Append(s, e))
  <1> DEFINE t == Append(s, e)
  <1>1. /\ t \in Seq(S) /\ Len(t) = Len(s) + 1
        /\ \A i \in 1..Len(s) : t[i] = s[i]
        /\ t[Len(s) + 1] = e
    BY AppendProperties
  <1>2. DOMAIN t = 1..(Len(s) + 1) /\ DOMAIN s = 1..Len(s) /\ Len(s) \in Nat
    BY <1>1, LenProperties
  <1> HIDE DEF t
  <1>3. \A k \in DOMAIN t : (k \in DOMAIN s /\ t[k] = s[k]) \/ (k = Len(s) + 1 /\ t[k] = e)
    BY <1>1, <1>2
  <1>4. \A k \in DOMAIN s : k \in DOMAIN t /\ t[k] = s[k]
    BY <1>1, <1>2
  <1>5. Tcp!ToSet(t) = Tcp!ToSet(s) \cup {e}
    BY <1>1, <1>2, <1>3, <1>4 DEF Tcp!ToSet
  <1>6. ASSUME Tcp!IsInjective(s), e \notin Tcp!ToSet(s) PROVE Tcp!IsInjective(t)
    BY <1>3, <1>6 DEF Tcp!IsInjective, Tcp!ToSet
  <1> QED BY <1>1, <1>5, <1>6 DEF t

(* A list has its head and the elements of its tail; if it has none twice,     *)
(* the head is not among those.                                              *)
LEMMA TailFacts ==
  ASSUME NEW S, NEW s \in Seq(S), s # <<>>
  PROVE  /\ Head(s) \in S /\ Tail(s) \in Seq(S)
         /\ Head(s) \in Tcp!ToSet(s)
         /\ Tcp!ToSet(s) = {Head(s)} \cup Tcp!ToSet(Tail(s))
         /\ Tcp!IsInjective(s) => /\ Tcp!IsInjective(Tail(s))
                                  /\ Head(s) \notin Tcp!ToSet(Tail(s))
  <1> DEFINE t == Tail(s)
  <1>1. /\ Head(s) \in S /\ t \in Seq(S) /\ Len(t) = Len(s) - 1
        /\ \A i \in 1..Len(t) : t[i] = s[i + 1]
    BY HeadTailProperties
  <1>2. DOMAIN t = 1..(Len(s) - 1) /\ DOMAIN s = 1..Len(s) /\ Len(s) \in Nat \ {0}
    BY <1>1, LenProperties, EmptySeq
  <1>3. Head(s) = s[1] OBVIOUS
  <1> HIDE DEF t
  <1>4. \A k \in DOMAIN t : k + 1 \in DOMAIN s /\ k + 1 # 1 /\ t[k] = s[k + 1] /\ k \in Nat
    BY <1>1, <1>2
  <1>5. \A k \in DOMAIN s : k = 1 \/ (k - 1 \in DOMAIN t /\ t[k - 1] = s[k])
    BY <1>1, <1>2
  <1>6. 1 \in DOMAIN s BY <1>2
  <1>7. Tcp!ToSet(s) = {s[1]} \cup Tcp!ToSet(t)
    <2>1. ASSUME NEW x \in Tcp!ToSet(s) PROVE x = s[1] \/ x \in Tcp!ToSet(t)
      BY <2>1, <1>5 DEF Tcp!ToSet
    <2>2. ASSUME NEW x \in Tcp!ToSet(t) PROVE x \in Tcp!ToSet(s)
      BY <2>2, <1>4 DEF Tcp!ToSet
    <2>3. s[1] \in Tcp!ToSet(s) BY <1>6 DEF Tcp!ToSet
    <2> QED BY <2>1, <2>2, <2>3
  <1>8. ASSUME Tcp!IsInjective(s) PROVE Tcp!IsInjective(t) /\ s[1] \notin Tcp!ToSet(t)
    <2>1. ASSUME NEW a \in DOMAIN t, NEW b \in DOMAIN t, t[a] = t[b] PROVE a = b
      <3>1. a + 1 = b + 1 BY <1>4, <1>8, <2>1 DEF Tcp!IsInjective
      <3> QED BY <1>4, <3>1
    <2>2. ASSUME NEW a \in DOMAIN t, t[a] = s[1] PROVE FALSE
      BY <1>4, <1>6, <1>8, <2>2 DEF Tcp!IsInjective
    <2> QED BY <2>1, <2>2 DEF Tcp!IsInjective, Tcp!ToSet
  <1> QED BY <1>1, <1>3, <1>7, <1>8 DEF t

(* RemoveAt takes one element off a list that has it once.                    *)
LEMMA RemoveAtFacts ==
  ASSUME NEW S, NEW s \in Seq(S), NEW i \in DOMAIN s, Tcp!IsInjective(s)
  PROVE  /\ Tcp!RemoveAt(s, i) \in Seq(S)
         /\ Tcp!IsInjective(Tcp!RemoveAt(s, i))
         /\ Tcp!ToSet(Tcp!RemoveAt(s, i)) = Tcp!ToSet(s) \ {s[i]}
  <1> DEFINE a == SubSeq(s, 1, i - 1)
             b == SubSeq(s, i + 1, Len(s))
             t == a \o b
  <1>1. DOMAIN s = 1..Len(s) /\ Len(s) \in Nat /\ i \in 1..Len(s)
        /\ \A k \in 1..Len(s) : s[k] \in S
    BY LenProperties
  <1>2. /\ a \in Seq(S) /\ Len(a) = i - 1
        /\ \A k \in 1..(i - 1) : a[k] = s[k]
    <2>1. /\ a \in Seq(S) /\ Len(a) = IF 1 <= i - 1 THEN (i - 1) - 1 + 1 ELSE 0
          /\ \A k \in 1..((i - 1) - 1 + 1) : a[k] = s[1 + k - 1]
      BY <1>1, SubSeqProperties
    <2> QED BY <1>1, <2>1
  <1>3. /\ b \in Seq(S) /\ Len(b) = Len(s) - i
        /\ \A k \in 1..(Len(s) - i) : b[k] = s[i + k]
    <2>1. /\ b \in Seq(S) /\ Len(b) = IF i + 1 <= Len(s) THEN Len(s) - (i + 1) + 1 ELSE 0
          /\ \A k \in 1..(Len(s) - (i + 1) + 1) : b[k] = s[(i + 1) + k - 1]
      BY <1>1, SubSeqProperties
    <2>2. Len(s) - (i + 1) + 1 = Len(s) - i BY <1>1
    <2>3. \A k \in 1..(Len(s) - i) : (i + 1) + k - 1 = i + k BY <1>1
    <2>4. Len(b) = Len(s) - i BY <1>1, <2>1
    <2> HIDE DEF b
    <2>5. \A k \in 1..(Len(s) - i) : b[k] = s[i + k] BY <2>1, <2>2, <2>3
    <2> QED BY <2>1, <2>4, <2>5
  <1> HIDE DEF a, b
  <1>4. /\ t \in Seq(S) /\ Len(t) = Len(s) - 1
        /\ \A k \in 1..(Len(s) - 1) : t[k] = IF k <= i - 1 THEN a[k] ELSE b[k - (i - 1)]
    <2>1. /\ t \in Seq(S) /\ Len(t) = Len(a) + Len(b)
          /\ \A k \in 1..(Len(a) + Len(b)) : t[k] = IF k <= Len(a) THEN a[k] ELSE b[k - Len(a)]
      BY <1>2, <1>3, ConcatProperties
    <2>2. Len(a) + Len(b) = Len(s) - 1 BY <1>1, <1>2, <1>3
    <2> QED BY <1>2, <2>1, <2>2
  <1>5. DOMAIN t = 1..(Len(s) - 1) BY <1>4, LenProperties
  <1> HIDE DEF t
  <1> DEFINE at_(k) == IF k < i THEN k ELSE k + 1
  <1>6. \A k \in DOMAIN t : at_(k) \in DOMAIN s /\ at_(k) # i /\ t[k] = s[at_(k)]
    <2> TAKE k \in DOMAIN t
    <2>1. CASE k < i BY <1>1, <1>2, <1>4, <1>5, <2>1
    <2>2. CASE ~(k < i)
      <3>1. k - (i - 1) \in 1..(Len(s) - i) /\ i + (k - (i - 1)) = k + 1
        BY <1>1, <1>5, <2>2
      <3>2. t[k] = b[k - (i - 1)] BY <1>1, <1>4, <1>5, <2>2
      <3>3. b[k - (i - 1)] = s[k + 1] BY <1>3, <3>1
      <3> QED BY <1>1, <1>5, <2>2, <3>2, <3>3
    <2> QED BY <2>1, <2>2
  <1>7. \A k, l \in DOMAIN t : at_(k) = at_(l) => k = l
    BY <1>1, <1>5
  <1>8. \A j \in DOMAIN s : j # i => \E k \in DOMAIN t : at_(k) = j
    <2> TAKE j \in DOMAIN s
    <2> HAVE j # i
    <2>1. CASE j < i
      <3>1. j \in DOMAIN t /\ at_(j) = j BY <1>1, <1>5, <2>1
      <3> QED BY <3>1
    <2>2. CASE ~(j < i)
      <3>1. j - 1 \in DOMAIN t /\ at_(j - 1) = j BY <1>1, <1>5, <2>2
      <3> QED BY <3>1
    <2> QED BY <2>1, <2>2
  <1> HIDE DEF at_
  <1>9. Tcp!IsInjective(t)
    BY <1>6, <1>7 DEF Tcp!IsInjective
  <1>10. Tcp!ToSet(t) = Tcp!ToSet(s) \ {s[i]}
    <2>1. ASSUME NEW x \in Tcp!ToSet(t) PROVE x \in Tcp!ToSet(s) /\ x # s[i]
      BY <2>1, <1>6 DEF Tcp!ToSet, Tcp!IsInjective
    <2>2. ASSUME NEW x \in Tcp!ToSet(s), x # s[i] PROVE x \in Tcp!ToSet(t)
      <3>1. PICK j \in DOMAIN s : x = s[j] BY DEF Tcp!ToSet
      <3>2. PICK k \in DOMAIN t : at_(k) = j BY <1>8, <2>2, <3>1
      <3> QED BY <1>6, <3>1, <3>2 DEF Tcp!ToSet
    <2> QED BY <2>1, <2>2
  <1>11. Tcp!RemoveAt(s, i) = t BY DEF Tcp!RemoveAt, t, a, b
  <1> QED BY <1>4, <1>9, <1>10, <1>11

-----------------------------------------------------------------------------
(* The steps.                                                                *)

(* The other steps of the whole leave the TCP part as it is.                  *)
LEMMA TcpIdle ==
  ASSUME Tcp!TcpInv, UNCHANGED tcpVars
  PROVE  Tcp!TcpInv'
  BY DEF tcpVars, Tcp!TcpInv, Tcp!TypeOK, Tcp!TablesAgree, Tcp!ClientAt

(* A client at work changes neither the tables nor the backlog: it is enough    *)
(* to look at its own connection.                                             *)
LEMMA ClientStep ==
  ASSUME Tcp!TcpInv, UNCHANGED <<sockets, socketinfo, ready, backlog>>, Tcp!TypeOK',
         NEW c \in Clients, Tcp!ClientAt(c)',
         \A d \in Clients \ {c} : UNCHANGED <<cpc[d], tcpSession[d], tcpUp[d], tcpDown[d]>>
  PROVE  Tcp!TcpInv'
  <1>1. Tcp!TablesAgree' BY DEF Tcp!TcpInv, Tcp!TablesAgree
  <1>2. \A d \in Clients : Tcp!ClientAt(d)' BY DEF Tcp!TcpInv, Tcp!ClientAt
  <1>3. Tcp!IsInjective(backlog)' /\ (Listener \in ready => backlog # <<>>)'
    BY DEF Tcp!TcpInv
  <1> QED BY <1>1, <1>2, <1>3 DEF Tcp!TcpInv

(* select() tells of sockets that are listed, and of the listener only when a   *)
(* connection waits.                                                         *)
LEMMA TcpSelect ==
  ASSUME Tcp!TcpInv, Tcp!Select
  PROVE  Tcp!TcpInv'
  <1>1. /\ ready' = {s \in Tcp!ToSet(sockets) : Tcp!Readable(s)}
        /\ UNCHANGED <<sockets, socketinfo, tcpCount, backlog, tcpUp, tcpDown, ended, cpc,
                       tcpSession, typed, quitting>>
    BY DEF Tcp!Select, Tcp!clientVars
  <1>2. ready' \subseteq Tcp!ToSet(sockets) BY <1>1
  <1>3. Listener \in ready' => backlog # <<>> BY <1>1 DEF Tcp!Readable
  <1>4. Tcp!ToSet(sockets) \subseteq Clients \cup {Listener}
    BY DEF Tcp!TcpInv, Tcp!TypeOK, Tcp!TablesAgree
  <1>5. Tcp!TypeOK' BY <1>1, <1>2, <1>4 DEF Tcp!TcpInv, Tcp!TypeOK
  <1>6. Tcp!TablesAgree' BY <1>1, <1>2 DEF Tcp!TcpInv, Tcp!TablesAgree
  <1>7. \A c \in Clients : Tcp!ClientAt(c)' BY <1>1 DEF Tcp!TcpInv, Tcp!ClientAt
  <1>8. Tcp!IsInjective(backlog)' BY <1>1 DEF Tcp!TcpInv
  <1> QED BY <1>1, <1>3, <1>5, <1>6, <1>7, <1>8 DEF Tcp!TcpInv

(* The connection accepted is in neither table: it waited, and it waited once.  *)
LEMMA TcpAccept ==
  ASSUME Tcp!TcpInv, Tcp!Accept
  PROVE  Tcp!TcpInv'
  <1> DEFINE c == Head(backlog)
  <1>1. /\ Listener \in ready /\ ready' = ready \ {Listener} /\ tcpCount' = tcpCount + 1
        /\ backlog' = Tail(backlog) /\ sockets' = Append(sockets, c)
        /\ socketinfo' = socketinfo \cup {c}
        /\ UNCHANGED <<tcpUp, tcpDown, ended, cpc, tcpSession, typed, quitting>>
    BY DEF Tcp!Accept, Tcp!Served, Tcp!clientVars
  <1>2. backlog \in Seq(Clients) /\ backlog # <<>> /\ Tcp!IsInjective(backlog)
    BY <1>1 DEF Tcp!TcpInv, Tcp!TypeOK
  <1>3. /\ c \in Clients /\ backlog' \in Seq(Clients)
        /\ c \in Tcp!ToSet(backlog) /\ c \notin Tcp!ToSet(backlog')
        /\ Tcp!ToSet(backlog) = {c} \cup Tcp!ToSet(backlog')
        /\ Tcp!IsInjective(backlog')
    BY <1>1, <1>2, TailFacts
  <1> HIDE DEF c
  <1>4. /\ sockets \in Seq(Clients \cup {Listener}) /\ Tcp!IsInjective(sockets)
        /\ c \notin Tcp!ToSet(sockets)
    BY <1>3, ServerAssumption DEF Tcp!TcpInv, Tcp!TypeOK, Tcp!TablesAgree
  <1>5. /\ sockets' \in Seq(Clients \cup {Listener}) /\ Tcp!IsInjective(sockets')
        /\ Tcp!ToSet(sockets') = Tcp!ToSet(sockets) \cup {c}
    BY <1>1, <1>3, <1>4, AppendFacts
  <1>6. Tcp!TypeOK' BY <1>1, <1>3, <1>5, SMTT(30) DEF Tcp!TcpInv, Tcp!TypeOK
  <1>7. Tcp!TablesAgree' BY <1>1, <1>3, <1>5 DEF Tcp!TcpInv, Tcp!TablesAgree
  <1>8. \A d \in Clients : Tcp!ClientAt(d)' BY <1>1, <1>3 DEF Tcp!TcpInv, Tcp!ClientAt
  <1> QED BY <1>1, <1>3, <1>6, <1>7, <1>8 DEF Tcp!TcpInv

(* A request answered was the only one under way.                             *)
LEMMA TcpAnswer ==
  ASSUME Tcp!TcpInv, NEW c \in Clients, Tcp!Answer(c)
  PROVE  Tcp!TcpInv'
  <1>1. /\ ready' = ready \ {c} /\ tcpCount' = tcpCount + 1
        /\ tcpUp[c] # <<>> /\ tcpUp' = [tcpUp EXCEPT ![c] = <<>>]
        /\ tcpDown' = [tcpDown EXCEPT ![c] = Append(@, Head(tcpUp[c]))]
        /\ UNCHANGED <<sockets, socketinfo, backlog, ended, cpc, tcpSession, typed, quitting>>
    BY DEF Tcp!Answer, Tcp!Served, Tcp!Drain, Tcp!clientVars
  <1>2. tcpUp \in [Clients -> Seq(Nat)] /\ tcpDown \in [Clients -> Seq(Nat)]
    BY DEF Tcp!TcpInv, Tcp!TypeOK
  <1>3. Append(tcpDown[c], Head(tcpUp[c])) \in Seq(Nat)
    BY <1>1, <1>2, HeadTailProperties, AppendProperties
  <1>4. Tcp!TypeOK'
    <2>1. tcpUp' \in [Clients -> Seq(Nat)] BY <1>1, <1>2, EmptySeq
    <2>2. tcpDown' \in [Clients -> Seq(Nat)] BY <1>1, <1>2, <1>3
    <2>3. ready' \subseteq Clients \cup {Listener} /\ tcpCount' \in Nat
      BY <1>1 DEF Tcp!TcpInv, Tcp!TypeOK
    <2>4. UNCHANGED <<sockets, socketinfo, backlog, ended, cpc, tcpSession, typed, quitting>>
      BY <1>1
    <2> QED BY <2>1, <2>2, <2>3, <2>4 DEF Tcp!TcpInv, Tcp!TypeOK
  <1>5. Tcp!TablesAgree' BY <1>1 DEF Tcp!TcpInv, Tcp!TablesAgree
  <1>6. tcpUp'[c] = <<>> /\ tcpDown'[c] = Append(tcpDown[c], Head(tcpUp[c]))
    BY <1>1, <1>2
  <1>7. Tcp!ClientAt(c) BY DEF Tcp!TcpInv
  <1>8. cpc[c] = "waiting" => tcpDown'[c] = <<tcpSession[c]>>
    <2> HAVE cpc[c] = "waiting"
    <2>1. tcpUp[c] = <<tcpSession[c]>> /\ tcpDown[c] = <<>>
      BY <1>1, <1>7 DEF Tcp!ClientAt
    <2> QED BY <1>6, <2>1
  <1>9. Tcp!ClientAt(c)' BY <1>1, <1>6, <1>7, <1>8 DEF Tcp!ClientAt
  <1>10. \A d \in Clients \ {c} : Tcp!ClientAt(d)'
    BY <1>1, <1>2 DEF Tcp!TcpInv, Tcp!ClientAt
  <1> QED BY <1>1, <1>4, <1>5, <1>9, <1>10 DEF Tcp!TcpInv

(* An error of recv is forgotten.                                             *)
LEMMA TcpReceiveError ==
  ASSUME Tcp!TcpInv, NEW c \in Clients, Tcp!ReceiveError(c)
  PROVE  Tcp!TcpInv'
  <1>1. /\ ready' = ready \ {c} /\ tcpCount' = tcpCount + 1
        /\ ended' = [ended EXCEPT ![c] = "eof"]
        /\ UNCHANGED <<sockets, socketinfo, backlog, tcpUp, tcpDown, cpc, tcpSession, typed, quitting>>
    BY DEF Tcp!ReceiveError, Tcp!Served, Tcp!clientVars
  <1>2. Tcp!TypeOK'
    <2>1. ended' \in [Clients -> {"no", "error", "eof"}] BY <1>1 DEF Tcp!TcpInv, Tcp!TypeOK
    <2>2. ready' \subseteq ready /\ tcpCount' = tcpCount + 1
          /\ UNCHANGED <<sockets, socketinfo, backlog, tcpUp, tcpDown, cpc, tcpSession, typed, quitting>>
      BY <1>1
    <2> QED BY <2>1, <2>2, SMTT(30) DEF Tcp!TcpInv, Tcp!TypeOK
  <1>3. Tcp!TablesAgree' BY <1>1 DEF Tcp!TcpInv, Tcp!TablesAgree
  <1>4. \A d \in Clients : Tcp!ClientAt(d)' BY <1>1 DEF Tcp!TcpInv, Tcp!ClientAt
  <1> QED BY <1>1, <1>2, <1>3, <1>4 DEF Tcp!TcpInv

(* A socket removed from both tables is not one still to be served.            *)
LEMMA TcpDisconnected ==
  ASSUME Tcp!TcpInv, NEW c \in Clients, Tcp!Disconnected(c)
  PROVE  Tcp!TcpInv'
  <1>1. /\ ready' = ready \ {c} /\ tcpCount' = tcpCount + 1
        /\ ended' = [ended EXCEPT ![c] = "no"]
        /\ UNCHANGED <<backlog, tcpUp, tcpDown, cpc, tcpSession, typed, quitting>>
    BY DEF Tcp!Disconnected, Tcp!Served, Tcp!clientVars
  <1>2. PICK i \in DOMAIN sockets : /\ sockets[i] = c
                                    /\ sockets' = Tcp!RemoveAt(sockets, i)
                                    /\ socketinfo' = socketinfo \ {c}
    BY DEF Tcp!Disconnected, Tcp!remove_socket
  <1>3. sockets \in Seq(Clients \cup {Listener}) /\ Tcp!IsInjective(sockets)
    BY DEF Tcp!TcpInv, Tcp!TypeOK, Tcp!TablesAgree
  <1>4. /\ sockets' \in Seq(Clients \cup {Listener}) /\ Tcp!IsInjective(sockets')
        /\ Tcp!ToSet(sockets') = Tcp!ToSet(sockets) \ {c}
    BY <1>2, <1>3, RemoveAtFacts
  <1>5. Tcp!TypeOK' BY <1>1, <1>2, <1>4, SMTT(30) DEF Tcp!TcpInv, Tcp!TypeOK
  <1>6. Tcp!TablesAgree' BY <1>1, <1>2, <1>4, ServerAssumption DEF Tcp!TcpInv, Tcp!TablesAgree
  <1>7. \A d \in Clients : Tcp!ClientAt(d)' BY <1>1, <1>2 DEF Tcp!TcpInv, Tcp!ClientAt
  <1> QED BY <1>1, <1>5, <1>6, <1>7 DEF Tcp!TcpInv

(* A connection made waits once: its client was not started before.           *)
LEMMA TcpConnect ==
  ASSUME Tcp!TcpInv, NEW c \in Clients, Tcp!Connect(c)
  PROVE  Tcp!TcpInv'
  <1>1. /\ cpc[c] = "start" /\ cpc' = [cpc EXCEPT ![c] = "prompt"]
        /\ backlog' = Append(backlog, c)
        /\ UNCHANGED <<sockets, socketinfo, ready, tcpCount, tcpUp, tcpDown, ended, tcpSession,
                       typed, quitting>>
    BY DEF Tcp!Connect, Tcp!serverVars
  <1>2. c \notin socketinfo /\ c \notin Tcp!ToSet(backlog) /\ tcpUp[c] = <<>> /\ tcpDown[c] = <<>>
    BY <1>1 DEF Tcp!TcpInv, Tcp!ClientAt
  <1>3. backlog \in Seq(Clients) /\ Tcp!IsInjective(backlog) BY DEF Tcp!TcpInv, Tcp!TypeOK
  <1>4. /\ backlog' \in Seq(Clients) /\ Tcp!IsInjective(backlog') /\ backlog' # <<>>
        /\ Tcp!ToSet(backlog') = Tcp!ToSet(backlog) \cup {c}
    BY <1>1, <1>2, <1>3, AppendFacts, AppendProperties
  <1>5. /\ cpc' \in [Clients -> {"start", "prompt", "waiting", "closed"}]
        /\ cpc'[c] = "prompt" /\ \A d \in Clients \ {c} : cpc'[d] = cpc[d]
    BY <1>1 DEF Tcp!TcpInv, Tcp!TypeOK
  <1>6. Tcp!TypeOK' BY <1>1, <1>4, <1>5 DEF Tcp!TcpInv, Tcp!TypeOK
  <1>7. Tcp!TablesAgree' BY <1>1, <1>2, <1>4 DEF Tcp!TcpInv, Tcp!TablesAgree
  <1>8. \A d \in Clients : Tcp!ClientAt(d)'
    BY <1>1, <1>2, <1>4, <1>5 DEF Tcp!TcpInv, Tcp!ClientAt
  <1> QED BY <1>4, <1>6, <1>7, <1>8 DEF Tcp!TcpInv

(* Typing takes a client that has nothing under way from the prompt to waiting. *)
LEMMA TypeFacts ==
  ASSUME Tcp!TcpInv, NEW c \in Clients, Tcp!Type(c)
  PROVE  /\ cpc' \in [Clients -> {"start", "prompt", "waiting", "closed"}]
         /\ typed' \in [Clients -> Nat]
         /\ cpc'[c] = "waiting" /\ \A d \in Clients \ {c} : cpc'[d] = cpc[d]
         /\ tcpUp[c] = <<>> /\ tcpDown[c] = <<>>
  <1>1. /\ cpc[c] = "prompt" /\ cpc' = [cpc EXCEPT ![c] = "waiting"]
        /\ typed' = [typed EXCEPT ![c] = @ + 1]
    BY DEF Tcp!Type
  <1>2. tcpUp[c] = <<>> /\ tcpDown[c] = <<>> BY <1>1 DEF Tcp!TcpInv, Tcp!ClientAt
  <1>3. cpc \in [Clients -> {"start", "prompt", "waiting", "closed"}] /\ typed \in [Clients -> Nat]
    BY DEF Tcp!TcpInv, Tcp!TypeOK
  <1> QED BY <1>1, <1>2, <1>3

(* Counting a session changes that of one client.                             *)
LEMMA CountSession ==
  ASSUME Tcp!TcpInv, NEW c \in Clients, tcpSession' = [tcpSession EXCEPT ![c] = @ + 1]
  PROVE  /\ tcpSession' \in [Clients -> Nat] /\ tcpSession'[c] \in Nat
         /\ \A d \in Clients \ {c} : tcpSession'[d] = tcpSession[d]
  BY DEF Tcp!TcpInv, Tcp!TypeOK

(* A client that types a request sends its session number, and waits for that.              *)
LEMMA TcpRequest ==
  ASSUME Tcp!TcpInv, NEW c \in Clients, Tcp!Request(c)
  PROVE  Tcp!TcpInv'
  <1>1. /\ Tcp!Type(c)
        /\ tcpSession' = [tcpSession EXCEPT ![c] = @ + 1]
        /\ tcpUp' = [tcpUp EXCEPT ![c] = Append(@, tcpSession'[c])]
        /\ UNCHANGED <<sockets, socketinfo, ready, tcpCount, backlog, tcpDown, ended, quitting>>
    BY DEF Tcp!Request, Tcp!serverVars
  <1>2. /\ cpc' \in [Clients -> {"start", "prompt", "waiting", "closed"}]
        /\ typed' \in [Clients -> Nat]
        /\ cpc'[c] = "waiting" /\ \A d \in Clients \ {c} : cpc'[d] = cpc[d]
        /\ tcpUp[c] = <<>> /\ tcpDown[c] = <<>>
    BY <1>1, TypeFacts
  <1>3. /\ tcpSession' \in [Clients -> Nat] /\ tcpSession'[c] \in Nat
        /\ \A d \in Clients \ {c} : tcpSession'[d] = tcpSession[d]
    BY <1>1, CountSession
  <1>4. tcpUp \in [Clients -> Seq(Nat)] BY DEF Tcp!TcpInv, Tcp!TypeOK
  <1> DEFINE n == tcpSession'[c]
  <1>5. n \in Nat /\ tcpUp' = [tcpUp EXCEPT ![c] = Append(@, n)] BY <1>1, <1>3
  <1> HIDE DEF n
  <1>6. /\ tcpUp' \in [Clients -> Seq(Nat)] /\ tcpUp'[c] = <<n>>
        /\ \A d \in Clients \ {c} : tcpUp'[d] = tcpUp[d]
    <2>1. Append(tcpUp[c], n) = <<n>> BY <1>2
    <2>2. <<n>> \in Seq(Nat) BY <1>5
    <2> QED BY <1>4, <1>5, <2>1, <2>2
  <1>7. Tcp!TypeOK' BY <1>1, <1>2, <1>3, <1>6 DEF Tcp!TcpInv, Tcp!TypeOK
  <1>8. tcpDown'[c] = <<>> BY <1>1, <1>2
  <1>9. Tcp!ClientAt(c)' BY <1>2, <1>6, <1>8 DEF Tcp!ClientAt, n
  <1>10. \A d \in Clients \ {c} : UNCHANGED <<cpc[d], tcpSession[d], tcpUp[d], tcpDown[d]>>
    BY <1>1, <1>2, <1>3, <1>6
  <1> QED BY <1>1, <1>7, <1>9, <1>10, ClientStep

(* What is typed and not sent leaves a client waiting with nothing under way.   *)
LEMMA NothingSent ==
  ASSUME Tcp!TcpInv, NEW c \in Clients, Tcp!Type(c),
         tcpSession' \in [Clients -> Nat], quitting' \in [Clients -> BOOLEAN],
         \A d \in Clients \ {c} : tcpSession'[d] = tcpSession[d],
         UNCHANGED <<sockets, socketinfo, ready, tcpCount, backlog, tcpUp, tcpDown, ended>>
  PROVE  Tcp!TcpInv'
  <1>1. /\ cpc' \in [Clients -> {"start", "prompt", "waiting", "closed"}]
        /\ typed' \in [Clients -> Nat]
        /\ cpc'[c] = "waiting" /\ \A d \in Clients \ {c} : cpc'[d] = cpc[d]
        /\ tcpUp[c] = <<>> /\ tcpDown[c] = <<>>
    BY TypeFacts
  <1>2. Tcp!TypeOK' BY <1>1 DEF Tcp!TcpInv, Tcp!TypeOK
  <1>3. Tcp!ClientAt(c)' BY <1>1 DEF Tcp!ClientAt
  <1>4. \A d \in Clients \ {c} : UNCHANGED <<cpc[d], tcpSession[d], tcpUp[d], tcpDown[d]>>
    BY <1>1
  <1> QED BY <1>2, <1>3, <1>4, ClientStep

(* A line that is no request sends nothing, whether or not it counts a session.             *)
LEMMA TcpMistype ==
  ASSUME Tcp!TcpInv, NEW c \in Clients, Tcp!Mistype(c)
  PROVE  Tcp!TcpInv'
  <1>1. /\ Tcp!Type(c)
        /\ tcpSession' \in {tcpSession, [tcpSession EXCEPT ![c] = @ + 1]}
        /\ UNCHANGED <<sockets, socketinfo, ready, tcpCount, backlog, tcpUp, tcpDown, ended, quitting>>
    BY DEF Tcp!Mistype, Tcp!serverVars
  <1>2. /\ tcpSession' \in [Clients -> Nat]
        /\ \A d \in Clients \ {c} : tcpSession'[d] = tcpSession[d]
    <2>1. CASE tcpSession' = tcpSession BY <2>1 DEF Tcp!TcpInv, Tcp!TypeOK
    <2>2. CASE tcpSession' = [tcpSession EXCEPT ![c] = @ + 1] BY <2>2, CountSession
    <2> QED BY <1>1, <2>1, <2>2
  <1>3. quitting' \in [Clients -> BOOLEAN] BY <1>1 DEF Tcp!TcpInv, Tcp!TypeOK
  <1> QED BY <1>1, <1>2, <1>3, NothingSent

(* quit sends nothing; the client still waits, for nothing.                                 *)
LEMMA TcpQuit ==
  ASSUME Tcp!TcpInv, NEW c \in Clients, Tcp!Quit(c)
  PROVE  Tcp!TcpInv'
  <1>1. /\ Tcp!Type(c)
        /\ tcpSession' = [tcpSession EXCEPT ![c] = @ + 1]
        /\ quitting' = [quitting EXCEPT ![c] = TRUE]
        /\ UNCHANGED <<sockets, socketinfo, ready, tcpCount, backlog, tcpUp, tcpDown, ended>>
    BY DEF Tcp!Quit, Tcp!serverVars
  <1>2. /\ tcpSession' \in [Clients -> Nat]
        /\ \A d \in Clients \ {c} : tcpSession'[d] = tcpSession[d]
    BY <1>1, CountSession
  <1>3. quitting' \in [Clients -> BOOLEAN] BY <1>1 DEF Tcp!TcpInv, Tcp!TypeOK
  <1> QED BY <1>1, <1>2, <1>3, NothingSent

(* The answer a client gets was all it had under way.                         *)
LEMMA TcpReceive ==
  ASSUME Tcp!TcpInv, NEW c \in Clients, Tcp!Receive(c)
  PROVE  Tcp!TcpInv'
  <1>1. /\ cpc[c] = "waiting" /\ tcpDown[c] # <<>>
        /\ tcpDown' = [tcpDown EXCEPT ![c] = <<>>]
        /\ \/ /\ cpc' = [cpc EXCEPT ![c] = "closed"] /\ ended' = [ended EXCEPT ![c] = "eof"]
           \/ cpc' = [cpc EXCEPT ![c] = "prompt"] /\ ended' = ended
        /\ UNCHANGED <<sockets, socketinfo, ready, tcpCount, backlog, tcpUp, tcpSession, typed,
                       quitting>>
    BY DEF Tcp!Receive, Tcp!Closing, Tcp!serverVars
  <1>2. tcpUp[c] = <<>> BY <1>1 DEF Tcp!TcpInv, Tcp!ClientAt
  <1>3. /\ cpc' \in [Clients -> {"start", "prompt", "waiting", "closed"}]
        /\ cpc'[c] \in {"prompt", "closed"} /\ \A d \in Clients \ {c} : cpc'[d] = cpc[d]
    BY <1>1 DEF Tcp!TcpInv, Tcp!TypeOK
  <1>4. ended' \in [Clients -> {"no", "error", "eof"}] BY <1>1 DEF Tcp!TcpInv, Tcp!TypeOK
  <1>5. /\ tcpDown' \in [Clients -> Seq(Nat)] /\ tcpDown'[c] = <<>>
        /\ \A d \in Clients \ {c} : tcpDown'[d] = tcpDown[d]
    <2>1. tcpDown \in [Clients -> Seq(Nat)] /\ <<>> \in Seq(Nat) BY DEF Tcp!TcpInv, Tcp!TypeOK
    <2> QED BY <1>1, <2>1
  <1>6. UNCHANGED <<sockets, socketinfo, ready, tcpCount, backlog, tcpUp, tcpSession, typed, quitting>>
    BY <1>1
  <1>7. Tcp!TypeOK' BY <1>3, <1>4, <1>5, <1>6 DEF Tcp!TcpInv, Tcp!TypeOK
  <1>8. Tcp!ClientAt(c)' BY <1>2, <1>3, <1>5, <1>6 DEF Tcp!ClientAt
  <1>9. \A d \in Clients \ {c} : UNCHANGED <<cpc[d], tcpSession[d], tcpUp[d], tcpDown[d]>>
    BY <1>3, <1>5, <1>6
  <1> QED BY <1>6, <1>7, <1>8, <1>9, ClientStep

(* Of a client that is killed nothing is claimed any more.                    *)
LEMMA TcpKill ==
  ASSUME Tcp!TcpInv, NEW c \in Clients, Tcp!Kill(c)
  PROVE  Tcp!TcpInv'
  <1>1. /\ cpc[c] \in {"prompt", "waiting"} /\ cpc' = [cpc EXCEPT ![c] = "closed"]
        /\ \E how \in {"error", "eof"} : ended' = [ended EXCEPT ![c] = how]
        /\ UNCHANGED <<sockets, socketinfo, ready, tcpCount, backlog, tcpUp, tcpDown, tcpSession,
                       typed, quitting>>
    BY DEF Tcp!Kill, Tcp!Closing, Tcp!serverVars
  <1>2. /\ cpc' \in [Clients -> {"start", "prompt", "waiting", "closed"}]
        /\ cpc'[c] = "closed" /\ \A d \in Clients \ {c} : cpc'[d] = cpc[d]
    BY <1>1 DEF Tcp!TcpInv, Tcp!TypeOK
  <1>3. ended' \in [Clients -> {"no", "error", "eof"}] BY <1>1 DEF Tcp!TcpInv, Tcp!TypeOK
  <1>4. UNCHANGED <<sockets, socketinfo, ready, tcpCount, backlog, tcpUp, tcpDown, tcpSession, typed,
                    quitting>>
    BY <1>1
  <1>5. Tcp!TypeOK' BY <1>2, <1>3, <1>4 DEF Tcp!TcpInv, Tcp!TypeOK
  <1>6. Tcp!ClientAt(c)' BY <1>2 DEF Tcp!ClientAt
  <1>7. \A d \in Clients \ {c} : UNCHANGED <<cpc[d], tcpSession[d], tcpUp[d], tcpDown[d]>>
    BY <1>2, <1>4
  <1> QED BY <1>4, <1>5, <1>6, <1>7, ClientStep

(* With nothing connected and nobody started there is nothing to disagree.     *)
LEMMA TcpInit ==
  ASSUME Tcp!Init
  PROVE  Tcp!TcpInv
  <1>1. Tcp!IsInjective(<<Listener>>) /\ Tcp!ToSet(<<Listener>>) = {Listener}
    BY DEF Tcp!IsInjective, Tcp!ToSet
  <1>2. Tcp!IsInjective(<<>>) /\ Tcp!ToSet(<<>>) = {} BY DEF Tcp!IsInjective, Tcp!ToSet
  <1>3. Tcp!TypeOK BY DEF Tcp!Init, Tcp!TypeOK
  <1>4. Tcp!TablesAgree BY <1>1, <1>2 DEF Tcp!Init, Tcp!TablesAgree
  <1>5. \A c \in Clients : Tcp!ClientAt(c) BY <1>2 DEF Tcp!Init, Tcp!ClientAt
  <1>6. Tcp!IsInjective(backlog) /\ Listener \notin ready BY <1>2 DEF Tcp!Init
  <1> QED BY <1>3, <1>4, <1>5, <1>6 DEF Tcp!TcpInv

(* Every step of the whole keeps the TCP part.                                *)
LEMMA TcpStep ==
  ASSUME Tcp!TcpInv, Next
  PROVE  Tcp!TcpInv'
  <1>1. CASE SelectSockets BY <1>1, TcpSelect DEF SelectSockets
  <1>2. CASE ServeSocket
    BY <1>2, TcpAccept, TcpAnswer, TcpReceiveError, TcpDisconnected DEF ServeSocket, Tcp!Serve
  <1>3. CASE ServePeer BY <1>3, TcpIdle DEF ServePeer
  <1>4. ASSUME NEW c \in Clients, StartTcp(c) PROVE Tcp!TcpInv'
    BY <1>4, TcpConnect DEF StartTcp
  <1>5. ASSUME NEW c \in Clients, TcpClient(c) PROVE Tcp!TcpInv'
    BY <1>5, TcpRequest, TcpMistype, TcpQuit, TcpReceive, TcpKill DEF TcpClient, Tcp!Client
  <1>6. ASSUME NEW p \in Peers, StartEnet(p) \/ EnetClient(p) \/ EnetNetwork(p) PROVE Tcp!TcpInv'
    BY <1>6, TcpIdle DEF StartEnet, EnetClient, EnetNetwork
  <1> QED BY <1>1, <1>2, <1>3, <1>4, <1>5, <1>6 DEF Next, Server

(* What the client has under way, as the run says it.                         *)
LEMMA TcpAnswerMatches ==
  ASSUME Tcp!TcpInv
  PROVE  AnswerMatches
  <1> SUFFICES ASSUME NEW c \in Clients, cpc[c] # "closed"
               PROVE  /\ Len(tcpUp[c]) + Len(tcpDown[c]) <= 1
                      /\ tcpDown[c] # <<>> => cpc[c] = "waiting" /\ tcpDown[c] = <<tcpSession[c]>>
    BY DEF AnswerMatches, Tcp!AnswerMatches
  <1>1. Tcp!ClientAt(c) /\ cpc[c] \in {"start", "prompt", "waiting"}
    BY DEF Tcp!TcpInv, Tcp!TypeOK
  <1>2. \/ tcpUp[c] = <<>> /\ tcpDown[c] = <<>>
        \/ cpc[c] = "waiting" /\ tcpUp[c] = <<tcpSession[c]>> /\ tcpDown[c] = <<>>
        \/ cpc[c] = "waiting" /\ tcpUp[c] = <<>> /\ tcpDown[c] = <<tcpSession[c]>>
    BY <1>1 DEF Tcp!ClientAt
  <1>3. Len(<<>>) = 0 /\ Len(<<tcpSession[c]>>) = 1 BY Zenon, EmptySeq
  <1>4. tcpDown[c] # <<>> => cpc[c] = "waiting" /\ tcpDown[c] = <<tcpSession[c]>> BY <1>2
  <1>5. Len(tcpUp[c]) + Len(tcpDown[c]) <= 1
    <2>1. CASE tcpUp[c] = <<>> /\ tcpDown[c] = <<>> BY <1>3, <2>1
    <2>2. CASE tcpUp[c] = <<tcpSession[c]>> /\ tcpDown[c] = <<>> BY <1>3, <2>2
    <2>3. CASE tcpUp[c] = <<>> /\ tcpDown[c] = <<tcpSession[c]>> BY <1>3, <2>3
    <2> QED BY <1>2, <2>1, <2>2, <2>3
  <1> QED BY <1>4, <1>5

-----------------------------------------------------------------------------
(* Lists of peers: the facts on lists of sockets hold of them.                *)

(* Both servlets' modules mean the same by the operators on sequences.                      *)
LEMMA SameOperators ==
  \A s : Enet!ToSet(s) = Tcp!ToSet(s) /\ (Enet!IsInjective(s) <=> Tcp!IsInjective(s))
  BY DEF Enet!ToSet, Tcp!ToSet, Enet!IsInjective, Tcp!IsInjective

-----------------------------------------------------------------------------
(* Lists of events.                                                          *)

(* What an event carries: only requests and answers have a session.                         *)
LEMMA EventFacts ==
  /\ Enet!Connect \in Enet!Events /\ Enet!Connect[1] = "connect" /\ Enet!Connect[2] = 0
  /\ Enet!Disconnect \in Enet!Events /\ Enet!Disconnect[1] = "disconnect"
  /\ Enet!Broadcast \in Enet!Events /\ Enet!Broadcast[2] = 0
  /\ \A n \in Nat : /\ Enet!Message(n) \in Enet!Events
                    /\ Enet!Message(n)[1] = "receive" /\ Enet!Message(n)[2] = n
  /\ \A m \in Enet!Events : m[2] \in Nat
  BY DEF Enet!Connect, Enet!Disconnect, Enet!Broadcast, Enet!Message, Enet!Events

(* The session of an event, as a set: none if it carries none.                *)
Session(m) == {m[2]} \ {0}

(* A list that is not empty has a first element, and those of its tail.        *)
LEMMA TailAt ==
  ASSUME NEW S, NEW s \in Seq(S), s # <<>>
  PROVE  /\ Head(s) \in S /\ Tail(s) \in Seq(S) /\ Head(s) = s[1] /\ 1 \in DOMAIN s
         /\ \A k \in DOMAIN s : k \in Nat \ {0}
         /\ \A k \in DOMAIN Tail(s) : k + 1 \in DOMAIN s /\ Tail(s)[k] = s[k + 1] /\ k \in Nat \ {0}
         /\ \A k \in DOMAIN s : k = 1 \/ (k - 1 \in DOMAIN Tail(s) /\ Tail(s)[k - 1] = s[k])
  <1> DEFINE t == Tail(s)
  <1>1. /\ Head(s) \in S /\ t \in Seq(S) /\ Len(t) = Len(s) - 1
        /\ \A i \in 1..Len(t) : t[i] = s[i + 1]
    BY HeadTailProperties
  <1>2. DOMAIN t = 1..(Len(s) - 1) /\ DOMAIN s = 1..Len(s) /\ Len(s) \in Nat \ {0}
    BY <1>1, LenProperties, EmptySeq
  <1>3. Head(s) = s[1] OBVIOUS
  <1> HIDE DEF t
  <1>4. \A k \in DOMAIN t : k + 1 \in DOMAIN s /\ t[k] = s[k + 1] /\ k \in Nat \ {0}
    BY <1>1, <1>2
  <1>5. \A k \in DOMAIN s : k = 1 \/ (k - 1 \in DOMAIN t /\ t[k - 1] = s[k])
    BY <1>1, <1>2
  <1>6. 1 \in DOMAIN s /\ \A k \in DOMAIN s : k \in Nat \ {0} BY <1>2
  <1> QED BY <1>1, <1>3, <1>4, <1>5, <1>6 DEF t

(* The places of a queue with one more event.                                               *)
LEMMA AppendAt ==
  ASSUME NEW S, NEW s \in Seq(S), NEW e \in S
  PROVE  /\ Append(s, e) \in Seq(S) /\ Append(s, e) # <<>>
         /\ Len(s) \in Nat /\ Len(s) + 1 \in DOMAIN Append(s, e) /\ Append(s, e)[Len(s) + 1] = e
         /\ \A k \in DOMAIN s : /\ k \in DOMAIN Append(s, e) /\ Append(s, e)[k] = s[k]
                                /\ k \in Nat /\ k < Len(s) + 1
         /\ \A k \in DOMAIN Append(s, e) : k \in DOMAIN s \/ k = Len(s) + 1
  <1> DEFINE t == Append(s, e)
  <1>1. /\ t \in Seq(S) /\ t # <<>> /\ Len(t) = Len(s) + 1
        /\ \A i \in 1..Len(s) : t[i] = s[i]
        /\ t[Len(s) + 1] = e
    BY AppendProperties
  <1>2. DOMAIN t = 1..(Len(s) + 1) /\ DOMAIN s = 1..Len(s) /\ Len(s) \in Nat
    BY <1>1, LenProperties
  <1> HIDE DEF t
  <1>3. \A k \in DOMAIN s : k \in DOMAIN t /\ t[k] = s[k] /\ k \in Nat /\ k < Len(s) + 1
    BY <1>1, <1>2
  <1>4. \A k \in DOMAIN t : k \in DOMAIN s \/ k = Len(s) + 1 BY <1>2
  <1>5. Len(s) + 1 \in DOMAIN t BY <1>2
  <1> QED BY <1>1, <1>2, <1>3, <1>4, <1>5 DEF t

(* An event at the end adds its session; the sessions rise if it is the last.  *)
LEMMA SessionsAppend ==
  ASSUME NEW s \in Seq(Enet!Events), NEW m \in Enet!Events
  PROVE  /\ Append(s, m) \in Seq(Enet!Events) /\ Append(s, m) # <<>>
         /\ Enet!Sessions(Append(s, m)) = Enet!Sessions(s) \cup Session(m)
         /\ Enet!Rising(s) /\ (\A a \in Enet!Sessions(s), b \in Session(m) : a < b)
              => Enet!Rising(Append(s, m))
  <1> DEFINE t == Append(s, m)
             z == Len(s) + 1
  <1>1. /\ t \in Seq(Enet!Events) /\ t # <<>> /\ z \in Nat /\ z \in DOMAIN t /\ t[z] = m
        /\ \A k \in DOMAIN s : k \in DOMAIN t /\ t[k] = s[k] /\ k \in Nat /\ k < z
        /\ \A k \in DOMAIN t : k \in DOMAIN s \/ k = z
    BY AppendAt
  <1> HIDE DEF t, z
  <1>2. Enet!Sessions(t) = Enet!Sessions(s) \cup Session(m)
    <2>1. ASSUME NEW x \in Enet!Sessions(t) PROVE x \in Enet!Sessions(s) \cup Session(m)
      BY <1>1, <2>1 DEF Enet!Sessions, Session
    <2>2. ASSUME NEW x \in Enet!Sessions(s) \cup Session(m) PROVE x \in Enet!Sessions(t)
      BY <1>1, <2>2 DEF Enet!Sessions, Session
    <2> QED BY <2>1, <2>2
  <1>3. ASSUME Enet!Rising(s), \A a \in Enet!Sessions(s), b \in Session(m) : a < b
        PROVE  Enet!Rising(t)
    <2> SUFFICES ASSUME NEW i \in DOMAIN t, NEW j \in DOMAIN t, i < j, t[i][2] # 0, t[j][2] # 0
                 PROVE  t[i][2] < t[j][2]
      BY DEF Enet!Rising
    <2>1. i \in DOMAIN s
      <3>1. j \in Nat /\ j <= z BY <1>1
      <3> QED BY <1>1, <3>1
    <2>2. CASE j \in DOMAIN s BY <1>1, <1>3, <2>1, <2>2 DEF Enet!Rising
    <2>3. CASE j = z
      <3>1. s[i][2] \in Enet!Sessions(s) /\ t[i] = s[i] BY <1>1, <2>1 DEF Enet!Sessions
      <3>2. m[2] \in Session(m) BY <1>1, <2>3 DEF Session
      <3> QED BY <1>1, <1>3, <2>3, <3>1, <3>2
    <2> QED BY <1>1, <2>2, <2>3
  <1> QED BY <1>1, <1>2, <1>3 DEF t

(* Taking the first event takes its session, the lowest.                      *)
LEMMA SessionsTail ==
  ASSUME NEW s \in Seq(Enet!Events), s # <<>>
  PROVE  /\ Head(s) \in Enet!Events /\ Tail(s) \in Seq(Enet!Events)
         /\ Enet!Sessions(s) = Session(Head(s)) \cup Enet!Sessions(Tail(s))
         /\ Enet!Rising(s) => /\ Enet!Rising(Tail(s))
                              /\ \A a \in Session(Head(s)), b \in Enet!Sessions(Tail(s)) : a < b
  <1> DEFINE t == Tail(s)
             h == Head(s)
  <1>1. /\ h \in Enet!Events /\ t \in Seq(Enet!Events) /\ h = s[1] /\ 1 \in DOMAIN s
        /\ \A k \in DOMAIN t : k + 1 \in DOMAIN s /\ t[k] = s[k + 1] /\ k \in Nat \ {0}
        /\ \A k \in DOMAIN s : k = 1 \/ (k - 1 \in DOMAIN t /\ t[k - 1] = s[k])
    BY TailAt
  <1> HIDE DEF t, h
  <1>2. Enet!Sessions(s) = Session(h) \cup Enet!Sessions(t)
    <2>1. ASSUME NEW x \in Enet!Sessions(s) PROVE x \in Session(h) \cup Enet!Sessions(t)
      <3>1. PICK k \in DOMAIN s : x = s[k][2] /\ x # 0 BY DEF Enet!Sessions
      <3>2. CASE k = 1 BY <1>1, <3>1, <3>2 DEF Session
      <3>3. CASE k - 1 \in DOMAIN t /\ t[k - 1] = s[k] BY <3>1, <3>3 DEF Enet!Sessions
      <3> QED BY <1>1, <3>2, <3>3
    <2>2. ASSUME NEW x \in Session(h) PROVE x \in Enet!Sessions(s)
      BY <1>1, <2>2 DEF Enet!Sessions, Session
    <2>3. ASSUME NEW x \in Enet!Sessions(t) PROVE x \in Enet!Sessions(s)
      BY <1>1, <2>3 DEF Enet!Sessions
    <2> QED BY <2>1, <2>2, <2>3
  <1>3. ASSUME Enet!Rising(s) PROVE Enet!Rising(t)
    <2> SUFFICES ASSUME NEW i \in DOMAIN t, NEW j \in DOMAIN t, i < j, t[i][2] # 0, t[j][2] # 0
                 PROVE  t[i][2] < t[j][2]
      BY DEF Enet!Rising
    <2>1. /\ i + 1 \in DOMAIN s /\ j + 1 \in DOMAIN s /\ i + 1 < j + 1
          /\ t[i] = s[i + 1] /\ t[j] = s[j + 1]
      BY <1>1
    <2> QED BY <1>3, <2>1 DEF Enet!Rising
  <1>4. ASSUME Enet!Rising(s), NEW a \in Session(h), NEW b \in Enet!Sessions(t) PROVE a < b
    <2>1. PICK k \in DOMAIN t : b = t[k][2] /\ b # 0 BY DEF Enet!Sessions
    <2>2. k + 1 \in DOMAIN s /\ 1 < k + 1 /\ b = s[k + 1][2] BY <1>1, <2>1
    <2>3. 1 \in DOMAIN s /\ a = s[1][2] /\ a # 0 BY <1>1 DEF Session
    <2> QED BY <1>4, <2>1, <2>2, <2>3 DEF Enet!Rising
  <1> QED BY <1>1, <1>2, <1>3, <1>4 DEF t, h

(* An empty queue holds no session.                                                         *)
LEMMA SessionsEmpty ==
  Enet!Sessions(<<>>) = {} /\ Enet!Rising(<<>>) /\ Enet!Requests(<<>>)
  BY DEF Enet!Sessions, Enet!Rising, Enet!Requests

(* Sessions are counted from 1.                                                             *)
LEMMA SessionsNat ==
  ASSUME NEW s \in Seq(Enet!Events)
  PROVE  Enet!Sessions(s) \subseteq Nat \ {0}
  <1>1. \A k \in DOMAIN s : s[k] \in Enet!Events BY LenProperties, ElementOfSeq
  <1> QED BY <1>1, EventFacts DEF Enet!Sessions

(* Requests stay requests when the first is taken or one is added.             *)
LEMMA RequestsTail ==
  ASSUME NEW s \in Seq(Enet!Events), s # <<>>, Enet!Requests(s)
  PROVE  Enet!Requests(Tail(s)) /\ Head(s)[1] = "receive" /\ Head(s)[2] # 0
  BY TailAt DEF Enet!Requests

(* And when a request is added.                                                             *)
LEMMA RequestsAppend ==
  ASSUME NEW s \in Seq(Enet!Events), Enet!Requests(s), NEW n \in Nat \ {0}
  PROVE  Enet!Requests(Append(s, Enet!Message(n)))
  BY AppendAt, EventFacts DEF Enet!Requests

-----------------------------------------------------------------------------
(* The answers on their way and the requests to be told, d and r.             *)

(* A request is told and answered: its session goes from the front of one list  *)
(* to the end of the other.                                                  *)
LEMMA OrderTold ==
  ASSUME NEW d \in Seq(Enet!Events), NEW r \in Seq(Enet!Events), r # <<>>, NEW E,
         Enet!InOrder(d, r, E)
  PROVE  /\ Enet!InOrder(Append(d, Head(r)), Tail(r), E)
         /\ Enet!Sessions(Append(d, Head(r))) \cup Enet!Sessions(Tail(r))
              = Enet!Sessions(d) \cup Enet!Sessions(r)
  <1> DEFINE h == Head(r)
             t == Tail(r)
             e == Append(d, h)
  <1>1. /\ h \in Enet!Events /\ t \in Seq(Enet!Events)
        /\ Enet!Sessions(r) = Session(h) \cup Enet!Sessions(t)
        /\ Enet!Rising(t) /\ \A a \in Session(h), b \in Enet!Sessions(t) : a < b
    BY SessionsTail DEF Enet!InOrder
  <1>2. Enet!Rising(d) /\ \A a \in Enet!Sessions(d), b \in Session(h) : a < b
    BY <1>1 DEF Enet!InOrder
  <1> HIDE DEF h, t
  <1>3. Enet!Sessions(e) = Enet!Sessions(d) \cup Session(h) /\ Enet!Rising(e)
    BY <1>1, <1>2, SessionsAppend
  <1> HIDE DEF e
  <1>4. \A a \in Enet!Sessions(e), b \in Enet!Sessions(t) : a < b
    BY <1>1, <1>3 DEF Enet!InOrder
  <1>5. Enet!Sessions(e) \cup Enet!Sessions(t) = Enet!Sessions(d) \cup Enet!Sessions(r)
    BY <1>1, <1>3
  <1>6. Enet!InOrder(e, t, E) BY <1>1, <1>3, <1>4, <1>5 DEF Enet!InOrder
  <1> QED BY <1>5, <1>6 DEF e, t, h

(* An event without a session is taken, or added: nothing changes.             *)
LEMMA OrderSkipped ==
  ASSUME NEW d \in Seq(Enet!Events), NEW r \in Seq(Enet!Events), r # <<>>, NEW E,
         Head(r)[2] = 0
  PROVE  /\ Enet!Sessions(Tail(r)) = Enet!Sessions(r)
         /\ Enet!InOrder(d, r, E) => Enet!InOrder(d, Tail(r), E)
  <1>1. Session(Head(r)) = {} BY DEF Session
  <1>2. Enet!Sessions(Tail(r)) = Enet!Sessions(r) BY <1>1, SessionsTail, ZenonT(30)
  <1>3. Enet!Rising(r) => Enet!Rising(Tail(r)) BY SessionsTail
  <1> QED BY <1>2, <1>3 DEF Enet!InOrder

(* An event without a session on its way to the client disturbs no order.                   *)
LEMMA OrderSilent ==
  ASSUME NEW d \in Seq(Enet!Events), NEW r \in Seq(Enet!Events), NEW E,
         NEW m \in Enet!Events, m[2] = 0
  PROVE  /\ Enet!Sessions(Append(d, m)) = Enet!Sessions(d)
         /\ Enet!InOrder(d, r, E) => Enet!InOrder(Append(d, m), r, E)
  <1>1. Session(m) = {} BY DEF Session
  <1>2. Enet!Sessions(Append(d, m)) = Enet!Sessions(d) BY <1>1, SessionsAppend
  <1>3. Enet!Rising(d) => Enet!Rising(Append(d, m)) BY <1>1, SessionsAppend
  <1> QED BY <1>2, <1>3 DEF Enet!InOrder

(* An answer is heard: its session is not expected again.                     *)
LEMMA OrderHeard ==
  ASSUME NEW d \in Seq(Enet!Events), NEW r \in Seq(Enet!Events), d # <<>>, NEW E,
         Enet!InOrder(d, r, E)
  PROVE  /\ Enet!InOrder(Tail(d), r, E \ Session(Head(d)))
         /\ Enet!Sessions(d) = Session(Head(d)) \cup Enet!Sessions(Tail(d))
         /\ Session(Head(d)) \subseteq E
  <1> DEFINE h == Head(d)
             t == Tail(d)
  <1>1. /\ h \in Enet!Events /\ t \in Seq(Enet!Events)
        /\ Enet!Sessions(d) = Session(h) \cup Enet!Sessions(t)
        /\ Enet!Rising(t) /\ \A a \in Session(h), b \in Enet!Sessions(t) : a < b
    BY SessionsTail DEF Enet!InOrder
  <1>2. Enet!Sessions(t) \subseteq Nat /\ Enet!Sessions(r) \subseteq Nat BY <1>1, SessionsNat
  <1> HIDE DEF h, t
  <1>3. \A a \in Session(h) : a \notin Enet!Sessions(t) /\ a \notin Enet!Sessions(r)
    BY <1>1, <1>2 DEF Enet!InOrder
  <1>4. Enet!Sessions(t) \cup Enet!Sessions(r) \subseteq E \ Session(h)
    BY <1>1, <1>3 DEF Enet!InOrder
  <1>5. Enet!InOrder(t, r, E \ Session(h)) BY <1>1, <1>4 DEF Enet!InOrder
  <1>6. Session(h) \subseteq E BY <1>1 DEF Enet!InOrder
  <1> QED BY <1>1, <1>5, <1>6 DEF h, t

(* A request is sent under a session above those expected.                    *)
Below(S, T) == \A a \in S, b \in T : a < b

(* A request behind all that were asked before keeps the order.                             *)
LEMMA OrderAsked ==
  ASSUME NEW d \in Seq(Enet!Events), NEW r \in Seq(Enet!Events), NEW E, NEW m \in Enet!Events,
         Enet!InOrder(d, r, E), Below(E, Session(m))
  PROVE  Enet!InOrder(d, Append(r, m), E \cup Session(m))
  <1> DEFINE s == Append(r, m)
  <1>1. Enet!Rising(r) /\ \A a \in Enet!Sessions(r), b \in Session(m) : a < b
    BY DEF Enet!InOrder, Below
  <1>2. Enet!Sessions(s) = Enet!Sessions(r) \cup Session(m) /\ Enet!Rising(s)
    BY <1>1, SessionsAppend
  <1> HIDE DEF s
  <1>3. \A a \in Enet!Sessions(d), b \in Enet!Sessions(s) : a < b
    BY <1>2 DEF Enet!InOrder, Below
  <1>4. Enet!InOrder(d, s, E \cup Session(m)) BY <1>2, <1>3 DEF Enet!InOrder
  <1> QED BY <1>4 DEF s

(* With nothing under way nothing is out of order.                            *)
LEMMA OrderEmpty ==
  ASSUME NEW E
  PROVE  Enet!InOrder(<<>>, <<>>, E)
  BY SessionsEmpty DEF Enet!InOrder

-----------------------------------------------------------------------------
(* The steps.  The invariant says of every peer:                              *)

PeerInv(p) ==
  /\ Enet!PeerAt(p)
  /\ ppc[p] = "connected" => Enet!InOrder(enetDown[p], enetUp[p], Enet!Expected(p))
  /\ ppc[p] \in {"connecting", "connected"} =>
       1..enetSession[p] = early[p] \cup answered[p]
                           \cup Enet!Sessions(enetUp[p]) \cup Enet!Sessions(enetDown[p])

(* and of the queue:                                                         *)
QueueInv ==
  /\ Enet!IsInjective(queue)
  /\ \A p \in Enet!ToSet(queue) : enetUp[p] # <<>>

(* The invariant of the ENet servlet is that of its queue and that of each peer.            *)
LEMMA InvParts ==
  Enet!EnetInv <=> Enet!TypeOK /\ QueueInv /\ \A p \in Peers : PeerInv(p)
  BY DEF Enet!EnetInv, QueueInv, PeerInv, Enet!AnswersInOrder, Enet!OnlyEarlyLost

(* The same after a step.                                                                   *)
LEMMA InvPartsNext ==
  (Enet!TypeOK /\ QueueInv /\ \A p \in Peers : PeerInv(p))' <=> Enet!EnetInv'
  BY DEF Enet!EnetInv, QueueInv, PeerInv, Enet!AnswersInOrder, Enet!OnlyEarlyLost

(* A peer whose part of the state stays does not notice a step.               *)
LEMMA PeerKept ==
  ASSUME NEW q \in Peers, PeerInv(q), q \in known' <=> q \in known,
         UNCHANGED <<enetUp[q], enetDown[q], ppc[q], turn[q], enetSession[q], early[q], answered[q]>>
  PROVE  PeerInv(q)'
  BY DEF PeerInv, Enet!PeerAt, Enet!Expected

(* A step of the TCP servlet or of the loop touches nothing of the ENet servlet.            *)
LEMMA EnetIdle ==
  ASSUME Enet!EnetInv, UNCHANGED enetVars
  PROVE  Enet!EnetInv'
  <1>1. Enet!TypeOK' BY DEF enetVars, Enet!EnetInv, Enet!TypeOK
  <1>2. QueueInv' BY InvParts DEF enetVars, QueueInv
  <1>3. \A p \in Peers : PeerInv(p)' BY InvParts, PeerKept DEF enetVars
  <1> QED BY <1>1, <1>2, <1>3, InvPartsNext

(* The peer whose turn it is has something to tell, and takes another turn only *)
(* if it has more.                                                           *)
LEMMA EventStep ==
  ASSUME Enet!EnetInv, NEW p \in Peers, Enet!Event(p)
  PROVE  /\ enetUp[p] \in Seq(Enet!Events) /\ enetUp[p] # <<>>
         /\ enetUp' \in [Peers -> Seq(Enet!Events)]
         /\ enetUp'[p] = Tail(enetUp[p]) /\ \A q \in Peers \ {p} : enetUp'[q] = enetUp[q]
         /\ queue' \in Seq(Peers) /\ QueueInv' /\ enetCount' \in Nat
  <1>1. /\ queue # <<>> /\ p = Head(queue)
        /\ \/ queue' = Tail(queue)
           \/ Len(enetUp[p]) > 1 /\ queue' = Append(Tail(queue), p)
        /\ enetUp' = [enetUp EXCEPT ![p] = Tail(@)]
        /\ enetCount' = enetCount + 1
    BY DEF Enet!Event
  <1>2. /\ queue \in Seq(Peers) /\ Tcp!IsInjective(queue)
        /\ enetUp \in [Peers -> Seq(Enet!Events)] /\ enetCount \in Nat
        /\ \A q \in Tcp!ToSet(queue) : enetUp[q] # <<>>
    BY SameOperators DEF Enet!EnetInv, Enet!TypeOK
  <1>3. /\ Tail(queue) \in Seq(Peers) /\ p \in Tcp!ToSet(queue)
        /\ Tcp!ToSet(queue) = {p} \cup Tcp!ToSet(Tail(queue))
        /\ Tcp!IsInjective(Tail(queue)) /\ p \notin Tcp!ToSet(Tail(queue))
    BY <1>1, <1>2, TailFacts
  <1>4. enetUp[p] \in Seq(Enet!Events) /\ enetUp[p] # <<>> BY <1>2, <1>3
  <1>5. /\ Tail(enetUp[p]) \in Seq(Enet!Events)
        /\ Len(enetUp[p]) > 1 => Tail(enetUp[p]) # <<>>
    <2> DEFINE t == Tail(enetUp[p])
    <2>1. t \in Seq(Enet!Events) /\ Len(t) = Len(enetUp[p]) - 1
      BY <1>4, HeadTailProperties
    <2>2. Len(enetUp[p]) \in Nat BY <1>4, LenProperties
    <2> HIDE DEF t
    <2>3. t = <<>> => Len(t) = 0 BY EmptySeq
    <2>4. Len(enetUp[p]) > 1 => t # <<>> BY <2>1, <2>2, <2>3
    <2> QED BY <2>1, <2>4 DEF t
  <1>6. /\ enetUp' \in [Peers -> Seq(Enet!Events)]
        /\ enetUp'[p] = Tail(enetUp[p]) /\ \A q \in Peers \ {p} : enetUp'[q] = enetUp[q]
    BY <1>1, <1>2, <1>5
  <1>7. \A q \in Tcp!ToSet(Tail(queue)) : q \in Peers \ {p} /\ enetUp'[q] # <<>>
    <2>1. \A q \in Tcp!ToSet(Tail(queue)) : q \in Peers
      BY <1>3, LenProperties, ElementOfSeq DEF Tcp!ToSet
    <2> QED BY <1>2, <1>3, <1>6, <2>1
  <1>8. CASE queue' = Tail(queue)
    BY <1>1, <1>3, <1>4, <1>6, <1>7, <1>8, <1>2, SameOperators DEF QueueInv
  <1>9. CASE Len(enetUp[p]) > 1 /\ queue' = Append(Tail(queue), p)
    <2> DEFINE t == Tail(queue)
    <2>0. t \in Seq(Peers) /\ Tcp!IsInjective(t) /\ p \notin Tcp!ToSet(t) /\ queue' = Append(t, p)
      BY <1>3, <1>9
    <2> HIDE DEF t
    <2>3. /\ queue' \in Seq(Peers) /\ Tcp!IsInjective(queue')
          /\ Tcp!ToSet(queue') = Tcp!ToSet(t) \cup {p}
      BY <2>0, AppendFacts
    <2>1. /\ queue' \in Seq(Peers) /\ Tcp!IsInjective(queue')
          /\ Tcp!ToSet(queue') = Tcp!ToSet(Tail(queue)) \cup {p}
      BY <2>3 DEF t
    <2>2. \A q \in Tcp!ToSet(queue') : enetUp'[q] # <<>>
      BY <1>5, <1>6, <1>7, <1>9, <2>1
    <2>4. QueueInv' BY <2>1, <2>2, SameOperators DEF QueueInv
    <2> QED BY <1>1, <1>2, <1>4, <1>6, <2>1, <2>4
  <1> QED BY <1>1, <1>8, <1>9

(* What is sent goes to the connected ones of those it is meant for.           *)
LEMMA SendStep ==
  ASSUME Enet!EnetInv, NEW ps \in SUBSET Peers, NEW m \in Enet!Events, Enet!Send(ps, m)
  PROVE  /\ enetDown' \in [Peers -> Seq(Enet!Events)]
         /\ \A q \in Peers : IF q \in ps /\ ppc[q] = "connected"
                             THEN enetDown'[q] = Append(enetDown[q], m)
                             ELSE enetDown'[q] = enetDown[q]
  <1>1. enetDown' = [q \in Peers |-> IF q \in ps /\ ppc[q] = "connected"
                                     THEN Append(enetDown[q], m) ELSE enetDown[q]]
    BY DEF Enet!Send
  <1>2. enetDown \in [Peers -> Seq(Enet!Events)] BY DEF Enet!EnetInv, Enet!TypeOK
  <1>3. \A q \in Peers : Append(enetDown[q], m) \in Seq(Enet!Events) BY <1>2, AppendProperties
  <1> QED BY <1>1, <1>2, <1>3

(* What the server's steps leave of the types.                                *)
LEMMA ServerTypes ==
  ASSUME Enet!EnetInv, NEW p \in Peers, Enet!Event(p),
         known' \subseteq Peers, enetDown' \in [Peers -> Seq(Enet!Events)],
         UNCHANGED <<ppc, turn, enetSession, early, answered>>
  PROVE  Enet!TypeOK'
  BY EventStep DEF Enet!EnetInv, Enet!TypeOK

(* A request is answered: of a connected peer that the server knows of, as the  *)
(* first it hears of another is that it is up.                                *)
LEMMA EnetReceive ==
  ASSUME Enet!EnetInv, NEW p \in Peers, Enet!Receive(p)
  PROVE  Enet!EnetInv'
  <1> DEFINE h == Head(enetUp[p])
             t == Tail(enetUp[p])
  <1>1. /\ Enet!Event(p) /\ h[1] = "receive" /\ Enet!Send({p} \cap known, h)
        /\ UNCHANGED <<known, ppc, turn, enetSession, early, answered>>
    BY DEF Enet!Receive, Enet!Told, Enet!Asker, Enet!clientVars
  <1>2. /\ enetUp[p] \in Seq(Enet!Events) /\ enetUp[p] # <<>>
        /\ enetUp'[p] = t /\ \A q \in Peers \ {p} : enetUp'[q] = enetUp[q]
        /\ QueueInv'
    BY <1>1, EventStep
  <1>3. h \in Enet!Events /\ enetDown[p] \in Seq(Enet!Events)
    BY <1>2, SessionsTail DEF Enet!EnetInv, Enet!TypeOK
  <1> HIDE DEF h
  <1>4. /\ enetDown' \in [Peers -> Seq(Enet!Events)]
        /\ \A q \in Peers : IF q \in {p} \cap known /\ ppc[q] = "connected"
                            THEN enetDown'[q] = Append(enetDown[q], h)
                            ELSE enetDown'[q] = enetDown[q]
    BY <1>1, <1>3, SendStep
  <1>5. Enet!TypeOK' BY <1>1, <1>4, ServerTypes DEF Enet!EnetInv, Enet!TypeOK
  <1>6. \A q \in Peers \ {p} : PeerInv(q)'
    BY <1>1, <1>2, <1>4, PeerKept, InvParts
  <1>7. PeerInv(p) BY InvParts
  <1>8. PeerInv(p)'
    <2>1. CASE ppc[p] = "connected"
      <3>1. p \in known /\ Enet!Requests(enetUp[p])
        <4>1. ~(h = Enet!Connect) BY <1>1, EventFacts
        <4> QED BY <1>7, <2>1, <4>1 DEF PeerInv, Enet!PeerAt, h
      <3>2. enetDown'[p] = Append(enetDown[p], h) BY <1>4, <2>1, <3>1
      <3>3. Enet!Requests(t) BY <1>2, <3>1, RequestsTail
      <3>4. Enet!InOrder(enetDown[p], enetUp[p], Enet!Expected(p)) BY <1>7, <2>1 DEF PeerInv
      <3>5. /\ Enet!InOrder(enetDown'[p], enetUp'[p], Enet!Expected(p))
            /\ Enet!Sessions(enetDown'[p]) \cup Enet!Sessions(enetUp'[p])
                 = Enet!Sessions(enetDown[p]) \cup Enet!Sessions(enetUp[p])
        BY <1>2, <1>3, <3>2, <3>4, OrderTold DEF h
      <3>6. Enet!PeerAt(p)' BY <1>1, <1>2, <1>7, <2>1, <3>1, <3>3 DEF PeerInv, Enet!PeerAt
      <3>7. Enet!InOrder(enetDown[p], enetUp[p], Enet!Expected(p))'
        BY <1>1, <3>5 DEF Enet!Expected
      <3>8. (1..enetSession[p] = early[p] \cup answered[p]
               \cup Enet!Sessions(enetUp[p]) \cup Enet!Sessions(enetDown[p]))'
        BY <1>1, <1>7, <2>1, <3>5 DEF PeerInv
      <3> QED BY <3>6, <3>7, <3>8 DEF PeerInv
    <2>2. CASE ppc[p] \in {"left", "gone"}
      <3>1. enetDown'[p] = enetDown[p] BY <1>4, <2>2
      <3> QED BY <1>1, <1>7, <2>2, <3>1 DEF PeerInv, Enet!PeerAt
    <2>3. ppc[p] \notin {"start", "connecting"} BY <1>2, <1>7 DEF PeerInv, Enet!PeerAt
    <2>4. ppc[p] \in {"start", "connecting", "connected", "left", "gone"}
      BY DEF Enet!EnetInv, Enet!TypeOK
    <2> QED BY <2>1, <2>2, <2>3, <2>4
  <1>9. \A q \in Peers : PeerInv(q)' BY <1>6, <1>8
  <1> QED BY <1>2, <1>5, <1>9, InvPartsNext

(* A peer that is heard of is told, and the others; no session is touched.      *)
LEMMA EnetConnected ==
  ASSUME Enet!EnetInv, NEW p \in Peers, Enet!Connected(p)
  PROVE  Enet!EnetInv'
  <1> DEFINE t == Tail(enetUp[p])
             b == Enet!Broadcast
  <1>1. /\ Enet!Event(p) /\ Head(enetUp[p]) = Enet!Connect
        /\ known' = known \cup {p} /\ Enet!Send(known', b)
        /\ UNCHANGED <<ppc, turn, enetSession, early, answered>>
    BY DEF Enet!Connected, Enet!Told, Enet!clientVars
  <1>2. /\ enetUp[p] \in Seq(Enet!Events) /\ enetUp[p] # <<>>
        /\ enetUp'[p] = t /\ \A q \in Peers \ {p} : enetUp'[q] = enetUp[q]
        /\ QueueInv'
    BY <1>1, EventStep
  <1>3. known' \subseteq Peers BY <1>1 DEF Enet!EnetInv, Enet!TypeOK
  <1>4. b \in Enet!Events /\ b[2] = 0 BY EventFacts
  <1> HIDE DEF b, t
  <1>5. /\ enetDown' \in [Peers -> Seq(Enet!Events)]
        /\ \A q \in Peers : IF q \in known' /\ ppc[q] = "connected"
                            THEN enetDown'[q] = Append(enetDown[q], b)
                            ELSE enetDown'[q] = enetDown[q]
    BY <1>1, <1>3, <1>4, SendStep
  <1>6. Enet!TypeOK' BY <1>1, <1>3, <1>5, ServerTypes
  <1>7. ASSUME NEW q \in Peers PROVE PeerInv(q)'
    <2>1. PeerInv(q) BY InvParts
    <2>2. /\ enetUp[q] \in Seq(Enet!Events) /\ enetDown[q] \in Seq(Enet!Events)
          /\ enetUp'[q] \in Seq(Enet!Events)
      BY <1>1, EventStep DEF Enet!EnetInv, Enet!TypeOK
    <2>3. q = p => /\ Enet!Requests(enetUp[q]) => Head(enetUp[q])[1] = "receive"
                   /\ Head(enetUp[q])[1] # "receive"
      BY <1>1, <1>2, <2>2, EventFacts, RequestsTail
    <2>4. /\ Enet!Sessions(enetUp'[q]) = Enet!Sessions(enetUp[q])
          /\ \A d \in Seq(Enet!Events) : \A E :
               Enet!InOrder(d, enetUp[q], E) => Enet!InOrder(d, enetUp'[q], E)
      <3>1. CASE q = p BY <1>1, <1>2, <3>1, OrderSkipped, EventFacts DEF t
      <3>2. CASE q # p BY <1>2, <3>2
      <3> QED BY <3>1, <3>2
    <2>5. /\ Enet!Sessions(enetDown'[q]) = Enet!Sessions(enetDown[q])
          /\ \A E : Enet!InOrder(enetDown[q], enetUp'[q], E)
                      => Enet!InOrder(enetDown'[q], enetUp'[q], E)
      BY <1>4, <1>5, <2>2, OrderSilent
    <2>6. ppc[q] = "connected" => Enet!InOrder(enetDown'[q], enetUp'[q], Enet!Expected(q))
      BY <2>1, <2>2, <2>4, <2>5 DEF PeerInv
    <2>7. Enet!PeerAt(q)'
      <3>1. /\ ppc[q] = "start" => enetSession[q] = 0 /\ early[q] = {}
            /\ early[q] \cup answered[q] \subseteq 1..enetSession[q] /\ enetSession[q] <= turn[q]
        BY <2>1 DEF PeerInv, Enet!PeerAt
      <3>2. CASE ppc[q] \in {"start", "connecting"}
        <4>1. /\ enetUp[q] = <<>> /\ enetDown[q] = <<>> /\ q \notin known /\ answered[q] = {}
              /\ q # p
          BY <1>2, <2>1, <3>2 DEF PeerInv, Enet!PeerAt
        <4>2. enetUp'[q] = <<>> /\ enetDown'[q] = <<>> /\ q \notin known'
          BY <1>1, <1>2, <1>5, <3>2, <4>1
        <4> QED BY <1>1, <3>1, <3>2, <4>1, <4>2 DEF Enet!PeerAt
      <3>3. CASE ppc[q] = "connected"
        <4>1. CASE q = p
          <5>1. q \notin known /\ Enet!Requests(Tail(enetUp[q]))
            BY <2>1, <2>3, <3>3, <4>1 DEF PeerInv, Enet!PeerAt
          <5>2. q \in known' /\ Enet!Requests(enetUp'[q]) BY <1>1, <1>2, <4>1, <5>1 DEF t
          <5> QED BY <1>1, <3>1, <3>3, <5>2 DEF Enet!PeerAt
        <4>2. CASE q # p
          <5>1. enetUp'[q] = enetUp[q] /\ (q \in known' <=> q \in known)
                /\ (q \notin known => enetDown'[q] = enetDown[q])
            BY <1>1, <1>2, <1>5, <4>2
          <5> QED BY <1>1, <2>1, <3>1, <3>3, <5>1 DEF PeerInv, Enet!PeerAt
        <4> QED BY <4>1, <4>2
      <3>4. CASE ppc[q] \in {"left", "gone"}
        <4>1. enetDown'[q] = enetDown[q] BY <1>5, <3>4
        <4> QED BY <1>1, <2>1, <3>1, <3>4, <4>1 DEF PeerInv, Enet!PeerAt
      <3>5. ppc[q] \in {"start", "connecting", "connected", "left", "gone"}
        BY DEF Enet!EnetInv, Enet!TypeOK
      <3> QED BY <3>2, <3>3, <3>4, <3>5
    <2>8. (ppc[q] = "connected" => Enet!InOrder(enetDown[q], enetUp[q], Enet!Expected(q)))'
      BY <1>1, <2>6 DEF Enet!Expected
    <2>9. (ppc[q] \in {"connecting", "connected"} =>
             1..enetSession[q] = early[q] \cup answered[q]
               \cup Enet!Sessions(enetUp[q]) \cup Enet!Sessions(enetDown[q]))'
      BY <1>1, <2>1, <2>4, <2>5 DEF PeerInv
    <2> QED BY <2>7, <2>8, <2>9 DEF PeerInv
  <1> QED BY <1>2, <1>6, <1>7, InvPartsNext

(* The server hears of the end of a connection last: the client has left.       *)
LEMMA EnetDisconnected ==
  ASSUME Enet!EnetInv, NEW p \in Peers, Enet!Disconnected(p)
  PROVE  Enet!EnetInv'
  <1>1. /\ Enet!Event(p) /\ Head(enetUp[p]) = Enet!Disconnect /\ known' = known \ {p}
        /\ UNCHANGED <<enetDown, ppc, turn, enetSession, early, answered>>
    BY DEF Enet!Disconnected, Enet!Told, Enet!clientVars
  <1>2. /\ enetUp[p] \in Seq(Enet!Events) /\ enetUp[p] # <<>>
        /\ \A q \in Peers \ {p} : enetUp'[q] = enetUp[q]
        /\ QueueInv'
    BY <1>1, EventStep
  <1>3. Enet!TypeOK' BY <1>1, ServerTypes DEF Enet!EnetInv, Enet!TypeOK
  <1>4. \A q \in Peers \ {p} : PeerInv(q)' BY <1>1, <1>2, PeerKept, InvParts
  <1>5. PeerInv(p) BY InvParts
  <1>6. ppc[p] \in {"left", "gone"}
    <2>1. Head(enetUp[p])[1] # "receive" /\ Head(enetUp[p]) # Enet!Connect
      BY <1>1, EventFacts
    <2>2. ~Enet!Requests(enetUp[p]) BY <1>2, <2>1, RequestsTail
    <2>3. ppc[p] \notin {"start", "connecting", "connected"}
      BY <1>2, <1>5, <2>1, <2>2 DEF PeerInv, Enet!PeerAt
    <2>4. ppc[p] \in {"start", "connecting", "connected", "left", "gone"}
      BY DEF Enet!EnetInv, Enet!TypeOK
    <2> QED BY <2>3, <2>4
  <1>7. PeerInv(p)' BY <1>1, <1>5, <1>6 DEF PeerInv, Enet!PeerAt
  <1>8. \A q \in Peers : PeerInv(q)' BY <1>4, <1>7
  <1> QED BY <1>2, <1>3, <1>8, InvPartsNext

(* A client, or the network, at work on one peer: it is enough to look at that  *)
(* one.                                                                      *)
LEMMA EnetPeerStep ==
  ASSUME Enet!EnetInv, NEW p \in Peers, Enet!TypeOK', UNCHANGED <<queue, known>>,
         \A q \in Peers \ {p} :
           UNCHANGED <<enetUp[q], enetDown[q], ppc[q], turn[q], enetSession[q], early[q], answered[q]>>,
         enetUp[p] # <<>> => enetUp'[p] # <<>>, PeerInv(p)'
  PROVE  Enet!EnetInv'
  <1>1. \A q \in Peers \ {p} : PeerInv(q)' BY PeerKept, InvParts
  <1>2. \A q \in Enet!ToSet(queue) : q \in Peers
    BY LenProperties, ElementOfSeq DEF Enet!EnetInv, Enet!TypeOK, Enet!ToSet
  <1>3. QueueInv' BY <1>2, InvParts DEF QueueInv
  <1>4. \A q \in Peers : PeerInv(q)' BY <1>1
  <1> QED BY <1>3, <1>4, InvPartsNext

(* A client that starts to connect has asked nothing.                                       *)
LEMMA EnetStart ==
  ASSUME Enet!EnetInv, NEW p \in Peers, Enet!Start(p)
  PROVE  Enet!EnetInv'
  <1>1. /\ ppc[p] = "start" /\ ppc' = [ppc EXCEPT ![p] = "connecting"]
        /\ UNCHANGED <<queue, known, enetCount, enetUp, enetDown, turn, enetSession, early, answered>>
    BY DEF Enet!Start, Enet!serverVars
  <1>2. /\ ppc' \in [Peers -> {"start", "connecting", "connected", "left", "gone"}]
        /\ ppc'[p] = "connecting" /\ \A q \in Peers \ {p} : ppc'[q] = ppc[q]
    BY <1>1 DEF Enet!EnetInv, Enet!TypeOK
  <1>3. Enet!TypeOK' BY <1>1, <1>2 DEF Enet!EnetInv, Enet!TypeOK
  <1>4. /\ enetUp[p] = <<>> /\ enetDown[p] = <<>> /\ p \notin known /\ answered[p] = {}
        /\ enetSession[p] = 0 /\ early[p] = {} /\ enetSession[p] <= turn[p]
    BY <1>1, InvParts DEF PeerInv, Enet!PeerAt
  <1>5. 1..0 = {} OBVIOUS
  <1>6. PeerInv(p)'
    BY <1>1, <1>2, <1>4, <1>5, SessionsEmpty DEF PeerInv, Enet!PeerAt
  <1> QED BY <1>1, <1>2, <1>3, <1>6, EnetPeerStep

(* A client that leaves hears no more.                                        *)
LEMMA EnetLeave ==
  ASSUME Enet!EnetInv, NEW p \in Peers, Enet!Leave(p)
  PROVE  Enet!EnetInv'
  <1>1. /\ ppc[p] \in {"connecting", "connected"}
        /\ ppc' = [ppc EXCEPT ![p] = IF @ = "connected" THEN "left" ELSE "gone"]
        /\ enetDown' = [enetDown EXCEPT ![p] = <<>>]
        /\ UNCHANGED <<queue, known, enetCount, enetUp, turn, enetSession, early, answered>>
    BY DEF Enet!Leave, Enet!serverVars
  <1>2. /\ ppc' \in [Peers -> {"start", "connecting", "connected", "left", "gone"}]
        /\ ppc'[p] \in {"left", "gone"} /\ \A q \in Peers \ {p} : ppc'[q] = ppc[q]
    BY <1>1 DEF Enet!EnetInv, Enet!TypeOK
  <1>3. /\ enetDown' \in [Peers -> Seq(Enet!Events)] /\ enetDown'[p] = <<>>
        /\ \A q \in Peers \ {p} : enetDown'[q] = enetDown[q]
    <2>1. enetDown \in [Peers -> Seq(Enet!Events)] /\ <<>> \in Seq(Enet!Events)
      BY DEF Enet!EnetInv, Enet!TypeOK
    <2> QED BY <1>1, <2>1
  <1>4. UNCHANGED <<queue, known, enetCount, enetUp, turn, enetSession, early, answered>> BY <1>1
  <1>5. Enet!TypeOK' BY <1>2, <1>3, <1>4 DEF Enet!EnetInv, Enet!TypeOK
  <1>6. PeerInv(p) BY InvParts
  <1>7. PeerInv(p)' BY <1>2, <1>3, <1>4, <1>6 DEF PeerInv, Enet!PeerAt
  <1> QED BY <1>2, <1>3, <1>4, <1>5, <1>7, EnetPeerStep

(* The server is told of the end, and of nothing before it any more.           *)
LEMMA EnetLosePeer ==
  ASSUME Enet!EnetInv, NEW p \in Peers, Enet!LosePeer(p)
  PROVE  Enet!EnetInv'
  <1>1. /\ ppc[p] = "left" /\ ppc' = [ppc EXCEPT ![p] = "gone"]
        /\ enetUp' = [enetUp EXCEPT ![p] = <<Enet!Disconnect>>]
        /\ UNCHANGED <<queue, known, enetCount, enetDown, turn, enetSession, early, answered>>
    BY DEF Enet!LosePeer, Enet!serverVars
  <1>2. /\ ppc' \in [Peers -> {"start", "connecting", "connected", "left", "gone"}]
        /\ ppc'[p] = "gone" /\ \A q \in Peers \ {p} : ppc'[q] = ppc[q]
    BY <1>1 DEF Enet!EnetInv, Enet!TypeOK
  <1>3. /\ enetUp' \in [Peers -> Seq(Enet!Events)] /\ enetUp'[p] # <<>>
        /\ \A q \in Peers \ {p} : enetUp'[q] = enetUp[q]
    <2>1. <<Enet!Disconnect>> \in Seq(Enet!Events) /\ <<Enet!Disconnect>> # <<>>
      BY EventFacts
    <2>2. enetUp \in [Peers -> Seq(Enet!Events)] BY DEF Enet!EnetInv, Enet!TypeOK
    <2> QED BY <1>1, <2>1, <2>2
  <1>4. UNCHANGED <<queue, known, enetCount, enetDown, turn, enetSession, early, answered>> BY <1>1
  <1>5. Enet!TypeOK' BY <1>2, <1>3, <1>4 DEF Enet!EnetInv, Enet!TypeOK
  <1>6. PeerInv(p) BY InvParts
  <1>7. PeerInv(p)' BY <1>1, <1>2, <1>4, <1>6 DEF PeerInv, Enet!PeerAt
  <1> QED BY <1>2, <1>3, <1>4, <1>5, <1>7, EnetPeerStep

(* A peer is queued once.                                                     *)
LEMMA EnetArrive ==
  ASSUME Enet!EnetInv, NEW p \in Peers, Enet!Arrive(p)
  PROVE  Enet!EnetInv'
  <1>1. /\ enetUp[p] # <<>> /\ p \notin Tcp!ToSet(queue) /\ queue' = Append(queue, p)
        /\ UNCHANGED <<known, enetCount, enetUp, enetDown, ppc, turn, enetSession, early, answered>>
    BY SameOperators DEF Enet!Arrive, Enet!clientVars
  <1>2. queue \in Seq(Peers) /\ Tcp!IsInjective(queue)
        /\ \A q \in Tcp!ToSet(queue) : enetUp[q] # <<>>
    BY SameOperators DEF Enet!EnetInv, Enet!TypeOK
  <1>3. /\ queue' \in Seq(Peers) /\ Tcp!IsInjective(queue')
        /\ Tcp!ToSet(queue') = Tcp!ToSet(queue) \cup {p}
    BY <1>1, <1>2, AppendFacts
  <1>4. Enet!TypeOK' BY <1>1, <1>3 DEF Enet!EnetInv, Enet!TypeOK
  <1>5. QueueInv' BY <1>1, <1>2, <1>3, SameOperators DEF QueueInv
  <1>6. \A q \in Peers : PeerInv(q)' BY <1>1, PeerKept, InvParts
  <1> QED BY <1>4, <1>5, <1>6, InvPartsNext

-----------------------------------------------------------------------------
(* A client's turn.                                                          *)

(* What Outgoing() puts behind what is still to be told.                       *)
LEMMA OutgoingFacts ==
  ASSUME NEW u \in Seq(Enet!Events), NEW m \in Enet!Events
  PROVE  /\ u \o (<<>> \o <<>>) = u
         /\ u \o (<<>> \o <<m>>) = Append(u, m)
         /\ u = <<>> => /\ u \o (<<Enet!Connect>> \o <<>>) = <<Enet!Connect>>
                        /\ u \o (<<Enet!Connect>> \o <<m>>) = Append(<<Enet!Connect>>, m)
  <1> DEFINE C == <<Enet!Connect>>
             M == <<m>>
  <1>1. C \in Seq(Enet!Events) /\ M \in Seq(Enet!Events) /\ <<>> \in Seq(Enet!Events)
    BY EventFacts
  <1>2. u \o M = Append(u, m) /\ C \o M = Append(C, m) BY <1>1, AppendIsConcat
  <1> HIDE DEF C, M
  <1>3. <<>> \o <<>> = <<>> /\ <<>> \o M = M /\ C \o <<>> = C /\ u \o <<>> = u
        /\ <<>> \o C = C
    BY <1>1, ConcatEmptySeq
  <1>4. C \o M \in Seq(Enet!Events) BY <1>1, ConcatProperties
  <1>5. <<>> \o (C \o M) = C \o M BY <1>4, ConcatEmptySeq
  <1>6. u = <<>> => u \o (C \o <<>>) = C /\ u \o (C \o M) = Append(C, m)
    BY <1>2, <1>3, <1>5
  <1> QED BY <1>2, <1>3, <1>6 DEF C, M

(* One more session.                                                         *)
LEMMA SessionsUpTo ==
  ASSUME NEW n \in Nat
  PROVE  1..(n + 1) = (1..n) \cup {n + 1} /\ n + 1 \notin 1..n /\ n + 1 \in Nat \ {0}
  OBVIOUS

(* Before the connection is up the sessions counted are lost early.            *)
LEMMA TurnUnconnected ==
  ASSUME NEW p \in Peers, PeerInv(p), ppc[p] = "connecting", ppc'[p] = "connecting",
         enetSession[p] \in Nat, turn[p] \in Nat, p \notin known', turn'[p] = turn[p] + 1,
         enetUp'[p] = <<>>, enetDown'[p] = <<>>, answered'[p] = {},
         \/ enetSession'[p] = enetSession[p] /\ early'[p] = early[p]
         \/ /\ enetSession'[p] = enetSession[p] + 1
            /\ early'[p] = early[p] \cup {enetSession[p] + 1}
  PROVE  PeerInv(p)'
  <1> DEFINE n == enetSession[p]
  <1>1. early[p] = 1..n /\ n <= turn[p]
    BY SessionsEmpty DEF PeerInv, Enet!PeerAt
  <1>2. n \in Nat /\ 1..(n + 1) = (1..n) \cup {n + 1} BY SessionsUpTo
  <1>3. early'[p] = 1..(enetSession'[p])
    <2>1. CASE enetSession'[p] = n /\ early'[p] = early[p] BY <1>1, <2>1
    <2>2. CASE enetSession'[p] = n + 1 /\ early'[p] = early[p] \cup {n + 1}
      BY <1>1, <1>2, <2>2
    <2> QED BY <2>1, <2>2
  <1>4. enetSession'[p] <= turn'[p] BY <1>1
  <1> QED BY <1>3, <1>4, SessionsEmpty DEF PeerInv, Enet!PeerAt

(* A connection comes up: its first request follows the news of that.          *)
LEMMA TurnEstablished ==
  ASSUME NEW p \in Peers, PeerInv(p), ppc[p] = "connecting", ppc'[p] = "connected",
         enetSession[p] \in Nat, turn[p] \in Nat, p \notin known', turn'[p] = turn[p] + 1,
         enetDown'[p] = <<>>, answered'[p] = {}, early'[p] = early[p],
         \/ enetSession'[p] = enetSession[p] /\ enetUp'[p] = <<Enet!Connect>>
         \/ /\ enetSession'[p] = enetSession[p] + 1
            /\ enetUp'[p] = Append(<<Enet!Connect>>, Enet!Message(enetSession[p] + 1))
  PROVE  PeerInv(p)'
  <1> DEFINE n == enetSession[p]
             m == n + 1
             C == <<Enet!Connect>>
             k == Enet!Message(m)
  <1>0. n \in Nat /\ m \in Nat \ {0} /\ 1..m = (1..n) \cup {m} /\ m \notin 1..n
        /\ (n <= turn[p] => n <= turn'[p] /\ m <= turn'[p])
    <2>1. n \in Nat /\ 1..m = (1..n) \cup {m} /\ m \notin 1..n BY SessionsUpTo
    <2>2. m \in Nat \ {0} /\ (n <= turn[p] => n <= turn'[p] /\ m <= turn'[p]) OBVIOUS
    <2> QED BY <2>1, <2>2
  <1>1. early[p] = 1..n /\ n <= turn[p]
    BY SessionsEmpty DEF PeerInv, Enet!PeerAt
  <1>2. /\ C \in Seq(Enet!Events) /\ C # <<>> /\ Head(C) = Enet!Connect /\ Tail(C) = <<>>
        /\ Enet!Sessions(C) = {} /\ Enet!InOrder(<<>>, C, {})
    <2>1. C \in Seq(Enet!Events) /\ C # <<>> /\ Head(C) = Enet!Connect /\ Tail(C) = <<>>
      BY EventFacts
    <2>2. C = Append(<<>>, Enet!Connect) /\ <<>> \in Seq(Enet!Events) OBVIOUS
    <2>3. Session(Enet!Connect) = {} BY EventFacts DEF Session
    <2>4. Enet!Sessions(C) = {} /\ Enet!Rising(C)
      BY <2>2, <2>3, EventFacts, SessionsEmpty, SessionsAppend
    <2> QED BY <2>1, <2>4, SessionsEmpty DEF Enet!InOrder
  <1>5. \/ enetSession'[p] = n /\ enetUp'[p] = C
        \/ enetSession'[p] = m /\ enetUp'[p] = Append(C, k)
    OBVIOUS
  <1> HIDE DEF C, m, k
  <1>3. CASE enetSession'[p] = n /\ enetUp'[p] = C
    <2>1. Enet!PeerAt(p)'
      <3>1. early'[p] \cup answered'[p] \subseteq 1..(enetSession'[p]) /\ enetSession'[p] <= turn'[p]
        BY <1>0, <1>1, <1>3
      <3> QED BY <1>2, <1>3, <3>1, SessionsEmpty DEF Enet!PeerAt
    <2>2. (Enet!Expected(p))' = {} BY <1>1, <1>3 DEF Enet!Expected
    <2> QED BY <1>1, <1>2, <1>3, <2>1, <2>2, SessionsEmpty DEF PeerInv
  <1>4. CASE enetSession'[p] = m /\ enetUp'[p] = Append(C, k)
    <2>1. k \in Enet!Events /\ k[1] = "receive" /\ k[2] = m /\ m # 0
      BY <1>0, EventFacts DEF k
    <2>2. Head(Append(C, k)) = Enet!Connect /\ Tail(Append(C, k)) = <<k>> /\ Append(C, k) # <<>>
      <3>0. Tail(Append(C, k)) = Append(Tail(C), k) /\ Head(Append(C, k)) = Head(C)
        BY <1>2, <2>1, HeadTailAppend
      <3>1. Tail(Append(C, k)) = Append(<<>>, k) /\ Head(Append(C, k)) = Enet!Connect
        BY <1>2, <3>0
      <3>2. Append(<<>>, k) = <<k>> OBVIOUS
      <3> QED BY <1>2, <2>1, <3>1, <3>2, AppendProperties
    <2>3. Enet!Requests(<<k>>) BY <2>1 DEF Enet!Requests
    <2>4. /\ Enet!InOrder(<<>>, Append(C, k), {m})
          /\ Enet!Sessions(Append(C, k)) = {m}
      <3> DEFINE Z == {}
      <3>1. <<>> \in Seq(Enet!Events) /\ (\A a \in Z : a < m) /\ Enet!InOrder(<<>>, C, Z) BY <1>2
      <3>3. Z \cup {m} = {m} OBVIOUS
      <3> HIDE DEF Z
      <3>2. /\ Enet!InOrder(<<>>, Append(C, k), Z \cup {m})
            /\ Enet!Sessions(Append(C, k)) = Enet!Sessions(C) \cup {m}
        <4>1. C \in Seq(Enet!Events) BY <1>2
        <4>2. k \in Enet!Events /\ Session(k) = {m} BY <1>0, EventFacts DEF Session, k
        <4>4. Enet!Sessions(Append(C, k)) = Enet!Sessions(C) \cup Session(k)
          BY <4>1, <4>2, SessionsAppend
        <4>3. Enet!InOrder(<<>>, Append(C, k), Z \cup Session(k))
          <5>1. Below(Z, Session(k)) BY <3>1, <4>2 DEF Below
          <5>2. <<>> \in Seq(Enet!Events) /\ Enet!InOrder(<<>>, C, Z) BY <3>1
          <5>3. k \in Enet!Events BY <4>2
          <5> HIDE DEF k
          <5> QED BY <4>1, <5>1, <5>2, <5>3, OrderAsked
        <4> QED BY <4>2, <4>3, <4>4
      <3> QED BY <1>2, <3>2, <3>3
    <2>6. (Enet!Expected(p))' = {m} BY <1>0, <1>1, <1>4 DEF Enet!Expected
    <2>7. Enet!PeerAt(p)'
      <3>1. early'[p] \cup answered'[p] \subseteq 1..(enetSession'[p]) /\ enetSession'[p] <= turn'[p]
        BY <1>0, <1>1, <1>4
      <3> QED BY <1>4, <2>2, <2>3, <3>1 DEF Enet!PeerAt
    <2>8. (Enet!InOrder(enetDown[p], enetUp[p], Enet!Expected(p)))' BY <1>4, <2>4, <2>6
    <2>9. (1..enetSession[p] = early[p] \cup answered[p]
             \cup Enet!Sessions(enetUp[p]) \cup Enet!Sessions(enetDown[p]))'
      BY <1>1, <1>4, <2>4, <1>0, SessionsEmpty
    <2> QED BY <2>7, <2>8, <2>9 DEF PeerInv
  <1> QED BY <1>3, <1>4, <1>5

(* A connected client may hear one event, then may ask: what it asks is above    *)
(* what it has asked before.                                                 *)
Hearing(p) ==
  \/ enetDown'[p] = enetDown[p] /\ answered'[p] = answered[p]
  \/ /\ enetDown[p] # <<>> /\ enetDown'[p] = Tail(enetDown[p])
     /\ answered'[p] = answered[p] \cup Session(Head(enetDown[p]))

Asking(p) ==
  \/ enetSession'[p] = enetSession[p] /\ enetUp'[p] = enetUp[p]
  \/ /\ enetSession'[p] = enetSession[p] + 1
     /\ enetUp'[p] = Append(enetUp[p], Enet!Message(enetSession[p] + 1))

(* What a turn of a connected client's loop keeps: it hears at most one event and asks at   *)
(* most one request, whose session is greater than all before.                              *)
LEMMA TurnConnected ==
  ASSUME NEW p \in Peers, PeerInv(p), ppc[p] = "connected", ppc'[p] = "connected",
         enetUp[p] \in Seq(Enet!Events), enetDown[p] \in Seq(Enet!Events),
         enetSession[p] \in Nat, turn[p] \in Nat, known' = known, turn'[p] = turn[p] + 1,
         early'[p] = early[p], Hearing(p), Asking(p)
  PROVE  PeerInv(p)'
  <1> DEFINE n == enetSession[p]
             u == enetUp[p]
             d == enetDown'[p]
             E == (1..n) \ (early[p] \cup answered'[p])
             m == n + 1
             k == Enet!Message(m)
  <1>0. n \in Nat /\ m \in Nat \ {0} /\ 1..m = (1..n) \cup {m} /\ m \notin 1..n
        /\ (n <= turn[p] => n <= turn'[p] /\ m <= turn'[p])
        /\ \A a \in 1..n : a < m
    BY SessionsUpTo
  <1>1. /\ early[p] \cup answered[p] \subseteq 1..n /\ n <= turn[p]
        /\ Enet!InOrder(enetDown[p], u, (1..n) \ (early[p] \cup answered[p]))
        /\ 1..n = early[p] \cup answered[p] \cup Enet!Sessions(u) \cup Enet!Sessions(enetDown[p])
        /\ IF p \in known THEN Enet!Requests(u)
           ELSE u # <<>> /\ Head(u) = Enet!Connect /\ Enet!Requests(Tail(u)) /\ enetDown[p] = <<>>
    BY DEF PeerInv, Enet!PeerAt, Enet!Expected
  <1>2. /\ d \in Seq(Enet!Events)
        /\ early[p] \cup answered'[p] \subseteq 1..n
        /\ Enet!InOrder(d, u, E)
        /\ 1..n = early[p] \cup answered'[p] \cup Enet!Sessions(u) \cup Enet!Sessions(d)
        /\ p \notin known => d = <<>>
    <2>1. CASE enetDown'[p] = enetDown[p] /\ answered'[p] = answered[p] BY <1>1, <2>1
    <2>2. CASE /\ enetDown[p] # <<>> /\ enetDown'[p] = Tail(enetDown[p])
               /\ answered'[p] = answered[p] \cup Session(Head(enetDown[p]))
      <3> DEFINE F == (1..n) \ (early[p] \cup answered[p])
                 S == Session(Head(enetDown[p]))
      <3>0. Enet!InOrder(enetDown[p], u, F) /\ u \in Seq(Enet!Events) BY <1>1
      <3> HIDE DEF F, u
      <3>4. /\ Enet!InOrder(Tail(enetDown[p]), u, F \ S)
            /\ Enet!Sessions(enetDown[p]) = S \cup Enet!Sessions(Tail(enetDown[p]))
            /\ S \subseteq F
        BY <2>2, <3>0, OrderHeard
      <3>1. /\ Enet!InOrder(d, u, F \ S)
            /\ Enet!Sessions(enetDown[p]) = S \cup Enet!Sessions(d)
            /\ S \subseteq F
        BY <2>2, <3>4
      <3>2. d \in Seq(Enet!Events) BY <2>2, HeadTailProperties
      <3> HIDE DEF S
      <3>3. F \ S = E BY <2>2 DEF F, S
      <3>6. early[p] \cup answered'[p] \subseteq 1..n BY <1>1, <2>2, <3>1 DEF F, S
      <3>5. 1..n = early[p] \cup answered'[p] \cup Enet!Sessions(u) \cup Enet!Sessions(d)
        BY <1>1, <2>2, <3>1 DEF S
      <3> QED BY <1>1, <2>2, <3>1, <3>2, <3>3, <3>5, <3>6
    <2> QED BY <2>1, <2>2 DEF Hearing
  <1>5. \/ enetSession'[p] = n /\ enetUp'[p] = u
        \/ enetSession'[p] = m /\ enetUp'[p] = Append(u, k)
    BY DEF Asking
  <1> HIDE DEF m, k
  <1>3. CASE enetSession'[p] = n /\ enetUp'[p] = u
    <2>1. Enet!PeerAt(p)' BY <1>0, <1>1, <1>2, <1>3 DEF Enet!PeerAt
    <2>2. (Enet!Expected(p))' = E BY <1>3 DEF Enet!Expected
    <2>3. (Enet!InOrder(enetDown[p], enetUp[p], Enet!Expected(p)))' BY <1>2, <1>3, <2>2
    <2>4. (1..enetSession[p] = early[p] \cup answered[p]
             \cup Enet!Sessions(enetUp[p]) \cup Enet!Sessions(enetDown[p]))'
      BY <1>2, <1>3
    <2> QED BY <2>1, <2>3, <2>4 DEF PeerInv
  <1>4. CASE enetSession'[p] = m /\ enetUp'[p] = Append(u, k)
    <2>2. k \in Enet!Events /\ u \in Seq(Enet!Events) BY <1>0, EventFacts DEF k
    <2>3. \A a \in E : a < m BY <1>0
    <2>4. /\ Enet!InOrder(d, Append(u, k), E \cup {m})
          /\ Enet!Sessions(Append(u, k)) = Enet!Sessions(u) \cup {m}
      <3> HIDE DEF E, u, d, k
      <3>1. PICK x, F : x = d /\ F = E OBVIOUS
      <3>2. x \in Seq(Enet!Events) /\ u \in Seq(Enet!Events) /\ Enet!InOrder(x, u, F)
        BY <1>2, <2>2, <3>1
      <3>3. k \in Enet!Events /\ Session(k) = {m} BY <1>0, EventFacts DEF Session, k
      <3>4. Below(F, Session(k)) BY <2>3, <3>1, <3>3 DEF Below
      <3>5. Enet!InOrder(x, Append(u, k), F \cup Session(k)) BY <3>2, <3>3, <3>4, OrderAsked
      <3>6. Enet!Sessions(Append(u, k)) = Enet!Sessions(u) \cup Session(k)
        BY <3>2, <3>3, SessionsAppend
      <3> QED BY <3>1, <3>3, <3>5, <3>6
    <2>5. (Enet!Expected(p))' = E \cup {m}
      BY <1>2, <1>4, <1>0 DEF Enet!Expected
    <2>6. (Enet!InOrder(enetDown[p], enetUp[p], Enet!Expected(p)))' BY <1>4, <2>4, <2>5
    <2>7. (1..enetSession[p] = early[p] \cup answered[p]
             \cup Enet!Sessions(enetUp[p]) \cup Enet!Sessions(enetDown[p]))'
      BY <1>2, <1>4, <1>0, <2>4
    <2>8. IF p \in known THEN Enet!Requests(Append(u, k))
          ELSE Append(u, k) # <<>> /\ Head(Append(u, k)) = Enet!Connect
               /\ Enet!Requests(Tail(Append(u, k))) /\ d = <<>>
      <3>1. CASE p \in known BY <1>1, <1>0, <3>1, RequestsAppend DEF k
      <3>2. CASE p \notin known
        <4>1. u # <<>> /\ Head(u) = Enet!Connect /\ Enet!Requests(Tail(u)) /\ d = <<>>
          BY <1>1, <1>2, <3>2
        <4>2. Tail(u) \in Seq(Enet!Events) BY <4>1, HeadTailProperties
        <4>3. Enet!Requests(Append(Tail(u), k)) BY <1>0, <4>1, <4>2, RequestsAppend DEF k
        <4> HIDE DEF k, u
        <4>4. Head(Append(u, k)) = Head(u) /\ Tail(Append(u, k)) = Append(Tail(u), k)
          BY <2>2, <4>1, HeadTailAppend
        <4>5. Append(u, k) # <<>> BY <2>2, AppendProperties
        <4> QED BY <3>2, <4>1, <4>3, <4>4, <4>5
      <3> QED BY <3>1, <3>2
    <2>9. Enet!PeerAt(p)'
      <3> HIDE DEF k, u, E
      <3>1. early'[p] \cup answered'[p] \subseteq 1..m /\ m <= turn'[p]
        BY <1>1, <1>2, <1>0
      <3> QED BY <1>4, <2>8, <3>1 DEF Enet!PeerAt
    <2> QED BY <2>6, <2>7, <2>9 DEF PeerInv
  <1> QED BY <1>3, <1>4, <1>5

(* A turn is of one of these three kinds.                                     *)
LEMMA EnetTurn ==
  ASSUME Enet!EnetInv, NEW p \in Peers, Enet!Turn(p)
  PROVE  Enet!EnetInv'
  <1> DEFINE n == enetSession[p]
             asked == enetSession'[p] # enetSession[p]
             k == Enet!Message(enetSession'[p])
             States == {"start", "connecting", "connected", "left", "gone"}
  <1>1. /\ ppc[p] \in {"connecting", "connected"}
        /\ turn[p] < MaxTurns /\ turn' = [turn EXCEPT ![p] = @ + 1]
        /\ Enet!NoEvent(p) \/ Enet!Established(p) \/ Enet!Hears(p)
        /\ Enet!send_request(p) \/ UNCHANGED <<enetSession, early>>
        /\ enetUp' = [enetUp EXCEPT ![p] = @ \o Enet!Outgoing(p)]
        /\ UNCHANGED <<queue, known, enetCount>>
    BY DEF Enet!Turn, Enet!serverVars
  <1>2. /\ enetUp \in [Peers -> Seq(Enet!Events)] /\ enetDown \in [Peers -> Seq(Enet!Events)]
        /\ ppc \in [Peers -> States] /\ turn \in [Peers -> 0..MaxTurns]
        /\ enetSession \in [Peers -> Nat]
        /\ early \in [Peers -> SUBSET Nat] /\ answered \in [Peers -> SUBSET Nat]
    BY DEF Enet!EnetInv, Enet!TypeOK
  <1>3. PeerInv(p) /\ Enet!PeerAt(p) BY InvParts DEF PeerInv
  <1>4. /\ turn' \in [Peers -> 0..MaxTurns] /\ turn'[p] = turn[p] + 1
        /\ \A q \in Peers \ {p} : turn'[q] = turn[q]
    BY <1>1, <1>2, ServerAssumption
  <1>5. /\ ppc' \in [Peers -> States] /\ \A q \in Peers \ {p} : ppc'[q] = ppc[q]
        /\ \/ ppc'[p] = ppc[p]
           \/ /\ ppc[p] = "connecting" /\ ppc'[p] = "connected"
              /\ enetDown' = enetDown /\ answered' = answered
    BY <1>1, <1>2 DEF Enet!NoEvent, Enet!Established, Enet!Hears
  <1>6. /\ enetDown' \in [Peers -> Seq(Enet!Events)] /\ answered' \in [Peers -> SUBSET Nat]
        /\ \A q \in Peers \ {p} : enetDown'[q] = enetDown[q] /\ answered'[q] = answered[q]
        /\ Hearing(p)
    <2>1. CASE enetDown' = enetDown /\ answered' = answered BY <1>2, <2>1 DEF Hearing
    <2>2. CASE Enet!Hears(p)
      <3> DEFINE h == Head(enetDown[p])
      <3>1. /\ enetDown[p] # <<>> /\ enetDown' = [enetDown EXCEPT ![p] = Tail(@)]
            /\ answered' = [answered EXCEPT ![p] = @ \cup Session(h)]
        BY <2>2 DEF Enet!Hears, Session
      <3>2. h \in Enet!Events /\ Tail(enetDown[p]) \in Seq(Enet!Events)
        BY <1>2, <3>1, HeadTailProperties
      <3>3. Session(h) \subseteq Nat BY <3>2, EventFacts DEF Session
      <3> HIDE DEF h
      <3>4. /\ enetDown' \in [Peers -> Seq(Enet!Events)]
            /\ \A q \in Peers \ {p} : enetDown'[q] = enetDown[q]
            /\ enetDown'[p] = Tail(enetDown[p])
        BY <1>2, <3>1, <3>2
      <3>5. /\ answered' \in [Peers -> SUBSET Nat]
            /\ \A q \in Peers \ {p} : answered'[q] = answered[q]
            /\ answered'[p] = answered[p] \cup Session(h)
        BY <1>2, <3>1, <3>3
      <3> QED BY <3>1, <3>4, <3>5 DEF Hearing, h
    <2> QED BY <1>1, <2>1, <2>2 DEF Enet!NoEvent, Enet!Established
  <1>7. /\ enetSession' \in [Peers -> Nat] /\ early' \in [Peers -> SUBSET Nat]
        /\ \A q \in Peers \ {p} : enetSession'[q] = enetSession[q] /\ early'[q] = early[q]
        /\ \/ enetSession'[p] = n /\ early'[p] = early[p]
           \/ /\ enetSession'[p] = n + 1
              /\ early'[p] = IF ppc'[p] = "connected" THEN early[p] ELSE early[p] \cup {n + 1}
    <2>1. CASE UNCHANGED <<enetSession, early>> BY <1>2, <2>1
    <2>2. CASE Enet!send_request(p)
      <3>1. /\ enetSession' = [enetSession EXCEPT ![p] = @ + 1]
            /\ early' = IF ppc'[p] = "connected" THEN early
                        ELSE [early EXCEPT ![p] = @ \cup {enetSession'[p]}]
        BY <2>2 DEF Enet!send_request
      <3>2. /\ enetSession' \in [Peers -> Nat] /\ enetSession'[p] = n + 1 /\ n + 1 \in Nat
            /\ \A q \in Peers \ {p} : enetSession'[q] = enetSession[q]
        BY <1>2, <3>1
      <3>3. CASE ppc'[p] = "connected" BY <1>2, <3>1, <3>2, <3>3
      <3>4. CASE ppc'[p] # "connected"
        <4>1. early' = [early EXCEPT ![p] = @ \cup {n + 1}] BY <3>1, <3>2, <3>4
        <4> HIDE DEF n
        <4>2. /\ early' \in [Peers -> SUBSET Nat] /\ early'[p] = early[p] \cup {n + 1}
              /\ \A q \in Peers \ {p} : early'[q] = early[q]
          BY <1>2, <3>2, <4>1
        <4> QED BY <3>2, <3>4, <4>2
      <3> QED BY <3>3, <3>4
    <2> QED BY <1>1, <2>1, <2>2
  <1>8. Enet!Outgoing(p) = (IF ppc'[p] # ppc[p] THEN <<Enet!Connect>> ELSE <<>>)
                           \o (IF asked /\ ppc'[p] = "connected" THEN <<k>> ELSE <<>>)
    BY DEF Enet!Outgoing
  <1>9. asked <=> enetSession'[p] = n + 1 BY <1>2, <1>7
  <1>10. /\ \A q \in Peers \ {p} : enetUp'[q] = enetUp[q]
         /\ enetUp'[p] = enetUp[p] \o Enet!Outgoing(p)
    BY <1>1, <1>2
  <1>11. k \in Enet!Events /\ enetUp[p] \in Seq(Enet!Events) BY <1>2, <1>7, EventFacts
  <1> HIDE DEF k, asked
  <1>12. /\ enetUp[p] \o (<<>> \o <<>>) = enetUp[p]
         /\ enetUp[p] \o (<<>> \o <<k>>) = Append(enetUp[p], k)
         /\ enetUp[p] = <<>> => /\ enetUp[p] \o (<<Enet!Connect>> \o <<>>) = <<Enet!Connect>>
                                /\ enetUp[p] \o (<<Enet!Connect>> \o <<k>>)
                                     = Append(<<Enet!Connect>>, k)
    BY <1>11, OutgoingFacts
  <1>13. /\ <<Enet!Connect>> \in Seq(Enet!Events) /\ <<Enet!Connect>> # <<>>
         /\ Append(enetUp[p], k) \in Seq(Enet!Events) /\ Append(enetUp[p], k) # <<>>
         /\ Append(<<Enet!Connect>>, k) \in Seq(Enet!Events)
         /\ Append(<<Enet!Connect>>, k) # <<>>
    <2>1. <<Enet!Connect>> \in Seq(Enet!Events) /\ <<Enet!Connect>> # <<>> BY EventFacts
    <2> QED BY <1>11, <2>1, AppendProperties
  <1> DEFINE Kept == PeerInv(p)' /\ enetUp'[p] \in Seq(Enet!Events)
                     /\ (enetUp[p] # <<>> => enetUp'[p] # <<>>)
  <1>21. enetSession[p] \in Nat /\ turn[p] \in Nat BY <1>2, ServerAssumption
  <1>14. ASSUME ppc[p] = "connecting", ppc'[p] = "connecting" PROVE Kept
    <2>1. enetUp[p] = <<>> /\ enetDown[p] = <<>> /\ p \notin known /\ answered[p] = {}
      BY <1>3, <1>14 DEF Enet!PeerAt
    <2>2. enetUp'[p] = enetUp[p] BY <1>8, <1>10, <1>12, <1>14
    <2>3. enetDown'[p] = enetDown[p] /\ answered'[p] = answered[p]
      BY <1>6, <2>1 DEF Hearing
    <2>5. enetUp'[p] = <<>> /\ enetDown'[p] = <<>> /\ answered'[p] = {} /\ p \notin known'
      BY <1>1, <2>1, <2>2, <2>3
    <2>6. \/ enetSession'[p] = enetSession[p] /\ early'[p] = early[p]
          \/ /\ enetSession'[p] = enetSession[p] + 1
             /\ early'[p] = early[p] \cup {enetSession[p] + 1}
      BY <1>7, <1>14
    <2>4. PeerInv(p)' BY <1>3, <1>4, <1>14, <1>21, <2>5, <2>6, TurnUnconnected
    <2> QED BY <1>11, <2>2, <2>4
  <1>15. ASSUME ppc[p] = "connecting", ppc'[p] = "connected" PROVE Kept
    <2>1. enetUp[p] = <<>> /\ enetDown[p] = <<>> /\ p \notin known /\ answered[p] = {}
      BY <1>3, <1>15 DEF Enet!PeerAt
    <2>2. enetUp'[p] = IF asked THEN Append(<<Enet!Connect>>, k) ELSE <<Enet!Connect>>
      BY <1>8, <1>10, <1>12, <1>15, <2>1
    <2>3. \/ enetSession'[p] = n /\ enetUp'[p] = <<Enet!Connect>>
          \/ enetSession'[p] = n + 1 /\ enetUp'[p] = Append(<<Enet!Connect>>, Enet!Message(n + 1))
      BY <1>7, <1>9, <2>2 DEF k
    <2>4. enetDown'[p] = <<>> /\ answered'[p] = {} /\ early'[p] = early[p]
      BY <1>5, <1>7, <1>15, <2>1
    <2>7. p \notin known' BY <1>1, <2>1
    <2>5. PeerInv(p)' BY <1>3, <1>4, <1>15, <1>21, <2>3, <2>4, <2>7, TurnEstablished
    <2>6. enetUp'[p] \in Seq(Enet!Events) /\ enetUp'[p] # <<>> BY <1>13, <2>2
    <2> QED BY <2>5, <2>6
  <1>16. ASSUME ppc[p] = "connected", ppc'[p] = "connected" PROVE Kept
    <2>1. enetUp'[p] = IF asked THEN Append(enetUp[p], k) ELSE enetUp[p]
      BY <1>8, <1>10, <1>12, <1>16
    <2>2. Asking(p) BY <1>7, <1>9, <2>1 DEF Asking, k
    <2>3. early'[p] = early[p] BY <1>7, <1>16
    <2>6. enetDown[p] \in Seq(Enet!Events) BY <1>2
    <2>4. PeerInv(p)'
      BY <1>1, <1>3, <1>4, <1>6, <1>11, <1>16, <1>21, <2>2, <2>3, <2>6, TurnConnected
    <2>5. enetUp'[p] \in Seq(Enet!Events) /\ (enetUp[p] # <<>> => enetUp'[p] # <<>>)
      BY <1>11, <1>13, <2>1
    <2> QED BY <2>4, <2>5
  <1>17. Kept
    BY <1>1, <1>5, <1>14, <1>15, <1>16
  <1>18. enetUp' \in [Peers -> Seq(Enet!Events)] BY <1>1, <1>2, <1>10, <1>17
  <1>19. Enet!TypeOK' BY <1>1, <1>4, <1>5, <1>6, <1>7, <1>18 DEF Enet!EnetInv, Enet!TypeOK
  <1>20. \A q \in Peers \ {p} :
           UNCHANGED <<enetUp[q], enetDown[q], ppc[q], turn[q], enetSession[q], early[q], answered[q]>>
    BY <1>4, <1>5, <1>6, <1>7, <1>10
  <1> QED BY <1>1, <1>17, <1>19, <1>20, EnetPeerStep

-----------------------------------------------------------------------------

(* At the start nobody is known and nothing is on its way.                                  *)
LEMMA EnetInit ==
  ASSUME Enet!Init
  PROVE  Enet!EnetInv
  <1>1. Enet!TypeOK
    <2>1. <<>> \in Seq(Enet!Events) /\ <<>> \in Seq(Peers) /\ 0 \in 0..MaxTurns
      BY ServerAssumption
    <2>2. queue \in Seq(Peers) /\ known \subseteq Peers /\ enetCount \in Nat
      BY <2>1 DEF Enet!Init
    <2>3. enetUp \in [Peers -> Seq(Enet!Events)] /\ enetDown \in [Peers -> Seq(Enet!Events)]
      BY <2>1 DEF Enet!Init
    <2>4. ppc \in [Peers -> {"start", "connecting", "connected", "left", "gone"}]
      BY DEF Enet!Init
    <2>5. turn \in [Peers -> 0..MaxTurns] /\ enetSession \in [Peers -> Nat]
      BY <2>1 DEF Enet!Init
    <2>6. early \in [Peers -> SUBSET Nat] /\ answered \in [Peers -> SUBSET Nat]
      BY DEF Enet!Init
    <2> QED BY <2>2, <2>3, <2>4, <2>5, <2>6 DEF Enet!TypeOK
  <1>2. QueueInv BY DEF Enet!Init, QueueInv, Enet!IsInjective, Enet!ToSet
  <1>3. \A p \in Peers : PeerInv(p) BY DEF Enet!Init, PeerInv, Enet!PeerAt
  <1> QED BY <1>1, <1>2, <1>3, InvParts

(* Every step of the whole keeps the ENet part.                               *)
LEMMA EnetStep ==
  ASSUME Enet!EnetInv, Next
  PROVE  Enet!EnetInv'
  <1>1. CASE SelectSockets \/ ServeSocket BY <1>1, EnetIdle DEF SelectSockets, ServeSocket
  <1>2. CASE ServePeer
    <2>1. CASE Enet!Idle
      <3>1. UNCHANGED enetVars
        BY <2>1 DEF Enet!Idle, enetVars, Enet!serverVars, Enet!clientVars
      <3> QED BY <3>1, EnetIdle
    <2>2. ASSUME NEW p \in Peers, Enet!Receive(p) \/ Enet!Connected(p) \/ Enet!Disconnected(p)
          PROVE  Enet!EnetInv'
      BY <2>2, EnetReceive, EnetConnected, EnetDisconnected
    <2> QED BY <1>2, <2>1, <2>2 DEF ServePeer, Enet!process
  <1>3. ASSUME NEW c \in Clients, StartTcp(c) \/ TcpClient(c) PROVE Enet!EnetInv'
    BY <1>3, EnetIdle DEF StartTcp, TcpClient
  <1>4. ASSUME NEW p \in Peers, StartEnet(p) \/ EnetClient(p) \/ EnetNetwork(p)
        PROVE  Enet!EnetInv'
    BY <1>4, EnetStart, EnetTurn, EnetLeave, EnetArrive, EnetLosePeer
    DEF StartEnet, EnetClient, EnetNetwork, Enet!Client, Enet!Network
  <1> QED BY <1>1, <1>2, <1>3, <1>4 DEF Next, Server

=============================================================================
