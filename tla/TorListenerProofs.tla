-------------------------- MODULE TorListenerProofs -------------------------
(***************************************************************************)
(* The onion service of a TorListener, for any number of binds.            *)
(*                                                                         *)
(* The argument follows the dialogue of the current bind: one command is   *)
(* out at a time, and what is left to read is the rest of the answer to    *)
(* it.  Earlier binds are closed on our side, later ones have not begun;   *)
(* so the daemon's late answers, and its closings, cannot be mistaken for  *)
(* the current one's.                                                      *)
(***************************************************************************)
EXTENDS TorListener, SequenceTheorems, TLAPS

\* The daemon has heard nothing of bind n.
Untouched(n) == asked[n] = <<>> /\ n \notin serving /\ n \notin published

\* The answers to a command: to AUTHENTICATE, to an ADD_ONION that is granted, after
\* the ServiceID of one, to one refused.
AuthReplies    == {<<"ok">>, <<"fin">>, <<"more", "ok">>, <<"err">>}
AddedReplies   == {<<"id", "ok">>, <<"id", "more", "ok">>}
NamedRests     == {<<"ok">>, <<"more", "ok">>}
RefusedReplies == {<<"err">>, <<"fin">>, <<"more", "err">>, <<"ok">>}

\* What may be left of them when the daemon closes between two lines.
Begun(S) == {SubSeq(p[1], 1, p[2]) : p \in {q \in S \X Nat : q[2] <= Len(q[1])}}

\* The service is up, or the daemon has closed its connection.
Up == bind \in published \/ bind \notin serving

\* The answer to AUTHENTICATE is awaited, or being read.
Authenticating ==
  /\ ~named
  /\ \/ asked[bind] = <<"AUTHENTICATE">> /\ replies = <<>>
     \/ asked[bind] = <<>> /\ replies \in Begun(AuthReplies)

\* The same for ADD_ONION: `named` says that the line with the address was read.
Adding ==
  \/ asked[bind] = <<"ADD_ONION">> /\ replies = <<>> /\ ~named
  \/ asked[bind] = <<>> /\ Up /\ ~named /\ replies \in Begun(AddedReplies)
  \/ asked[bind] = <<>> /\ Up /\ named /\ replies \in Begun(NamedRests)
  \/ asked[bind] = <<>> /\ ~named /\ replies \in Begun(RefusedReplies)

\* Nothing is left to read.
Listening == asked[bind] = <<>> /\ replies = <<>> /\ named /\ Up

\* Where the dialogue is, by the phase of bind.
Dialogue ==
  /\ phase = "connecting" => Untouched(bind)
  /\ phase \in {"connecting", "connected", "authenticated"} =>
        asked[bind] = <<>> /\ replies = <<>> /\ ~named
  /\ phase = "authenticating" => Authenticating
  /\ phase = "adding" => Adding
  /\ phase = "listening" => Listening

\* What we hold.
Holdings ==
  /\ held \subseteq {bind} /\ local \subseteq {bind}
  /\ phase \in {"none", "connecting"} => held = {}
  /\ phase = "none" => local = {}
  /\ phase \in (Handshake \ {"connecting"}) \cup {"listening"} => held = {bind}
  /\ phase \in Handshake \cup {"listening"} => local = {bind}
  /\ phase # "none" => bind \in Binds

\* The inductive invariant.
TorInv ==
  /\ TypeOK /\ Holdings /\ Dialogue
  /\ \A n \in Binds : n > bind => Untouched(n)

\* The answers are lines, and what is left of each once its head is read.
LEMMA Replies ==
  /\ \A r \in AuthReplies \cup AddedReplies \cup NamedRests \cup RefusedReplies :
        r \in Seq(Lines) /\ r # <<>>
  /\ \A r \in AuthReplies : Head(r) \in {"ok", "fin"} => Tail(r) = <<>>
  /\ \A r \in AddedReplies : Head(r) = "id" /\ Tail(r) \in NamedRests
  /\ \A r \in NamedRests :
        \/ Head(r) = "ok" /\ Tail(r) = <<>>
        \/ Head(r) = "more" /\ Tail(r) \in NamedRests
  /\ \A r \in RefusedReplies :
        \/ Head(r) \in {"err", "fin", "ok"}
        \/ Head(r) = "more" /\ Tail(r) \in RefusedReplies
<1> USE DEF Lines
<1>1. ASSUME NEW x \in Lines
      PROVE  <<x>> \in Seq(Lines) /\ <<x>> # <<>> /\ Head(<<x>>) = x /\ Tail(<<x>>) = <<>>
  OBVIOUS
<1>2. ASSUME NEW x \in Lines, NEW y \in Lines
      PROVE  <<x, y>> \in Seq(Lines) /\ <<x, y>> # <<>> /\ Head(<<x, y>>) = x
             /\ Tail(<<x, y>>) = <<y>>
  OBVIOUS
<1>3. ASSUME NEW x \in Lines, NEW y \in Lines, NEW z \in Lines
      PROVE  <<x, y, z>> \in Seq(Lines) /\ <<x, y, z>> # <<>> /\ Head(<<x, y, z>>) = x
             /\ Tail(<<x, y, z>>) = <<y, z>>
  OBVIOUS
<1> QED
  BY <1>1, <1>2, <1>3 DEF AuthReplies, AddedReplies, NamedRests, RefusedReplies

\* What a closing leaves of an answer: the whole, or less of the same, and less again
\* at the next closing.  A line read leaves what is left of the rest.
LEMMA Cuts ==
  ASSUME NEW S \in SUBSET Seq(Lines)
  PROVE  /\ S \subseteq Begun(S) /\ Begun(S) \subseteq Seq(Lines)
         /\ \A r \in Begun(S) : \A k \in 0 .. Len(r) : SubSeq(r, 1, k) \in Begun(S)
         /\ \A r \in Begun(S) \ {<<>>} : \E s \in S \ {<<>>} :
               /\ Head(r) = Head(s)
               /\ (Tail(s) = <<>> => Tail(r) = <<>>)
               /\ \A T \in SUBSET Seq(Lines) : Tail(s) \in T => Tail(r) \in Begun(T)
<1>1. ASSUME NEW T \in SUBSET Seq(Lines), NEW s \in T, NEW k \in 0 .. Len(s)
      PROVE  SubSeq(s, 1, k) \in Begun(T)
  <2>1. <<s, k>> \in {q \in T \X Nat : q[2] <= Len(q[1])}
    OBVIOUS
  <2> QED
    BY <2>1 DEF Begun
<1>2. ASSUME NEW r \in Begun(S)
      PROVE  \E s \in S : \E k \in 0 .. Len(s) : r = SubSeq(s, 1, k)
  BY <1>2 DEF Begun
<1>3. ASSUME NEW s \in Seq(Lines), NEW k \in 0 .. Len(s)
      PROVE  /\ SubSeq(s, 1, k) \in Seq(Lines) /\ Len(SubSeq(s, 1, k)) = k
             /\ \A i \in 1 .. k : SubSeq(s, 1, k)[i] = s[i]
  BY <1>3
<1>4. ASSUME NEW s \in Seq(Lines)
      PROVE  SubSeq(s, 1, Len(s)) = s
  <2>1. Len(s) \in 0 .. Len(s)
    OBVIOUS
  <2> QED
    BY <1>3, <2>1, SeqEqual
<1>5. S \subseteq Begun(S)
  <2> SUFFICES ASSUME NEW s \in S PROVE s \in Begun(S)
    OBVIOUS
  <2>1. Len(s) \in 0 .. Len(s)
    OBVIOUS
  <2>2. SubSeq(s, 1, Len(s)) \in Begun(S)
    BY <1>1, <2>1
  <2> QED
    BY <1>4, <2>2
<1>6. Begun(S) \subseteq Seq(Lines)
  BY <1>2, <1>3
<1>7. ASSUME NEW r \in Begun(S), NEW k \in 0 .. Len(r)
      PROVE  SubSeq(r, 1, k) \in Begun(S)
  <2>0. PICK s \in S : \E j \in 0 .. Len(s) : r = SubSeq(s, 1, j)
    BY <1>2
  <2>1. PICK j \in 0 .. Len(s) : r = SubSeq(s, 1, j)
    BY <2>0
  <2>2. Len(r) = j /\ k \in 0 .. Len(s) /\ r \in Seq(Lines) /\ s \in Seq(Lines)
    BY <1>3, <2>1
  <2>3. SubSeq(r, 1, k) = SubSeq(s, 1, k)
    <3>1. \A i \in 1 .. k : SubSeq(r, 1, k)[i] = r[i] /\ r[i] = s[i] /\ SubSeq(s, 1, k)[i] = s[i]
      BY <1>3, <2>1, <2>2
    <3> QED
      BY <1>3, <2>2, <3>1, SeqEqual
  <2> QED
    BY <1>1, <2>2, <2>3
<1>8. ASSUME NEW r \in Begun(S), r # <<>>
      PROVE  \E s \in S \ {<<>>} :
               /\ Head(r) = Head(s)
               /\ (Tail(s) = <<>> => Tail(r) = <<>>)
               /\ \A T \in SUBSET Seq(Lines) : Tail(s) \in T => Tail(r) \in Begun(T)
  <2>0. PICK s \in S : \E j \in 0 .. Len(s) : r = SubSeq(s, 1, j)
    BY <1>2
  <2>1. PICK j \in 0 .. Len(s) : r = SubSeq(s, 1, j)
    BY <2>0
  <2>2. Len(r) = j /\ r \in Seq(Lines) /\ s \in Seq(Lines) /\ j # 0
    BY <1>3, <1>8, <2>1, EmptySeq
  <2>3. /\ s # <<>> /\ Head(s) = s[1] /\ Head(r) = r[1] /\ r[1] = s[1]
        /\ Len(Tail(r)) = j - 1 /\ Len(Tail(s)) = Len(s) - 1
        /\ Tail(r) \in Seq(Lines) /\ Tail(s) \in Seq(Lines)
    <3>1. Len(s) >= 1 /\ Len(r) >= 1
      BY <2>2
    <3> QED
      BY <1>3, <2>1, <2>2, <3>1, HeadTailProperties, EmptySeq
  <2>4. j - 1 \in 0 .. Len(Tail(s))
    BY <2>2, <2>3
  <2>5. Tail(r) = SubSeq(Tail(s), 1, j - 1)
    <3>1. ASSUME NEW i \in 1 .. j - 1
          PROVE  Tail(r)[i] = r[i + 1] /\ r[i + 1] = s[i + 1] /\ Tail(s)[i] = s[i + 1]
      BY <1>3, <2>1, <2>2, <2>3, HeadTailProperties, EmptySeq
    <3>2. \A i \in 1 .. j - 1 : SubSeq(Tail(s), 1, j - 1)[i] = Tail(s)[i]
      BY <1>3, <2>3, <2>4
    <3> QED
      BY <1>3, <2>3, <2>4, <3>1, <3>2, SeqEqual
  <2>6. Tail(s) = <<>> => Tail(r) = <<>>
    BY <2>3, <2>4, EmptySeq
  <2> QED
    BY <1>1, <2>3, <2>4, <2>5, <2>6
<1> QED
  BY <1>5, <1>6, <1>7, <1>8

\* The same for the answers.
LEMMA CutReplies ==
  /\ \A r \in AuthReplies \cup AddedReplies \cup RefusedReplies : r \in Seq(Lines)
  /\ \A S \in {AuthReplies, AddedReplies, NamedRests, RefusedReplies} :
        /\ S \subseteq Begun(S)
        /\ \A r \in Begun(S) : \A k \in 0 .. Len(r) : SubSeq(r, 1, k) \in Begun(S)
  /\ \A r \in Begun(AuthReplies) \ {<<>>} : Head(r) \in {"ok", "fin"} => Tail(r) = <<>>
  /\ \A r \in Begun(AddedReplies) \ {<<>>} : Head(r) = "id" /\ Tail(r) \in Begun(NamedRests)
  /\ \A r \in Begun(NamedRests) \ {<<>>} :
        \/ Head(r) = "ok" /\ Tail(r) = <<>>
        \/ Head(r) = "more" /\ Tail(r) \in Begun(NamedRests)
  /\ \A r \in Begun(RefusedReplies) \ {<<>>} :
        \/ Head(r) \in {"err", "fin", "ok"}
        \/ Head(r) = "more" /\ Tail(r) \in Begun(RefusedReplies)
<1>1. \A S \in {AuthReplies, AddedReplies, NamedRests, RefusedReplies} : S \in SUBSET Seq(Lines)
  BY Replies
<1>2. \A r \in AuthReplies \cup AddedReplies \cup RefusedReplies : r \in Seq(Lines)
  BY Replies
<1>3. \A S \in {AuthReplies, AddedReplies, NamedRests, RefusedReplies} :
        /\ S \subseteq Begun(S)
        /\ \A r \in Begun(S) : \A k \in 0 .. Len(r) : SubSeq(r, 1, k) \in Begun(S)
  BY <1>1, Cuts
<1>4. ASSUME NEW r \in Begun(AuthReplies) \ {<<>>}, Head(r) \in {"ok", "fin"}
      PROVE  Tail(r) = <<>>
  <2>1. PICK s \in AuthReplies : Head(r) = Head(s) /\ (Tail(s) = <<>> => Tail(r) = <<>>)
    BY <1>1, Cuts
  <2> QED
    BY <1>4, <2>1, Replies
<1>5. ASSUME NEW r \in Begun(AddedReplies) \ {<<>>}
      PROVE  Head(r) = "id" /\ Tail(r) \in Begun(NamedRests)
  <2>1. PICK s \in AddedReplies :
          Head(r) = Head(s) /\ (Tail(s) \in NamedRests => Tail(r) \in Begun(NamedRests))
    BY <1>1, Cuts
  <2> QED
    BY <2>1, Replies
<1>6. ASSUME NEW r \in Begun(NamedRests) \ {<<>>}
      PROVE  \/ Head(r) = "ok" /\ Tail(r) = <<>>
             \/ Head(r) = "more" /\ Tail(r) \in Begun(NamedRests)
  <2>1. PICK s \in NamedRests :
          /\ Head(r) = Head(s) /\ (Tail(s) = <<>> => Tail(r) = <<>>)
          /\ Tail(s) \in NamedRests => Tail(r) \in Begun(NamedRests)
    BY <1>1, Cuts
  <2> QED
    BY <2>1, Replies
<1>7. ASSUME NEW r \in Begun(RefusedReplies) \ {<<>>}
      PROVE  \/ Head(r) \in {"err", "fin", "ok"}
             \/ Head(r) = "more" /\ Tail(r) \in Begun(RefusedReplies)
  <2>1. PICK s \in RefusedReplies :
          Head(r) = Head(s) /\ (Tail(s) \in RefusedReplies => Tail(r) \in Begun(RefusedReplies))
    BY <1>1, Cuts
  <2> QED
    BY <2>1, Replies
<1> QED
  BY <1>2, <1>3, <1>4, <1>5, <1>6, <1>7

\* The bind future ends, one way or another: nothing is held, and the daemon has
\* the rest.
LEMMA EndsKeeps ==
  ASSUME TorInv, Ends, replies' \in Seq(Lines)
  PROVE  TorInv'
<1>1. TypeOK'
  BY DEF TorInv, TypeOK, Ends, ClosesConnection, daemon
<1>2. Holdings'
  BY DEF TorInv, Holdings, Ends, ClosesConnection, daemon, Handshake
<1>3. Dialogue' /\ \A n \in Binds : (n > bind => Untouched(n))'
  BY DEF TorInv, Dialogue, Untouched, Ends, daemon
<1> QED
  BY <1>1, <1>2, <1>3 DEF TorInv

\* A queue of one command.
LEMMA OneCommand ==
  ASSUME NEW S, NEW s \in Seq(S), s # <<>>, Len(s) <= 1
  PROVE  Tail(s) = <<>> /\ s = <<Head(s)>>
<1>0. Len(s) \in Nat /\ Len(s) # 0
  BY EmptySeq
<1>1. Len(s) = 1 /\ Head(s) = s[1] /\ Head(s) \in S
  <2>1. Len(s) = 1
    BY <1>0
  <2>2. Head(s) = s[1] /\ s[1] \in S
    BY <2>1
  <2> QED
    BY <2>1, <2>2
<1>2. Tail(s) \in Seq(S) /\ Len(Tail(s)) = 0
  BY <1>1
<1>3. <<Head(s)>> \in Seq(S) /\ Len(<<Head(s)>>) = 1 /\ <<Head(s)>>[1] = s[1]
  BY <1>1
<1>4. \A i \in 1 .. Len(s) : s[i] = <<Head(s)>>[i]
  BY <1>1, <1>3
<1> QED
  BY <1>1, <1>2, <1>3, <1>4, EmptySeq, SeqEqual

\* What the daemon may do to the current bind: answer its one command, with a
\* line of reasoning per answer, or close its connection.
LEMMA AnswerFacts ==
  ASSUME TorInv, NEW n \in Binds, NEW command, NEW reply \in Seq(Lines),
         Answers(n, command, reply)
  PROVE  /\ asked' = [asked EXCEPT ![n] = <<>>] /\ asked[n] = <<command>> /\ n \in serving
         /\ n = bind /\ n \in held => replies' = replies \o reply
         /\ ~(n = bind /\ n \in held) => replies' = replies
         /\ replies' \in Seq(Lines) /\ n <= bind
         /\ UNCHANGED <<bind, phase, local, held, serving, named>>
<1>1. /\ n \in serving /\ asked[n] # <<>> /\ Head(asked[n]) = command
      /\ asked' = [asked EXCEPT ![n] = Tail(asked[n])]
      /\ replies' = IF n = bind /\ n \in held THEN replies \o reply ELSE replies
      /\ UNCHANGED <<bind, phase, local, held, serving, named>>
  BY DEF Answers
<1>2. /\ asked[n] \in Seq({"AUTHENTICATE", "ADD_ONION"}) /\ Len(asked[n]) <= 1
      /\ replies \in Seq(Lines) /\ bind \in Nat /\ n \in Nat
  BY BindsAssumption DEF TorInv, TypeOK, Binds
<1>3. Tail(asked[n]) = <<>> /\ asked[n] = <<command>>
  BY <1>1, <1>2, OneCommand
<1>4. n <= bind
  BY <1>1, <1>2 DEF TorInv, Untouched
<1>5. replies' \in Seq(Lines)
  BY <1>1, <1>2
<1> QED
  BY <1>1, <1>3, <1>4, <1>5

\* A bind begins.
LEMMA BindStep ==
  ASSUME TorInv, Bind
  PROVE  TorInv'
<1>1. /\ phase = "none" /\ bind \in Nat /\ bind' = bind + 1 /\ bind' \in Binds
      /\ phase' = "connecting" /\ local' = local \cup {bind'} /\ replies' = <<>> /\ named' = FALSE
      /\ UNCHANGED <<held, asked, serving, trusted, published>>
  BY BindsAssumption DEF TorInv, TypeOK, Bind, OpensLocal, daemon, Binds
<1>2. TypeOK'
  <2>1. <<>> \in Seq(Lines) /\ bind' \in 0 .. MaxBinds
    BY <1>1 DEF Binds
  <2> QED
    BY <1>1, <2>1 DEF TorInv, TypeOK, Handshake
<1>3. Holdings'
  <2>1. held = {} /\ local' = {bind'}
    BY <1>1 DEF TorInv, Holdings
  <2> QED
    BY <1>1, <2>1 DEF Holdings, Handshake
<1>4. ASSUME NEW n \in Binds, n > bind PROVE Untouched(n)'
  BY <1>1, <1>4 DEF TorInv, Untouched
<1>5. bind' > bind /\ \A n \in Binds : n > bind' => n > bind
  BY <1>1 DEF Binds
<1>6. Dialogue'
  BY <1>1, <1>4, <1>5 DEF Dialogue, Untouched
<1> QED
  BY <1>2, <1>3, <1>4, <1>5, <1>6 DEF TorInv

\* The control port is reached.
LEMMA ConnectStep ==
  ASSUME TorInv, Connect
  PROVE  TorInv'
<1>1. /\ phase = "connecting" /\ phase' = "connected" /\ bind \in Binds
      /\ held' = held \cup {bind} /\ serving' = serving \cup {bind}
      /\ UNCHANGED <<bind, local, asked, replies, named, trusted, published>>
  BY DEF TorInv, Holdings, Connect
<1>2. TypeOK'
  BY <1>1 DEF TorInv, TypeOK, Handshake
<1>3. Holdings'
  BY <1>1 DEF TorInv, Holdings, Handshake
<1>4. Dialogue'
  BY <1>1 DEF TorInv, Dialogue
<1>5. ASSUME NEW n \in Binds, n > bind PROVE Untouched(n)'
  <2>1. n # bind
    BY <1>5 DEF TorInv, TypeOK, Binds
  <2> QED
    BY <1>1, <1>5, <2>1 DEF TorInv, Untouched
<1> QED
  BY <1>1, <1>2, <1>3, <1>4, <1>5 DEF TorInv

\* A command is written, when none is out.
LEMMA WritesStep ==
  ASSUME TorInv, NEW command \in {"AUTHENTICATE", "ADD_ONION"}, Writes(command),
         \/ phase = "connected" /\ phase' = "authenticating" /\ command = "AUTHENTICATE"
         \/ phase = "authenticated" /\ phase' = "adding" /\ command = "ADD_ONION"
  PROVE  TorInv'
<1>1. /\ bind \in Binds /\ asked[bind] = <<>> /\ replies = <<>> /\ ~named
      /\ asked' = [asked EXCEPT ![bind] = Append(asked[bind], command)]
      /\ UNCHANGED <<bind, local, held, replies, named, serving, trusted, published>>
  BY DEF TorInv, Holdings, Dialogue, Writes, daemon
<1>2. /\ Append(<<>>, command) = <<command>> /\ Len(<<command>>) <= 1
      /\ <<command>> \in Seq({"AUTHENTICATE", "ADD_ONION"})
  OBVIOUS
<1>3. asked'[bind] = <<command>>
  BY <1>1, <1>2 DEF TorInv, TypeOK
<1>4. TypeOK'
  BY <1>1, <1>2 DEF TorInv, TypeOK, Handshake
<1>5. Holdings'
  BY <1>1 DEF TorInv, Holdings, Handshake
<1>6. Dialogue'
  BY <1>1, <1>3 DEF Dialogue, Authenticating, Adding
<1>7. ASSUME NEW n \in Binds, n > bind PROVE Untouched(n)'
  <2>1. n # bind
    BY <1>7 DEF TorInv, TypeOK, Binds
  <2> QED
    BY <1>1, <1>7, <2>1 DEF TorInv, TypeOK, Untouched
<1> QED
  BY <1>1, <1>4, <1>5, <1>6, <1>7 DEF TorInv

\* A line that is read is one of the current answer's.
LEMMA ReadFacts ==
  ASSUME TorInv, ReadsLine
  PROVE  Head(replies) \in Lines /\ replies' = Tail(replies) /\ replies' \in Seq(Lines)
<1>1. replies \in Seq(Lines) /\ replies # <<>> /\ replies' = Tail(replies)
  BY DEF TorInv, TypeOK, ReadsLine
<1> QED
  BY <1>1

\* A line of the answer to AUTHENTICATE.
LEMMA AuthenticatedStep ==
  ASSUME TorInv, Authenticated
  PROVE  TorInv'
<1>0. /\ phase = "authenticating" /\ ReadsLine /\ bind \in Binds
      /\ replies' = Tail(replies) /\ replies' \in Seq(Lines)
  BY ReadFacts DEF Authenticated, TorInv, Holdings
<1>1. CASE Head(replies) \notin {"ok", "fin"}
  BY <1>0, <1>1, EndsKeeps DEF Authenticated
<1>2. CASE Head(replies) \in {"ok", "fin"}
  <2>1. phase' = "authenticated"
        /\ UNCHANGED <<bind, local, held, asked, named, serving, trusted, published>>
    BY <1>2 DEF Authenticated, daemon
  <2>2. ~named /\ asked[bind] = <<>> /\ replies \in Begun(AuthReplies) \ {<<>>}
    BY <1>0 DEF TorInv, Dialogue, Authenticating, ReadsLine
  <2>3. replies' = <<>>
    BY <1>0, <1>2, <2>2, CutReplies
  <2>4. TypeOK'
    BY <1>0, <2>1 DEF TorInv, TypeOK, Handshake
  <2>5. Holdings'
    BY <1>0, <2>1 DEF TorInv, Holdings, Handshake
  <2>6. Dialogue'
    BY <2>1, <2>2, <2>3 DEF Dialogue
  <2> QED
    BY <2>1, <2>4, <2>5, <2>6 DEF TorInv, Untouched
<1> QED
  BY <1>1, <1>2

\* A line of the answer to ADD_ONION.
LEMMA ReadsAddedStep ==
  ASSUME TorInv, ReadsAdded
  PROVE  TorInv'
<1>0. /\ phase = "adding" /\ ReadsLine /\ bind \in Binds /\ replies # <<>>
      /\ replies' = Tail(replies) /\ replies' \in Seq(Lines)
      /\ asked[bind] = <<>>
      /\ \/ Up /\ ~named /\ replies \in Begun(AddedReplies)
         \/ Up /\ named /\ replies \in Begun(NamedRests)
         \/ ~named /\ replies \in Begun(RefusedReplies)
  BY ReadFacts DEF ReadsAdded, ReadsLine, TorInv, Holdings, Dialogue, Adding
<1>1. CASE Ends
  BY <1>0, <1>1, EndsKeeps
\* What the other two turns of the loop leave alone.
<1>2. ASSUME phase' \in {"adding", "listening"}, named' \in BOOLEAN, Dialogue',
             UNCHANGED <<bind, local, held, asked, daemon>>
      PROVE  TorInv'
  BY <1>0, <1>2 DEF TorInv, TypeOK, Holdings, Untouched, Handshake, daemon
<1>3. CASE Continues(Head(replies)) /\ named' = (named \/ Head(replies) = "id")
           /\ UNCHANGED <<bind, phase, local, held, asked, daemon>>
  <2>1. Head(replies) \in {"id", "more"}
    BY <1>3 DEF Continues
  <2>2. CASE Up /\ ~named /\ replies \in Begun(AddedReplies)
    <3>1. Head(replies) = "id" /\ Tail(replies) \in Begun(NamedRests)
      BY <1>0, <2>2, CutReplies
    <3> QED
      BY <1>0, <1>2, <1>3, <2>2, <3>1 DEF Dialogue, Adding, Up, daemon
  <2>3. CASE Up /\ named /\ replies \in Begun(NamedRests)
    <3>1. Tail(replies) \in Begun(NamedRests)
      BY <1>0, <2>1, <2>3, CutReplies
    <3> QED
      BY <1>0, <1>2, <1>3, <2>3, <3>1 DEF Dialogue, Adding, Up, daemon
  <2>4. CASE ~named /\ replies \in Begun(RefusedReplies)
    <3>1. Head(replies) = "more" /\ Tail(replies) \in Begun(RefusedReplies)
      BY <1>0, <2>1, <2>4, CutReplies
    <3> QED
      BY <1>0, <1>2, <1>3, <2>4, <3>1 DEF Dialogue, Adding, Up, daemon
  <2> QED
    BY <1>0, <2>2, <2>3, <2>4
<1>4. CASE Head(replies) = "ok" /\ HasName /\ phase' = "listening"
           /\ UNCHANGED <<bind, local, held, asked, named, daemon>>
  <2>1. Up /\ named /\ replies \in Begun(NamedRests)
    BY <1>0, <1>4 DEF HasName
  <2>2. Tail(replies) = <<>>
    BY <1>4, <2>1, CutReplies
  <2> QED
    BY <1>0, <1>2, <1>4, <2>1, <2>2 DEF TorInv, TypeOK, Dialogue, Listening, Up, daemon
<1> QED
  BY <1>1, <1>3, <1>4 DEF ReadsAdded

\* The daemon reads a command and answers it.
LEMMA AnswersStep ==
  ASSUME TorInv, NEW n \in Binds, AnswersAuth(n) \/ AnswersAdd(n)
  PROVE  TorInv'
\* What every answer leaves alone, and what it says if the bind is over.
<1>1. ASSUME NEW command, NEW reply \in Seq(Lines), Answers(n, command, reply),
             trusted' \in SUBSET Binds, published' \in {published, published \cup {n}},
             n = bind /\ n \in held => Dialogue'
      PROVE  TorInv'
  <2>1. /\ asked' = [asked EXCEPT ![n] = <<>>] /\ n \in serving /\ replies' \in Seq(Lines)
        /\ n <= bind /\ UNCHANGED <<bind, phase, local, held, serving, named>>
        /\ ~(n = bind /\ n \in held) => replies' = replies
    BY <1>1, AnswerFacts
  <2>2. TypeOK'
    <3>1. <<>> \in Seq({"AUTHENTICATE", "ADD_ONION"}) /\ Len(<<>>) <= 1
      OBVIOUS
    <3> QED
      BY <1>1, <2>1, <3>1 DEF TorInv, TypeOK
  <2>3. Holdings'
    BY <2>1 DEF TorInv, Holdings
  <2>4. ASSUME NEW m \in Binds, m > bind PROVE Untouched(m)'
    <3>1. m # n
      BY <2>1, <2>4 DEF TorInv, TypeOK, Binds
    <3> QED
      BY <1>1, <2>1, <2>4, <3>1 DEF TorInv, TypeOK, Untouched
  <2>5. ASSUME ~(n = bind /\ n \in held) PROVE Dialogue'
    <3>1. CASE n # bind
      <4>1. phase # "none" => bind \in Binds
        BY DEF TorInv, Holdings
      <4>2. /\ phase' = phase /\ replies' = replies /\ named' = named /\ bind' = bind
            /\ (bind \in serving)' <=> bind \in serving
            /\ (bind \in published)' <=> bind \in published
        BY <1>1, <2>1, <2>5, <3>1
      <4>3. bind \in Binds => asked'[bind] = asked[bind]
        BY <2>1, <3>1 DEF TorInv, TypeOK
      <4> QED
        BY <4>1, <4>2, <4>3
           DEF TorInv, Dialogue, Untouched, Authenticating, Adding, Listening, Up
    <3>2. CASE n = bind /\ n \notin held
      <4>1. bind \in serving /\ bind \notin held /\ phase' = phase
        BY <2>1, <3>2
      <4>2. phase \notin Handshake \cup {"listening"}
        BY <4>1 DEF TorInv, Holdings, Dialogue, Untouched, Handshake
      <4> QED
        BY <4>1, <4>2 DEF Dialogue, Handshake
    <3> QED
      BY <2>5, <3>1, <3>2
  <2> QED
    BY <1>1, <2>1, <2>2, <2>3, <2>4, <2>5 DEF TorInv
<1>2. \A r \in AuthReplies \cup AddedReplies \cup RefusedReplies : r \in Seq(Lines) /\ <<>> \o r = r
  <2>1. ASSUME NEW r \in Seq(Lines) PROVE <<>> \o r = r
    OBVIOUS
  <2> QED
    BY <2>1, CutReplies
<1>3. ASSUME NEW reply \in AuthReplies, Answers(n, "AUTHENTICATE", reply), published' = published,
             trusted' \in SUBSET Binds
      PROVE  TorInv'
  <2>1. ASSUME n = bind, n \in held PROVE Dialogue'
    <3>1. /\ asked' = [asked EXCEPT ![n] = <<>>] /\ asked[bind] = <<"AUTHENTICATE">>
          /\ replies' = replies \o reply /\ UNCHANGED <<bind, phase, named, serving>>
      BY <1>2, <1>3, <2>1, AnswerFacts
    <3>2. <<"AUTHENTICATE">> # <<>> /\ <<"AUTHENTICATE">> # <<"ADD_ONION">>
      OBVIOUS
    <3>3. phase = "authenticating" => replies = <<>> /\ ~named
      BY <3>1, <3>2 DEF TorInv, Dialogue, Authenticating
    <3>4. phase \notin {"connecting", "connected", "authenticated", "adding", "listening"}
      BY <3>1, <3>2 DEF TorInv, Dialogue, Untouched, Adding, Listening
    <3>5. asked'[bind] = <<>>
      BY <2>1, <3>1 DEF TorInv, TypeOK
    <3>6. reply \in Begun(AuthReplies)
      BY CutReplies
    <3> QED
      BY <1>2, <3>1, <3>3, <3>4, <3>5, <3>6 DEF Dialogue, Authenticating
  <2> QED
    BY <1>1, <1>2, <1>3, <2>1
<1>4. ASSUME NEW reply \in AddedReplies \cup RefusedReplies, Answers(n, "ADD_ONION", reply),
             UNCHANGED trusted,
             \/ reply \in AddedReplies /\ published' = published \cup {n}
             \/ reply \in RefusedReplies /\ published' = published
      PROVE  TorInv'
  <2>1. ASSUME n = bind, n \in held PROVE Dialogue'
    <3>1. /\ asked' = [asked EXCEPT ![n] = <<>>] /\ asked[bind] = <<"ADD_ONION">>
          /\ replies' = replies \o reply /\ UNCHANGED <<bind, phase, named, serving>>
      BY <1>2, <1>4, <2>1, AnswerFacts
    <3>2. <<"ADD_ONION">> # <<>> /\ <<"AUTHENTICATE">> # <<"ADD_ONION">>
      OBVIOUS
    <3>3. phase = "adding" => replies = <<>> /\ ~named
      BY <3>1, <3>2 DEF TorInv, Dialogue, Adding
    <3>4. phase \notin {"connecting", "connected", "authenticating", "authenticated", "listening"}
      BY <3>1, <3>2 DEF TorInv, Dialogue, Untouched, Authenticating, Listening
    <3>5. asked'[bind] = <<>>
      BY <2>1, <3>1 DEF TorInv, TypeOK
    <3>6. /\ reply \in AddedReplies => reply \in Begun(AddedReplies)
          /\ reply \in RefusedReplies => reply \in Begun(RefusedReplies)
      BY CutReplies
    <3>7. phase = "adding" =>
            replies' = reply /\ ~named' /\ (published' = published \cup {n} => Up')
      BY <1>2, <2>1, <3>1, <3>3 DEF Up
    <3>8. phase = "adding" => Adding'
      BY <1>4, <3>1, <3>5, <3>6, <3>7 DEF Adding
    <3> QED
      BY <3>1, <3>4, <3>8 DEF Dialogue
  <2>2. trusted' \in SUBSET Binds
    BY <1>4 DEF TorInv, TypeOK
  <2> QED
    BY <1>1, <1>2, <1>4, <2>1, <2>2
<1>5. CASE AnswersAuth(n)
  <2>1. trusted' \in SUBSET Binds /\ published' = published
    BY <1>5 DEF AnswersAuth, TorInv, TypeOK
  <2>2. \E reply \in AuthReplies : Answers(n, "AUTHENTICATE", reply)
    BY <1>5 DEF AnswersAuth, AuthReplies
  <2> QED
    BY <1>3, <2>1, <2>2
<1>6. CASE AnswersAdd(n)
  <2>1. \/ /\ \E reply \in AddedReplies : Answers(n, "ADD_ONION", reply)
           /\ published' = published \cup {n} /\ UNCHANGED trusted
        \/ /\ \E reply \in RefusedReplies : Answers(n, "ADD_ONION", reply)
           /\ UNCHANGED <<trusted, published>>
    BY <1>6 DEF AnswersAdd, AddedReplies, RefusedReplies
  <2> QED
    BY <1>4, <2>1
<1> QED
  BY <1>5, <1>6

\* The daemon closes a connection.
LEMMA ClosesStep ==
  ASSUME TorInv, NEW n \in Binds, DaemonCloses(n)
  PROVE  TorInv'
<1>1. /\ n \in serving /\ serving' = serving \ {n} /\ published' = published \ {n}
      /\ UNCHANGED <<bind, phase, local, held, asked, named, trusted>>
  BY DEF DaemonCloses, Flags
<1>2. PICK k \in 0 .. Len(replies) :
        replies' = IF n = bind THEN SubSeq(replies, 1, k) ELSE replies
  BY DEF DaemonCloses
<1>3. replies' \in Seq(Lines)
  <2>1. replies \in Seq(Lines)
    BY DEF TorInv, TypeOK
  <2>2. SubSeq(replies, 1, k) \in Seq(Lines)
    BY <2>1
  <2> QED
    BY <1>2, <2>1, <2>2
<1>4. TypeOK' /\ Holdings' /\ \A m \in Binds : (m > bind => Untouched(m))'
  BY <1>1, <1>3 DEF TorInv, TypeOK, Holdings, Untouched
<1>5. ASSUME NEW S \in {AuthReplies, AddedReplies, NamedRests, RefusedReplies},
             replies \in Begun(S)
      PROVE  replies' \in Begun(S)
  BY <1>2, <1>5, CutReplies, SubSeqEmpty
<1>6. Up => Up'
  BY <1>1 DEF Up
<1>7. replies = <<>> => replies' = <<>>
  <2>1. Len(<<>>) = 0 /\ SubSeq(<<>>, 1, 0) = <<>>
    BY SubSeqEmpty
  <2> QED
    BY <1>2, <2>1
<1>8. Dialogue'
  BY <1>1, <1>5, <1>6, <1>7 DEF TorInv, Dialogue, Untouched, Authenticating, Adding, Listening
<1> QED
  BY <1>4, <1>8, <1>1 DEF TorInv

\* Every step keeps the invariant.
LEMMA TorStep ==
  ASSUME TorInv, Next
  PROVE  TorInv'
<1>1. replies \in Seq(Lines)
  BY DEF TorInv, TypeOK
<1>2. CASE BindAborts \/ ReadsEnd \/ DropService
  BY <1>1, <1>2, EndsKeeps DEF BindAborts, ReadsEnd, DropService
<1>3. CASE DropLocal
  <2>1. /\ phase = "listening" /\ phase' = "dropping" /\ local' = local \ {bind}
        /\ UNCHANGED <<bind, held, asked, replies, named, serving, trusted, published>>
    BY <1>3 DEF DropLocal, daemon
  <2> QED
    BY <2>1 DEF TorInv, TypeOK, Holdings, Dialogue, Untouched, Handshake
<1>4. CASE Authenticate \/ AddOnion
  BY <1>4, WritesStep DEF Authenticate, AddOnion
<1> QED
  BY <1>2, <1>3, <1>4, BindStep, ConnectStep, AuthenticatedStep, ReadsAddedStep, AnswersStep,
     ClosesStep DEF Next

\* The inductive invariant holds throughout.
THEOREM InvariantHolds == Spec => []TorInv
<1>1. Init => TorInv
  <2> SUFFICES ASSUME Init PROVE TorInv
    OBVIOUS
  <2>1. TypeOK
    <3>1. /\ <<>> \in Seq({"AUTHENTICATE", "ADD_ONION"}) /\ <<>> \in Seq(Lines)
          /\ Len(<<>>) <= 1 /\ 0 \in 0 .. MaxBinds
      BY BindsAssumption
    <3>2. asked \in [Binds -> Seq({"AUTHENTICATE", "ADD_ONION"})]
      BY <3>1 DEF Init
    <3>3. \A n \in Binds : Len(asked[n]) <= 1
      BY <3>1 DEF Init
    <3> QED
      BY <3>1, <3>2, <3>3 DEF Init, TypeOK
  <2>2. Holdings /\ Dialogue /\ \A n \in Binds : Untouched(n)
    BY DEF Init, Holdings, Dialogue, Untouched, Handshake
  <2> QED
    BY <2>1, <2>2 DEF TorInv
<1>2. TorInv /\ UNCHANGED vars => TorInv'
  BY DEF vars, daemon, TorInv, TypeOK, Holdings, Dialogue, Untouched, Authenticating, Adding,
         Listening, Up
<1> QED
  BY <1>1, <1>2, TorStep, PTL DEF Spec

\* One command at most awaits its answer on a control connection, and every
\* variable keeps its type, for any number of binds (create_onion).
THEOREM TypeCorrect == Spec => []TypeOK
<1>1. TorInv => TypeOK
  BY DEF TorInv
<1> QED
  BY <1>1, InvariantHolds, PTL

\* We hold the control connection of the current bind and of no other
\* (TorListener and create_onion).
THEOREM OneServiceHeldHolds == Spec => []OneServiceHeld
<1>1. TorInv => OneServiceHeld
  BY DEF TorInv, Holdings, OneServiceHeld
<1> QED
  BY <1>1, InvariantHolds, PTL

\* A service the daemon publishes has our local listener behind it, but for the
\* moment between our closing and its noticing (TorListener::bind).
THEOREM PublishedIsServedHolds == Spec => []PublishedIsServed
<1>1. TorInv => PublishedIsServed
  BY DEF TorInv, TypeOK, Handshake, Holdings, PublishedIsServed
<1> QED
  BY <1>1, InvariantHolds, PTL

\* bind returns a listener only for a service that was published for it, with its
\* whole reply read, whatever the daemon answered (the loop of create_onion).
THEOREM BoundIsPublishedHolds == Spec => []BoundIsPublished
<1>1. TorInv => BoundIsPublished
  BY DEF TorInv, Dialogue, Listening, Up, BoundIsPublished
<1> QED
  BY <1>1, InvariantHolds, PTL
=============================================================================
