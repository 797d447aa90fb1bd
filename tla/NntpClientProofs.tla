-------------------------- MODULE NntpClientProofs --------------------------
(***************************************************************************)
(* Proofs about NntpClient: that the client and the server stay in step,   *)
(* whatever is lost, late or unreadable, and that what counts as done is   *)
(* what was posted, for articles of any length.                            *)
(***************************************************************************)
EXTENDS NntpClient, SequenceTheorems, WellFoundedInduction, TLAPS

-----------------------------------------------------------------------------
(* Induction, stated for a set of naturals (as in QueueManagerProofs).     *)

\* Every set of naturals with an element has a least one.
LEMMA LeastElement ==
    ASSUME NEW T \in SUBSET Nat, T # {}
    PROVE  \E m \in T : \A k \in T : m <= k
<1>. DEFINE R == OpToRel(<, Nat)
<1>1. IsWellFoundedOn(R, Nat)
  BY NatLessThanWellFounded, Zenon
<1>2. \A a, b \in Nat : a < b => <<a, b>> \in R
  BY DEF OpToRel
<1>. HIDE DEF R
<1>3. PICK m \in T : \A k \in T : ~(<<k, m>> \in R)
  BY <1>1, WFMin
<1>4. \A k \in T : ~(k < m)
  BY <1>2, <1>3
<1>. QED
  BY <1>4

\* A set with 0 and the successor of each of its naturals has them all.
LEMMA SetInduction ==
    ASSUME NEW S, 0 \in S, \A n \in Nat : n \in S => n + 1 \in S
    PROVE  Nat \subseteq S
<1>. DEFINE T == Nat \ S
<1>. SUFFICES ASSUME T # {} PROVE FALSE
  OBVIOUS
<1>1. PICK m \in T : \A k \in T : m <= k
  BY LeastElement
<1>2. m # 0 /\ m - 1 \in Nat /\ m - 1 \notin T
  BY <1>1
<1>3. (m - 1) + 1 \in S
  BY <1>2
<1>. QED
  BY <1>3

-----------------------------------------------------------------------------
(* The decoder: what it takes from the lines are lines.                    *)

\* The body of an article lies inside it.
LEMMA BodyInside ==
    ASSUME NEW lines \in Seq(Text)
    PROVE  /\ BodyStart(lines) \in Nat \ {0}
           /\ BodyEnd(lines) \in Nat
           /\ BodyEnd(lines) <= Len(lines) + 1
<1>1. BodyStart(lines) \in Nat \ {0}
  <2>. DEFINE begins == {i \in DOMAIN lines : lines[i] = "=ybegin"}
  <2>1. begins \subseteq Nat \ {0}
    OBVIOUS
  <2>2. begins # {} => \E i \in begins : \A k \in begins : i <= k
    BY <2>1, LeastElement
  <2>. DEFINE first == CHOOSE i \in begins : \A k \in begins : i <= k
              start == IF begins = {} THEN 1 ELSE 1 + first
  <2>3. begins # {} => first \in Nat \ {0}
    BY <2>1, <2>2
  <2>. HIDE DEF first
  <2>4. start \in Nat \ {0}
    BY <2>3
  <2>5. BodyStart(lines) = IF start <= Len(lines) /\ lines[start] = "=ypart"
                           THEN start + 1 ELSE start
    BY DEF BodyStart, first
  <2>. QED
    BY <2>4, <2>5
<1>2. BodyEnd(lines) \in Nat /\ BodyEnd(lines) <= Len(lines) + 1
  <2>. DEFINE ends == {i \in BodyStart(lines)..Len(lines) : lines[i] \in Footer}
              last == CHOOSE i \in ends : \A k \in ends : k <= i
  <2>1. ends \subseteq 1..Len(lines)
    BY <1>1
  <2>2. ASSUME ends # {} PROVE \E i \in ends : \A k \in ends : k <= i
    <3>. DEFINE T == {Len(lines) - i : i \in ends}
    <3>1. T \in SUBSET Nat /\ T # {}
      BY <2>1, <2>2
    <3>2. PICK m \in T : \A k \in T : m <= k
      BY <3>1, LeastElement
    <3>3. PICK i \in ends : m = Len(lines) - i
      BY <3>2
    <3>4. \A k \in ends : Len(lines) - i <= Len(lines) - k
      BY <3>2, <3>3
    <3>. QED
      BY <3>4, <2>1
  <2>3. ends # {} => last \in 1..Len(lines)
    BY <2>1, <2>2
  <2>4. BodyEnd(lines) = IF ends = {} THEN Len(lines) + 1 ELSE last
    BY DEF BodyEnd
  <2>. HIDE DEF ends, last
  <2>. QED
    BY <2>3, <2>4
<1>. QED
  BY <1>1, <1>2

\* What is left when the empty lines are dropped is a sequence of lines.  The
\* loop is a recursive function, and so the proof an induction.
LEMMA DataType == \A lines \in Seq(Text) : Data(lines) \in Seq(Text)
<1>. SUFFICES ASSUME NEW lines \in Seq(Text) PROVE Data(lines) \in Seq(Text)
  OBVIOUS
<1>. DEFINE body == SubSeq(lines, BodyStart(lines), BodyEnd(lines) - 1)
            Kept(g, n) == IF n = 0 THEN <<>>
                          ELSE IF body[n] = "" THEN g[n - 1]
                          ELSE Append(g[n - 1], body[n])
            S == {n \in Nat : \E g : g = [i \in 0..n |-> Kept(g, i)]}
            kept == CHOOSE g : g = [n \in 0..Len(body) |-> Kept(g, n)]
<1>1. body \in Seq(Text)
  <2>1. BodyStart(lines) \in Nat \ {0} /\ BodyEnd(lines) \in Nat
        /\ BodyEnd(lines) <= Len(lines) + 1
    BY BodyInside
  <2>. QED
    BY <2>1, SubSeqProperties
<1>2. Data(lines) = kept[Len(body)]
  BY DEF Data
<1>. HIDE DEF body
<1>3. 0 \in S
  <2>. DEFINE g == [i \in 0..0 |-> <<>>]
  <2>1. g = [i \in 0..0 |-> Kept(g, i)]
    OBVIOUS
  <2>. HIDE DEF g, Kept
  <2>. QED
    BY <2>1
<1>4. ASSUME NEW n \in Nat, n \in S
      PROVE  n + 1 \in S
  <2>1. PICK g : g = [i \in 0..n |-> Kept(g, i)]
    BY <1>4
  <2>. DEFINE h == [i \in 0..(n + 1) |-> IF i = n + 1 THEN Kept(g, i) ELSE g[i]]
  <2>2. ASSUME NEW i \in 0..(n + 1)
        PROVE  h[i] = Kept(h, i)
    <3>. HIDE DEF Kept
    <3>1. i - 1 \in 0..n => h[i - 1] = g[i - 1]
      OBVIOUS
    <3>2. \A k \in 0..n : g[k] = Kept(g, k)
      BY <2>1
    <3>3. h[i] = Kept(g, i)
      BY <3>2
    <3>. HIDE DEF h
    <3>4. i # 0 => g[i - 1] = h[i - 1]
      BY <3>1
    <3>5. Kept(g, i) = Kept(h, i)
      BY <3>4, Zenon DEF Kept
    <3>. QED
      BY <3>3, <3>5
  <2>3. h = [i \in 0..(n + 1) |-> h[i]]
    OBVIOUS
  <2>. HIDE DEF h, Kept
  <2>4. h = [i \in 0..(n + 1) |-> Kept(h, i)]
    BY <2>2, <2>3
  <2>. QED
    BY <2>4
<1>5. Len(body) \in S
  <2>. HIDE DEF S
  <2>1. Nat \subseteq S
    BY <1>3, <1>4, SetInduction
  <2>. QED
    BY <2>1, <1>1
<1>6. kept = [n \in 0..Len(body) |-> Kept(kept, n)]
  BY <1>5
<1>. HIDE DEF kept, Kept
<1>7. \A n \in 0..Len(body) : kept[n] = Kept(kept, n)
  BY <1>6
<1>. DEFINE T == {n \in Nat : n <= Len(body) => kept[n] \in Seq(Text)}
<1>8. 0 \in T
  <2>1. kept[0] = Kept(kept, 0)
    BY <1>1, <1>7
  <2>2. Kept(kept, 0) = <<>>
    BY DEF Kept
  <2>3. kept[0] \in Seq(Text)
    BY <2>1, <2>2, EmptySeq
  <2>. HIDE DEF kept
  <2>. QED
    BY <2>3
<1>9. ASSUME NEW n \in Nat, n \in T
      PROVE  n + 1 \in T
  <2>. SUFFICES ASSUME n + 1 <= Len(body) PROVE kept[n + 1] \in Seq(Text)
    OBVIOUS
  <2>1. kept[n] \in Seq(Text) /\ body[n + 1] \in Text
    BY <1>9, <1>1
  <2>2. kept[n + 1] = Kept(kept, n + 1)
    BY <1>7, <1>1
  <2>3. Kept(kept, n + 1) = IF body[n + 1] = "" THEN kept[n] ELSE Append(kept[n], body[n + 1])
    BY (n + 1) - 1 = n, n + 1 # 0 DEF Kept
  <2>4. Append(kept[n], body[n + 1]) \in Seq(Text)
    BY <2>1, AppendProperties
  <2>. QED
    BY <2>1, <2>2, <2>3, <2>4, Zenon
<1>10. Len(body) \in T
  <2>. HIDE DEF T
  <2>1. Nat \subseteq T
    BY <1>8, <1>9, SetInduction
  <2>. QED
    BY <2>1, <1>1
<1>. QED
  BY <1>2, <1>10, <1>1

-----------------------------------------------------------------------------
(* The inductive invariant.  InStep alone is not inductive: that nothing   *)
(* is left over when Body ends needs that an answer is one line or a whole *)
(* article, and where in it the client is.                                 *)

\* Line k of the answer with article i: the article's, or the dot after it.
Line(i, k) ==
    [re |-> i, at |-> k,
     text |-> IF k <= Len(article[i]) THEN Stuffed(article[i][k]) ELSE "."]

Quiet == sent = <<>> /\ wire = <<>>

\* A command without an answer, or the answer, or neither if the link ended.
Awaiting ==
    /\ sent # <<>> => sent = <<Command>> /\ wire = <<>>
    /\ wire # <<>> => wire[1].re = Command

\* One line, or the line that announces the article and a front part of it.
BodyAnswer ==
    \/ wire = <<>>
    \/ wire[1].text # "222" /\ Len(wire) = 1
    \/ /\ wire # <<>> /\ wire[1].text = "222"
       /\ Len(wire) <= Len(article[id]) + 2
       /\ \A k \in 2..Len(wire) : wire[k] = Line(id, k - 1)

\* What is unread goes on where what was read ends.
Rest ==
    /\ sent = <<>>
    /\ OwnArticle
    /\ Len(got) + Len(wire) <= Len(article[id]) + 1
    /\ \A k \in 1..Len(wire) : wire[k] = Line(id, Len(got) + k)

Talk ==
    /\ pc \in {"gone", "ready", "idle"} => Quiet
    /\ pc \in {"greeting", "user", "pass", "alive"} => Awaiting /\ Len(wire) <= 1
    /\ pc = "body" => Awaiting /\ BodyAnswer
    /\ pc = "article" => Rest
    /\ pc # "article" => got = <<>>
    /\ link # "up" => sent = <<>>
    /\ pc = "quit" /\ Len(sent) = 2 => Head(sent) = "date"

IndInv == TypeOK /\ Talk /\ DoneIsWhole

LEMMA LineIsOf == \A i, k : Line(i, k).re = i
  BY DEF Line

LEMMA TalkInStep == TypeOK /\ Talk => InStep
<1>. SUFFICES ASSUME TypeOK, Talk, pc # "quit" PROVE InStep
  BY DEF InStep
<1>1. wire \in Seq(Wire)
  BY DEF TypeOK
<1>2. CASE pc \in {"gone", "ready", "idle"}
  BY <1>2 DEF Talk, Quiet, InStep
<1>3. CASE pc \in {"greeting", "user", "pass", "alive"}
  BY <1>1, <1>3 DEF Talk, Awaiting, InStep
<1>4. CASE pc = "body"
  <2>1. Command = id
    BY <1>4 DEF Command
  <2>2. Awaiting /\ BodyAnswer
    BY <1>4 DEF Talk
  <2>3. \A k \in 1..Len(wire) : wire[k].re = id
    BY <1>1, <2>1, <2>2, LineIsOf DEF Awaiting, BodyAnswer
  <2>. QED
    BY <1>1, <2>1, <2>2, <2>3 DEF Awaiting, InStep
<1>5. CASE pc = "article"
  <2>1. Command = id
    BY <1>5 DEF Command
  <2>2. Rest
    BY <1>5 DEF Talk
  <2>3. \A k \in 1..Len(wire) : wire[k].re = id
    BY <2>2, LineIsOf DEF Rest
  <2>. QED
    BY <1>1, <2>1, <2>2, <2>3 DEF Rest, InStep
<1>. QED
  BY <1>2, <1>3, <1>4, <1>5 DEF TypeOK, PC

LEMMA InitIndInv == Init => IndInv
<1>. SUFFICES ASSUME Init PROVE IndInv
  OBVIOUS
<1>1. TypeOK
  <2>1. sent \in Seq(Commands) /\ Len(sent) <= 2
    BY EmptySeq DEF Init
  <2>2. wire \in Seq(Wire) /\ got \in Seq(Ids \X Nat)
    BY EmptySeq DEF Init
  <2>3. data \in [Ids -> Seq(Text)]
    BY EmptySeq DEF Init
  <2>4. pc \in PC /\ (IF pc \in {"body", "article"} THEN id \in Ids ELSE id = None)
    BY DEF Init, PC
  <2>5. segment \in [Ids -> {"none", "missing", "failed", "done", "mismatch"}]
    BY DEF Init
  <2>. QED
    BY <2>1, <2>2, <2>3, <2>4, <2>5 DEF Init, TypeOK
<1>2. Talk
  BY DEF Init, Talk, Quiet
<1>3. DoneIsWhole
  BY DEF Init, DoneIsWhole
<1>. QED
  BY <1>1, <1>2, <1>3 DEF IndInv

-----------------------------------------------------------------------------
(* What is read and sent.                                                  *)

\* Reading takes the first line.
LEMMA ReadsFirst ==
    ASSUME TypeOK, NEW code, Reads(code)
    PROVE  /\ wire' \in Seq(Wire)
           /\ wire[1] \in Wire
           /\ wire[1].text = code
           /\ Len(wire) >= 1
           /\ Len(wire') = Len(wire) - 1
           /\ \A k \in 1..Len(wire') : wire'[k] = wire[k + 1]
<1>1. wire \in Seq(Wire) /\ wire # <<>> /\ wire' = Tail(wire) /\ code = Head(wire).text
  BY DEF Reads, TypeOK
<1>. QED
  BY <1>1, HeadTailProperties

LEMMA NothingLeft ==
    ASSUME TypeOK, NEW code, Reads(code), Len(wire) <= 1
    PROVE  wire' = <<>>
BY ReadsFirst, EmptySeq

\* To a link that is up a command is sent; nothing else was sent before.
LEMMA SendsOne ==
    ASSUME TypeOK, NEW cmd \in Commands, Send(cmd), sent = <<>>
    PROVE  /\ sent' \in Seq(Commands) /\ Len(sent') <= 1
           /\ sent' = <<>> \/ sent' = <<cmd>>
           /\ link # "up" => sent' = <<>>
<1>1. Append(<<>>, cmd) = <<cmd>>
  OBVIOUS
<1>2. sent' = IF link = "up" THEN <<cmd>> ELSE <<>>
  BY <1>1 DEF Send
<1>3. <<cmd>> \in Seq(Commands) /\ Len(<<cmd>>) = 1
  OBVIOUS
<1>4. <<>> \in Seq(Commands) /\ Len(<<>>) = 0
  OBVIOUS
<1>. QED
  BY <1>2, <1>3, <1>4

\* Segments of which nothing is written are what they were.
LEMMA SegmentsKept ==
    ASSUME DoneIsWhole, article' = article, UNCHANGED segVars
    PROVE  DoneIsWhole'
BY DEF DoneIsWhole, Posted, segVars

\* The server's answer to a command.
LEMMA AnswerIs ==
    ASSUME TypeOK, NEW cmd \in Commands, NEW status \in Statuses(cmd)
    PROVE  /\ Answer(cmd, status) \in Seq(Wire)
           /\ Answer(cmd, status) # <<>>
           /\ Answer(cmd, status)[1].re = cmd
           /\ Answer(cmd, status)[1].text = status
           /\ status # "222" => Len(Answer(cmd, status)) = 1
           /\ status = "222" =>
                 /\ cmd \in Ids
                 /\ cmd \notin {"connect", "user", "pass", "date", "quit"}
                 /\ Len(Answer(cmd, status)) = Len(article[cmd]) + 2
                 /\ \A k \in 2..Len(Answer(cmd, status)) :
                       Answer(cmd, status)[k] = Line(cmd, k - 1)
<1>. DEFINE first == <<[re |-> cmd, at |-> 0, text |-> status]>>
            rest == [i \in 1..Len(article[cmd]) + 1 |->
                       [re |-> cmd, at |-> i,
                        text |-> IF i <= Len(article[cmd]) THEN Stuffed(article[cmd][i])
                                 ELSE "."]]
<1>1. status \in Codes
  BY DEF Statuses, Codes
<1>2. first \in Seq(Wire) /\ Len(first) = 1 /\ first[1].re = cmd /\ first[1].text = status
  BY <1>1 DEF Wire
<1>3. CASE status # "222"
  <2>1. Answer(cmd, status) = first \o <<>>
    BY <1>3 DEF Answer
  <2>2. first \o <<>> = first
    BY <1>2, ConcatEmptySeq
  <2>. QED
    BY <1>2, <1>3, <2>1, <2>2
<1>4. CASE status = "222"
  <2>1. cmd \notin {"connect", "user", "pass", "date", "quit"}
    BY <1>4 DEF Statuses
  <2>2. cmd \in Ids
    BY <2>1 DEF Commands
  <2>3. article[cmd] \in Seq(Text)
    BY <2>2, ArticlesAreLines DEF TypeOK
  <2>4. \A t \in Text : Stuffed(t) \in Codes
    BY DEF Stuffed, Codes
  <2>5. ASSUME NEW i \in 1..Len(article[cmd]) + 1
        PROVE  Line(cmd, i) \in Wire
    <3>1. i <= Len(article[cmd]) => article[cmd][i] \in Text
      BY <2>3
    <3>2. "." \in Codes
      BY DEF Codes
    <3>3. (IF i <= Len(article[cmd]) THEN Stuffed(article[cmd][i]) ELSE ".") \in Codes
      BY <2>4, <3>1, <3>2
    <3>4. i \in Nat
      BY <2>3
    <3>. QED
      BY <3>3, <3>4 DEF Line, Wire
  <2>6. rest = [i \in 1..Len(article[cmd]) + 1 |-> Line(cmd, i)]
    BY DEF Line
  <2>. HIDE DEF first, rest
  <2>7. Len(article[cmd]) + 1 \in Nat
    BY <2>3
  <2>8. rest \in Seq(Wire) /\ Len(rest) = Len(article[cmd]) + 1
    BY <2>5, <2>6, <2>7
  <2>9. Answer(cmd, status) = first \o rest
    BY <1>4 DEF Answer, first, rest
  <2>. HIDE DEF Wire
  <2>10. /\ first \o rest \in Seq(Wire)
         /\ Len(first \o rest) = Len(article[cmd]) + 2
         /\ (first \o rest)[1] = first[1]
         /\ \A k \in 2..Len(article[cmd]) + 2 : (first \o rest)[k] = rest[k - 1]
    <3>1. /\ first \o rest \in Seq(Wire)
          /\ Len(first \o rest) = Len(first) + Len(rest)
          /\ \A k \in 1..Len(first) + Len(rest) : (first \o rest)[k] =
                IF k <= Len(first) THEN first[k] ELSE rest[k - Len(first)]
      BY <1>2, <2>8, ConcatProperties, Zenon
    <3>2. Len(first) = 1 /\ Len(first) + Len(rest) = Len(article[cmd]) + 2
      BY <1>2, <2>7, <2>8
    <3>3. (first \o rest)[1] = first[1]
      BY <2>7, <3>1, <3>2
    <3>4. ASSUME NEW k \in 2..Len(article[cmd]) + 2
          PROVE  (first \o rest)[k] = rest[k - 1]
      BY <2>7, <3>1, <3>2
    <3>. QED
      BY <3>1, <3>2, <3>3, <3>4
  <2>11. \A k \in 2..Len(article[cmd]) + 2 : rest[k - 1] = Line(cmd, k - 1)
    BY <2>6, <2>7
  <2>. QED
    <3>1. first \o rest # <<>>
      BY <2>7, <2>10, EmptySeq
    <3>. QED
      BY <1>2, <1>4, <2>1, <2>2, <2>7, <2>9, <2>10, <2>11, <3>1
<1>. QED
  BY <1>3, <1>4

-----------------------------------------------------------------------------
(* The steps.                                                              *)

\* The steps of all kinds but two end with nothing unread and at most the
\* new command unanswered.
LEMMA TalkAfter ==
    ASSUME wire' = <<>>, got' = <<>>, pc' # "article",
           link' # "up" => sent' = <<>>,
           \/ sent' = <<>>
           \/ pc' = "quit" /\ (Len(sent') = 2 => Head(sent') = "date")
           \/ /\ pc' \in {"greeting", "user", "pass", "alive", "body"}
              /\ sent' = <<Command'>>
    PROVE  Talk'
<1>1. pc' \in {"gone", "ready", "idle"} => Quiet'
  BY DEF Quiet
<1>2. pc' \in {"greeting", "user", "pass", "alive", "body"} => Awaiting' /\ Len(wire') <= 1
  BY DEF Awaiting
<1>3. BodyAnswer'
  BY DEF BodyAnswer
<1>4. pc' = "quit" /\ Len(sent') = 2 => Head(sent') = "date"
  OBVIOUS
<1>. QED
  BY <1>1, <1>2, <1>3, <1>4 DEF Talk

\* What can be said where a command is awaiting its answer.
LEMMA AwaitingIs ==
    ASSUME TypeOK, Talk, pc \in {"greeting", "user", "pass", "alive", "body"}
    PROVE  /\ wire # <<>> => sent = <<>>
           /\ sent = <<>> \/ sent = <<Command>>
           /\ got = <<>>
           /\ link # "up" => sent = <<>>
BY DEF Talk, Awaiting

LEMMA DialStep == IndInv /\ Dial => IndInv'
<1>. SUFFICES ASSUME IndInv, Dial PROVE IndInv'
  OBVIOUS
<1>. USE DEF IndInv
<1>1. wire = <<>> /\ got = <<>>
  BY DEF Dial, Talk, Quiet
<1>2. TypeOK'
  <2>1. <<"connect">> \in Seq(Commands) /\ Len(<<"connect">>) <= 2
    BY DEF Commands
  <2>. QED
    BY <2>1 DEF Dial, TypeOK, PC, serverVars, segVars
<1>3. Command' = "connect"
  BY DEF Dial, Command
<1>4. Talk'
  BY <1>1, <1>3, TalkAfter DEF Dial
<1>. QED
  BY <1>2, <1>4, SegmentsKept DEF Dial, serverVars

LEMMA GreetedStep == IndInv /\ Greeted => IndInv'
<1>. SUFFICES ASSUME IndInv, Greeted PROVE IndInv'
  OBVIOUS
<1>. USE DEF IndInv
<1>1. /\ wire' = <<>> /\ sent = <<>> /\ got = <<>> /\ got' = <<>>
      /\ link' = link
  <2>1. \E code : Reads(code)
    BY DEF Greeted
  <2>2. wire # <<>>
    BY <2>1 DEF Reads
  <2>. QED
    BY <2>1, <2>2, NothingLeft, AwaitingIs DEF Greeted, Talk
<1>2. CASE login
  <2>1. pc' = "user" /\ Send("user")
    BY <1>2 DEF Greeted
  <2>2. /\ sent' \in Seq(Commands) /\ Len(sent') <= 1
        /\ sent' = <<>> \/ sent' = <<"user">>
        /\ link # "up" => sent' = <<>>
    BY <1>1, <2>1, SendsOne DEF Commands
  <2>3. TypeOK'
    BY <1>1, <2>1, <2>2, EmptySeq DEF Greeted, TypeOK, PC, serverVars, segVars
  <2>4. Command' = "user"
    BY <2>1 DEF Command
  <2>5. Talk'
    BY <1>1, <2>1, <2>2, <2>4, TalkAfter
  <2>. QED
    BY <2>3, <2>5, SegmentsKept DEF Greeted, serverVars
<1>3. CASE ~login
  <2>1. pc' = "ready" /\ sent' = <<>>
    BY <1>1, <1>3 DEF Greeted
  <2>2. TypeOK'
    BY <1>1, <2>1, EmptySeq DEF Greeted, TypeOK, PC, serverVars, segVars
  <2>3. Talk'
    BY <1>1, <2>1, TalkAfter
  <2>. QED
    BY <2>2, <2>3, SegmentsKept DEF Greeted, serverVars
<1>. QED
  BY <1>2, <1>3

LEMMA PassWantedStep == IndInv /\ PassWanted => IndInv'
<1>. SUFFICES ASSUME IndInv, PassWanted PROVE IndInv'
  OBVIOUS
<1>. USE DEF IndInv
<1>1. wire' = <<>> /\ sent = <<>> /\ got' = <<>> /\ link' = link /\ pc' = "pass"
  <2>1. Reads("381") /\ wire # <<>>
    BY DEF PassWanted, Reads
  <2>. QED
    BY <2>1, NothingLeft, AwaitingIs DEF PassWanted, Talk
<1>2. /\ sent' \in Seq(Commands) /\ Len(sent') <= 1
      /\ sent' = <<>> \/ sent' = <<"pass">>
      /\ link # "up" => sent' = <<>>
  BY <1>1, SendsOne DEF Commands, PassWanted
<1>3. TypeOK'
  BY <1>1, <1>2, EmptySeq DEF PassWanted, TypeOK, PC, serverVars, segVars
<1>4. Command' = "pass"
  BY <1>1 DEF Command
<1>5. Talk'
  BY <1>1, <1>2, <1>4, TalkAfter
<1>. QED
  BY <1>3, <1>5, SegmentsKept DEF PassWanted, serverVars

\* LoggedIn and IsAlive.
LEMMA ReadyStep == IndInv /\ (LoggedIn \/ IsAlive) => IndInv'
<1>. SUFFICES ASSUME IndInv, LoggedIn \/ IsAlive PROVE IndInv'
  OBVIOUS
<1>. USE DEF IndInv
<1>1. /\ wire' = <<>> /\ sent' = <<>> /\ got' = <<>> /\ link' = link
      /\ pc' = "ready" /\ pc \in {"user", "pass", "alive"}
      /\ UNCHANGED <<serverVars, id, authed, segVars>>
  <2>1. \E code : Reads(code) /\ wire # <<>>
    BY DEF LoggedIn, IsAlive, Reads
  <2>2. pc \in {"user", "pass", "alive"}
    BY DEF LoggedIn, IsAlive
  <2>. QED
    BY <2>1, <2>2, NothingLeft, AwaitingIs DEF LoggedIn, IsAlive, Talk
<1>2. TypeOK'
  BY <1>1, EmptySeq DEF TypeOK, PC, serverVars, segVars
<1>3. Talk'
  BY <1>1, TalkAfter
<1>. QED
  BY <1>1, <1>2, <1>3, SegmentsKept DEF serverVars

\* DialFails and Closed.
LEMMA CloseStep == IndInv /\ (DialFails \/ Closed) => IndInv'
<1>. SUFFICES ASSUME IndInv, DialFails \/ Closed PROVE IndInv'
  OBVIOUS
<1>. USE DEF IndInv
<1>1. /\ wire' = <<>> /\ sent' = <<>> /\ got' = <<>> /\ link' = "closed"
      /\ pc' = "gone" /\ authed' = FALSE
      /\ pc \in {"greeting", "user", "pass", "quit"}
      /\ UNCHANGED <<serverVars, id, segVars>>
  BY DEF DialFails, Closed, Close, Talk
<1>2. TypeOK'
  <2>1. authed' \in BOOLEAN
    BY <1>1
  <2>2. wire' \in Seq(Wire) /\ sent' \in Seq(Commands) /\ Len(sent') <= 2
    BY <1>1, EmptySeq
  <2>3. got' \in Seq(Ids \X Nat)
    BY <1>1, EmptySeq
  <2>4. id' = None
    BY <1>1 DEF TypeOK
  <2>. QED
    BY <1>1, <2>1, <2>2, <2>3, <2>4 DEF TypeOK, PC, serverVars, segVars
<1>3. Talk'
  BY <1>1, TalkAfter
<1>. QED
  BY <1>1, <1>2, <1>3, SegmentsKept DEF serverVars

LEMMA BodyStep == \A i \in Ids : IndInv /\ Body(i) => IndInv'
<1>. SUFFICES ASSUME NEW i \in Ids, IndInv, Body(i) PROVE IndInv'
  OBVIOUS
<1>. USE DEF IndInv
<1>1. /\ wire' = <<>> /\ sent = <<>> /\ got' = <<>> /\ link' = link /\ authed' = authed
      /\ pc' = "body" /\ id' = i /\ Send(i)
      /\ UNCHANGED serverVars
  BY DEF Body, Talk, Quiet
<1>2. /\ sent' \in Seq(Commands) /\ Len(sent') <= 1
      /\ sent' = <<>> \/ sent' = <<i>>
      /\ link # "up" => sent' = <<>>
  BY <1>1, SendsOne DEF Commands
<1>3. TypeOK'
  <2>1. /\ segment' \in [Ids -> {"none", "missing", "failed", "done", "mismatch"}]
        /\ cut' \in [Ids -> BOOLEAN]
    BY DEF Body, TypeOK
  <2>2. data' \in [Ids -> Seq(Text)]
    BY EmptySeq DEF Body, TypeOK
  <2>3. pc # "gone" /\ wire' \in Seq(Wire) /\ got' \in Seq(Ids \X Nat)
    BY <1>1, EmptySeq DEF Body
  <2>. QED
    BY <1>1, <1>2, <2>1, <2>2, <2>3 DEF TypeOK, PC, serverVars
<1>4. Command' = i
  BY <1>1 DEF Command
<1>5. Talk'
  BY <1>1, <1>2, <1>4, TalkAfter
<1>6. DoneIsWhole'
  <2>. SUFFICES ASSUME NEW j \in Ids, (segment[j] = "done")'
                PROVE  (data[j] = Posted(j) \/ cut[j] \/ ~HasCRC(article[j]))'
    BY DEF DoneIsWhole
  <2>1. j # i /\ segment[j] = "done" /\ data'[j] = data[j] /\ cut'[j] = cut[j]
    BY DEF Body, TypeOK
  <2>2. article' = article
    BY DEF Body, serverVars
  <2>. QED
    BY <2>1, <2>2 DEF DoneIsWhole, Posted
<1>. QED
  BY <1>3, <1>5, <1>6

\* Another line than the one that announces the article is the whole answer.
LEMMA WholeAnswer ==
    ASSUME TypeOK, Talk, pc = "body", NEW code, Reads(code), code # "222"
    PROVE  wire' = <<>>
<1>1. BodyAnswer /\ wire # <<>> /\ wire[1].text = code
  BY ReadsFirst DEF Talk, Reads
<1>2. Len(wire) = 1
  BY <1>1 DEF BodyAnswer
<1>. QED
  BY <1>2, NothingLeft

LEMMA NotFoundStep == IndInv /\ NotFound => IndInv'
<1>. SUFFICES ASSUME IndInv, NotFound PROVE IndInv'
  OBVIOUS
<1>. USE DEF IndInv
<1>1. Reads("430") /\ wire # <<>> /\ pc = "body" /\ id \in Ids
  BY DEF NotFound, Reads, TypeOK
<1>2. /\ wire' = <<>> /\ sent' = <<>> /\ got' = <<>> /\ link' = link
      /\ pc' = "idle" /\ id' = None
      /\ UNCHANGED <<serverVars, authed, data, cut>>
      /\ segment' = [segment EXCEPT ![id] = "missing"]
  BY <1>1, WholeAnswer, AwaitingIs DEF NotFound, Put
<1>3. TypeOK'
  BY <1>1, <1>2, EmptySeq DEF TypeOK, PC, serverVars
<1>4. Talk'
  BY <1>2, TalkAfter
<1>5. DoneIsWhole'
  <2>1. \A j \in Ids : segment'[j] = "done" => segment[j] = "done"
    BY <1>1, <1>2 DEF TypeOK
  <2>2. article' = article /\ data' = data /\ cut' = cut
    BY <1>2 DEF serverVars
  <2>. QED
    BY <2>1, <2>2 DEF DoneIsWhole, Posted
<1>. QED
  BY <1>3, <1>4, <1>5

LEMMA BodyFailsStep == IndInv /\ BodyFails => IndInv'
<1>. SUFFICES ASSUME IndInv, BodyFails PROVE IndInv'
  OBVIOUS
<1>. USE DEF IndInv
<1>1. /\ wire' = <<>> /\ sent' = <<>> /\ got' = <<>> /\ link' = link
      /\ pc' = "idle" /\ id' = None /\ pc = "body"
      /\ UNCHANGED <<serverVars, authed, segVars>>
  <2>1. CASE \E code \in Codes \ {"222", "430"} : Reads(code)
    <3>1. wire # <<>>
      BY <2>1 DEF Reads
    <3>. QED
      BY <2>1, <3>1, WholeAnswer, AwaitingIs DEF BodyFails, Put
  <2>2. CASE ReadFails
    BY <2>2, AwaitingIs DEF ReadFails, NoMore, BodyFails, Put
  <2>. QED
    BY <2>1, <2>2 DEF BodyFails
<1>2. TypeOK'
  BY <1>1, EmptySeq DEF TypeOK, PC, serverVars, segVars
<1>3. Talk'
  BY <1>1, TalkAfter
<1>. QED
  BY <1>1, <1>2, <1>3, SegmentsKept DEF serverVars

-----------------------------------------------------------------------------
(* The article.                                                            *)

\* A stuffed line is never the dot that ends the article.
LEMMA StuffedIsNoEnd == \A t \in Text : Stuffed(t) # "."
  BY DEF Stuffed

LEMMA RestAfter ==
    ASSUME article' = article, id' = id, sent' = <<>>, OwnArticle',
           Len(got') + Len(wire') <= Len(article[id]) + 1,
           \A k \in 1..Len(wire') : wire'[k] = Line(id, Len(got') + k)
    PROVE  Rest'
<1>1. (\A k \in 1..Len(wire) : wire[k] = Line(id, Len(got) + k))'
  BY Zenon DEF Line
<1>2. (Len(got) + Len(wire) <= Len(article[id]) + 1)'
  OBVIOUS
<1>. QED
  BY <1>1, <1>2, Zenon DEF Rest

LEMMA BodyFollowsStep == IndInv /\ BodyFollows => IndInv'
<1>. SUFFICES ASSUME IndInv, BodyFollows PROVE IndInv'
  OBVIOUS
<1>. USE DEF IndInv
<1>1. /\ pc = "body" /\ pc' = "article" /\ id \in Ids /\ Reads("222")
      /\ UNCHANGED <<serverVars, id, sent, link, authed, got, segVars>>
  BY DEF BodyFollows, TypeOK
<1>2. /\ wire' \in Seq(Wire) /\ wire # <<>> /\ wire[1].text = "222"
      /\ Len(wire) >= 1 /\ Len(wire') = Len(wire) - 1
      /\ \A k \in 1..Len(wire') : wire'[k] = wire[k + 1]
  BY <1>1, ReadsFirst DEF Reads
<1>3. sent = <<>> /\ got = <<>>
  BY <1>1, <1>2, AwaitingIs
<1>4. TypeOK'
  BY <1>1, <1>2 DEF TypeOK, PC, serverVars, segVars
<1>5. /\ Len(wire) <= Len(article[id]) + 2
      /\ \A k \in 2..Len(wire) : wire[k] = Line(id, k - 1)
  BY <1>1, <1>2 DEF Talk, BodyAnswer
<1>6. article[id] \in Seq(Text) /\ wire \in Seq(Wire)
  BY <1>1, ArticlesAreLines DEF TypeOK
<1>7. Rest'
  <2>1. article' = article /\ id' = id /\ got' = <<>> /\ sent' = <<>>
    BY <1>1, <1>3 DEF serverVars
  <2>2. OwnArticle'
    BY <1>6, <2>1 DEF OwnArticle
  <2>3. Len(got') + Len(wire') <= Len(article'[id']) + 1
    BY <1>2, <1>5, <1>6, <2>1
  <2>4. ASSUME NEW k \in 1..Len(wire')
        PROVE  wire'[k] = Line(id, Len(got') + k)
    <3>1. k + 1 \in 2..Len(wire) /\ (k + 1) - 1 = k /\ Len(got') + k = k
      BY <1>2, <1>6, <2>1
    <3>. QED
      BY <1>2, <1>5, <3>1
  <2>. QED
    BY <1>6, <2>1, <2>2, <2>3, <2>4, RestAfter
<1>8. Talk'
  BY <1>1, <1>3, <1>7 DEF Talk
<1>. QED
  BY <1>1, <1>4, <1>8, SegmentsKept DEF serverVars

\* processSegment writes nothing for another segment, and from an article that
\* was read to its end only what was posted, if its footer has a CRC.
LEMMA ProcessIs ==
    ASSUME TypeOK, id \in Ids, OwnArticle, Process
    PROVE  /\ segment' \in [Ids -> {"none", "missing", "failed", "done", "mismatch"}]
           /\ data' \in [Ids -> Seq(Text)]
           /\ \A j \in Ids \ {id} : segment'[j] = segment[j] /\ data'[j] = data[j]
           /\ Len(got) = Len(article[id]) /\ segment'[id] = "done" =>
                 data'[id] = Posted(id) \/ ~HasCRC(article[id])
<1>1. article[id] \in Seq(Text) /\ got \in Seq(Ids \X Nat)
  BY ArticlesAreLines DEF TypeOK
<1>2. \A k \in DOMAIN got : article[got[k][1]][got[k][2]] = article[id][k]
  BY DEF OwnArticle
<1>3. Lines(got) = [k \in 1..Len(got) |-> article[id][k]]
  BY <1>1, <1>2 DEF Lines
<1>4. Len(got) \in Nat /\ Len(got) <= Len(article[id])
  BY <1>1 DEF OwnArticle
<1>5. Lines(got) \in Seq(Text)
  BY <1>1, <1>3, <1>4
<1>6. Data(Lines(got)) \in Seq(Text)
  BY <1>5, DataType
<1>. DEFINE result == DecodeYEnc(Lines(got), Posted(id))
<1>7. Len(got) = Len(article[id]) => Lines(got) = article[id]
  BY <1>1, <1>3
<1>8. /\ result # "none" /\ result # "mismatch"
      /\ Len(got) = Len(article[id])
      => Data(Lines(got)) = Posted(id) \/ ~HasCRC(article[id])
  BY <1>7, Zenon DEF DecodeYEnc
<1>. HIDE DEF result
<1>9. CASE result = "none"
  <2>1. segment' = [segment EXCEPT ![id] = "failed"] /\ data' = data
    BY <1>9 DEF Process, result
  <2>. QED
    BY <2>1 DEF TypeOK
<1>10. CASE result # "none"
  <2>1. /\ segment' = [segment EXCEPT
                 ![id] = IF result = "mismatch" THEN "mismatch" ELSE "done"]
        /\ data' = [data EXCEPT ![id] = Data(Lines(got))]
    BY <1>10 DEF Process, result
  <2>2. /\ segment' \in [Ids -> {"none", "missing", "failed", "done", "mismatch"}]
        /\ segment'[id] = IF result = "mismatch" THEN "mismatch" ELSE "done"
        /\ \A j \in Ids \ {id} : segment'[j] = segment[j]
    BY <2>1 DEF TypeOK
  <2>3. /\ data' \in [Ids -> Seq(Text)]
        /\ data'[id] = Data(Lines(got))
        /\ \A j \in Ids \ {id} : data'[j] = data[j]
    BY <1>6, <2>1 DEF TypeOK
  <2>. QED
    BY <1>8, <1>10, <2>2, <2>3
<1>. QED
  BY <1>9, <1>10

LEMMA ArticleEndsStep == IndInv /\ ArticleEnds => IndInv'
<1>. SUFFICES ASSUME IndInv, ArticleEnds PROVE IndInv'
  OBVIOUS
<1>. USE DEF IndInv
<1>1. /\ pc = "article" /\ id \in Ids /\ wire = <<>> /\ sent = <<>> /\ OwnArticle
      /\ pc' = "idle" /\ id' = None /\ got' = <<>>
      /\ UNCHANGED <<serverVars, linkVars>>
  BY DEF ArticleEnds, Put, NoMore, TypeOK, Talk, Rest
<1>2. /\ segment' \in [Ids -> {"none", "missing", "failed", "done", "mismatch"}]
      /\ data' \in [Ids -> Seq(Text)]
      /\ cut' \in [Ids -> BOOLEAN]
      /\ \A j \in Ids : \/ cut'[j] = TRUE
                        \/ /\ segment'[j] = segment[j] /\ data'[j] = data[j]
                           /\ cut'[j] = cut[j]
  <2>1. CASE link = "ended"
    <3>1. Process /\ cut' = [cut EXCEPT ![id] = TRUE]
      BY <2>1 DEF ArticleEnds
    <3>. QED
      BY <1>1, <3>1, ProcessIs DEF TypeOK
  <2>2. CASE link # "ended"
    BY <2>2 DEF ArticleEnds, segVars, TypeOK
  <2>. QED
    BY <2>1, <2>2
<1>3. TypeOK'
  <2>1. got' \in Seq(Ids \X Nat)
    BY <1>1, EmptySeq
  <2>. QED
    BY <1>1, <1>2, <2>1 DEF TypeOK, PC, serverVars, linkVars
<1>4. Talk'
  BY <1>1, TalkAfter DEF linkVars
<1>5. DoneIsWhole'
  <2>1. article' = article
    BY <1>1 DEF serverVars
  <2>. QED
    BY <1>2, <2>1 DEF DoneIsWhole, Posted
<1>. QED
  BY <1>3, <1>4, <1>5

LEMMA ReadLineStep == IndInv /\ ReadLine => IndInv'
<1>. SUFFICES ASSUME IndInv, ReadLine PROVE IndInv'
  OBVIOUS
<1>. USE DEF IndInv
<1>1. /\ pc = "article" /\ id \in Ids /\ wire # <<>> /\ Rest
      /\ UNCHANGED <<serverVars, sent, link, authed, cut>>
  BY DEF ReadLine, TypeOK, Talk
<1>2. /\ wire' \in Seq(Wire) /\ Head(wire) = wire[1]
      /\ Len(wire) >= 1 /\ Len(wire') = Len(wire) - 1
      /\ \A k \in 1..Len(wire') : wire'[k] = wire[k + 1]
  <2>1. wire \in Seq(Wire) /\ wire' = Tail(wire)
    BY DEF ReadLine, TypeOK
  <2>. QED
    BY <1>1, <2>1, HeadTailProperties
<1>3. /\ article[id] \in Seq(Text) /\ got \in Seq(Ids \X Nat) /\ wire \in Seq(Wire)
      /\ Len(got) \in Nat /\ Len(wire) \in Nat /\ Len(article[id]) \in Nat
  BY <1>1, ArticlesAreLines DEF TypeOK
<1>4. /\ OwnArticle /\ sent = <<>>
      /\ Len(got) <= Len(article[id])
      /\ Len(got) + Len(wire) <= Len(article[id]) + 1
      /\ \A k \in 1..Len(wire) : wire[k] = Line(id, Len(got) + k)
  BY <1>1 DEF Rest, OwnArticle
<1>5. wire[1] = Line(id, Len(got) + 1)
  BY <1>2, <1>3, <1>4
<1>6. /\ wire[1].re = id /\ wire[1].at = Len(got) + 1
      /\ wire[1].text = "." <=> Len(got) = Len(article[id])
  <2>1. Len(got) + 1 <= Len(article[id]) <=> Len(got) # Len(article[id])
    BY <1>3, <1>4
  <2>2. Len(got) + 1 <= Len(article[id]) => article[id][Len(got) + 1] \in Text
    BY <1>3
  <2>. QED
    BY <1>5, <2>1, <2>2, StuffedIsNoEnd DEF Line
<1>7. article' = article
  BY <1>1 DEF serverVars
<1>8. CASE wire[1].text = "."
  <2>1. Process /\ Put /\ Len(got) = Len(article[id])
    BY <1>2, <1>6, <1>8 DEF ReadLine
  <2>2. wire' = <<>>
    BY <1>2, <1>3, <1>4, <2>1, EmptySeq
  <2>3. TypeOK'
    <3>1. /\ segment' \in [Ids -> {"none", "missing", "failed", "done", "mismatch"}]
          /\ data' \in [Ids -> Seq(Text)]
      BY <1>1, <1>4, <2>1, ProcessIs
    <3>2. pc' = "idle" /\ id' = None /\ got' \in Seq(Ids \X Nat)
      BY <2>1, EmptySeq DEF Put
    <3>. QED
      BY <1>1, <1>2, <3>1, <3>2 DEF TypeOK, PC, serverVars
  <2>4. Talk'
    BY <1>1, <1>4, <2>1, <2>2, TalkAfter DEF Put
  <2>5. DoneIsWhole'
    <3>1. /\ \A j \in Ids \ {id} : segment'[j] = segment[j] /\ data'[j] = data[j]
          /\ segment'[id] = "done" => data'[id] = Posted(id) \/ ~HasCRC(article[id])
      BY <1>1, <1>4, <2>1, ProcessIs
    <3>2. cut' = cut
      BY <1>1
    <3>. QED
      BY <1>7, <3>1, <3>2 DEF DoneIsWhole, Posted
  <2>. QED
    BY <2>3, <2>4, <2>5
<1>9. CASE wire[1].text # "."
  <2>1. /\ got' = Append(got, <<id, Len(got) + 1>>)
        /\ UNCHANGED <<pc, id, segment, data>>
    BY <1>2, <1>6, <1>9 DEF ReadLine
  <2>2. Len(got) + 1 <= Len(article[id])
    BY <1>3, <1>4, <1>6, <1>9
  <2>3. /\ got' \in Seq(Ids \X Nat)
        /\ Len(got') = Len(got) + 1
        /\ \A k \in 1..Len(got) : got'[k] = got[k]
        /\ got'[Len(got) + 1] = <<id, Len(got) + 1>>
    <3>1. <<id, Len(got) + 1>> \in Ids \X Nat
      BY <1>1, <1>3
    <3>. QED
      BY <1>3, <2>1, <3>1, AppendProperties
  <2>4. TypeOK'
    BY <1>1, <1>2, <2>1, <2>3 DEF TypeOK, PC, serverVars
  <2>5. OwnArticle'
    <3>1. \A k \in 1..Len(got) : got[k] = <<id, k>>
      BY <1>3, <1>4 DEF OwnArticle
    <3>2. ASSUME NEW k \in 1..Len(got') PROVE got'[k] = <<id, k>>
      <4>1. k \in 1..Len(got) \/ k = Len(got) + 1
        BY <1>3, <2>3
      <4>. QED
        BY <2>3, <3>1, <4>1, Zenon
    <3>3. DOMAIN got' = 1..Len(got')
      BY <2>3
    <3>. QED
      BY <1>3, <1>7, <2>1, <2>2, <2>3, <3>2, <3>3 DEF OwnArticle
  <2>6. Rest'
    <3>1. Len(got') + Len(wire') <= Len(article[id]) + 1
      BY <1>2, <1>3, <1>4, <2>3
    <3>2. ASSUME NEW k \in 1..Len(wire')
          PROVE  wire'[k] = Line(id, Len(got') + k)
      <4>1. k + 1 \in 1..Len(wire) /\ Len(got) + (k + 1) = Len(got') + k
        BY <1>2, <1>3, <2>3
      <4>. QED
        BY <1>2, <1>4, <4>1
    <3>3. id' = id /\ sent' = <<>>
      BY <1>1, <1>4, <2>1
    <3>. QED
      BY <1>7, <2>5, <3>1, <3>2, <3>3, RestAfter
  <2>7. Talk'
    BY <1>1, <1>4, <2>1, <2>6 DEF Talk
  <2>8. DoneIsWhole'
    BY <1>1, <1>7, <2>1, SegmentsKept DEF segVars
  <2>. QED
    BY <2>4, <2>7, <2>8
<1>. QED
  BY <1>8, <1>9

-----------------------------------------------------------------------------
(* The pool.                                                               *)

LEMMA AskStep == IndInv /\ Ask => IndInv'
<1>. SUFFICES ASSUME IndInv, Ask PROVE IndInv'
  OBVIOUS
<1>. USE DEF IndInv
<1>1. /\ pc = "idle" /\ pc' = "alive" /\ Send("date")
      /\ wire = <<>> /\ sent = <<>> /\ got = <<>>
      /\ UNCHANGED <<serverVars, id, wire, link, authed, got, segVars>>
  BY DEF Ask, Talk, Quiet
<1>2. /\ sent' \in Seq(Commands) /\ Len(sent') <= 1
      /\ sent' = <<>> \/ sent' = <<"date">>
      /\ link # "up" => sent' = <<>>
  BY <1>1, SendsOne DEF Commands
<1>3. TypeOK'
  BY <1>1, <1>2 DEF TypeOK, PC, serverVars, segVars
<1>4. Command' = "date"
  BY <1>1 DEF Command
<1>5. Talk'
  BY <1>1, <1>2, <1>4, TalkAfter
<1>. QED
  BY <1>1, <1>3, <1>5, SegmentsKept DEF serverVars

LEMMA HandOverStep == IndInv /\ HandOver => IndInv'
<1>. SUFFICES ASSUME IndInv, HandOver PROVE IndInv'
  OBVIOUS
<1>. USE DEF IndInv
<1>1. TypeOK'
  BY DEF HandOver, TypeOK, PC, serverVars, linkVars, segVars
<1>2. Talk'
  BY TalkAfter DEF HandOver, Talk, Quiet, linkVars
<1>. QED
  BY <1>1, <1>2, SegmentsKept DEF HandOver, serverVars

\* IsNotAlive, AliveTimesOut and CloseIdle.  The answer to the first command
\* may follow later, so this is where two are unanswered.
LEMMA QuitStep == IndInv /\ (IsNotAlive \/ AliveTimesOut \/ CloseIdle) => IndInv'
<1>. SUFFICES ASSUME IndInv, IsNotAlive \/ AliveTimesOut \/ CloseIdle PROVE IndInv'
  OBVIOUS
<1>. USE DEF IndInv
<1>1. /\ pc \in {"idle", "alive"} /\ pc' = "quit" /\ Send("quit")
      /\ wire' = <<>> /\ got = <<>>
      /\ sent = <<>> \/ sent = <<Command>>
      /\ link # "up" => sent = <<>>
      /\ UNCHANGED <<serverVars, id, link, authed, got, segVars>>
  <2>1. CASE IsNotAlive
    <3>1. pc = "alive" /\ Len(wire) <= 1
      BY <2>1 DEF IsNotAlive, Talk
    <3>2. wire' = <<>>
      BY <2>1, <3>1, NothingLeft DEF IsNotAlive, ReadFails, NoMore
    <3>. QED
      BY <2>1, <3>1, <3>2, AwaitingIs DEF IsNotAlive, Quit
  <2>2. CASE AliveTimesOut
    BY <2>2, AwaitingIs DEF AliveTimesOut, Quit
  <2>3. CASE CloseIdle
    BY <2>3 DEF CloseIdle, Quit, Talk, Quiet
  <2>. QED
    BY <2>1, <2>2, <2>3
<1>2. /\ sent' \in Seq(Commands) /\ Len(sent') <= 2
      /\ link # "up" => sent' = <<>>
      /\ Len(sent') = 2 => Head(sent') = "date"
  <2>1. CASE sent = <<>>
    <3>1. sent' = <<>> \/ sent' = <<"quit">>
      BY <1>1, <2>1, SendsOne DEF Commands
    <3>2. Len(<<>>) = 0 /\ Len(<<"quit">>) = 1 /\ <<"quit">> \in Seq(Commands)
      BY DEF Commands
    <3>. QED
      BY <1>1, <2>1, <3>1, <3>2, EmptySeq DEF Send
  <2>2. CASE sent # <<>>
    <3>1. link = "up" /\ sent = <<Command>> /\ sent' = Append(sent, "quit")
      BY <1>1, <2>2 DEF Send
    <3>2. pc = "alive" /\ Command = "date"
      BY <1>1, <2>2 DEF Talk, Quiet, Command
    <3>3. sent = <<"date">> /\ Len(sent) = 1 /\ sent[1] = "date"
      BY <3>1, <3>2
    <3>4. sent \in Seq(Commands) /\ "quit" \in Commands
      BY DEF TypeOK, Commands
    <3>5. sent' \in Seq(Commands) /\ Len(sent') = 2 /\ sent'[1] = "date"
      BY <3>1, <3>3, <3>4, AppendProperties
    <3>6. Head(sent') = "date"
      BY <3>5
    <3>. QED
      BY <3>1, <3>5, <3>6
  <2>. QED
    BY <2>1, <2>2
<1>3. TypeOK'
  <2>1. wire' \in Seq(Wire)
    BY <1>1, EmptySeq
  <2>. QED
    BY <1>1, <1>2, <2>1 DEF TypeOK, PC, serverVars, segVars
<1>4. Talk'
  BY <1>1, <1>2, TalkAfter
<1>. QED
  BY <1>1, <1>3, <1>4, SegmentsKept DEF serverVars

-----------------------------------------------------------------------------
(* The server and the network.                                             *)

LEMMA ServerAnswersStep == IndInv /\ ServerAnswers => IndInv'
<1>. SUFFICES ASSUME IndInv, ServerAnswers PROVE IndInv'
  OBVIOUS
<1>. USE DEF IndInv
<1>1. PICK status \in Statuses(Head(sent)) :
         /\ wire' = wire \o Answer(Head(sent), status)
         /\ authed' = (authed \/ status = "281")
         /\ link' = IF status \in {"205", "502"} THEN "ended" ELSE link
  BY DEF ServerAnswers
<1>2. /\ link = "up" /\ sent # <<>> /\ sent' = Tail(sent)
      /\ UNCHANGED <<serverVars, pc, id, got, segVars>>
  BY DEF ServerAnswers
<1>3. /\ sent \in Seq(Commands) /\ Len(sent) <= 2
      /\ Head(sent) \in Commands
      /\ sent' \in Seq(Commands) /\ Len(sent') = Len(sent) - 1
  BY <1>2, HeadTailProperties DEF TypeOK
<1>. DEFINE answer == Answer(Head(sent), status)
<1>4. /\ answer \in Seq(Wire)
      /\ answer # <<>>
      /\ answer[1].re = Head(sent)
      /\ answer[1].text = status
      /\ status # "222" => Len(answer) = 1
      /\ status = "222" =>
            /\ Head(sent) \notin {"connect", "user", "pass", "date", "quit"}
            /\ Len(answer) = Len(article[Head(sent)]) + 2
            /\ \A k \in 2..Len(answer) : answer[k] = Line(Head(sent), k - 1)
  BY <1>3, AnswerIs
<1>. HIDE DEF answer
<1>5. TypeOK'
  <2>1. wire' \in Seq(Wire)
    BY <1>1, <1>4, ConcatProperties DEF answer, TypeOK
  <2>2. authed' \in BOOLEAN
    BY <1>1
  <2>3. link' \in {"up", "ended"} /\ pc # "gone"
    BY <1>1, <1>2 DEF TypeOK
  <2>4. Len(sent') <= 2
    BY <1>3
  <2>. QED
    BY <1>2, <1>3, <2>1, <2>2, <2>3, <2>4 DEF TypeOK, serverVars, segVars
<1>6. Talk'
  <2>1. pc \notin {"gone", "ready", "idle", "article"}
    BY <1>2 DEF Talk, Quiet, Rest
  <2>2. CASE pc = "quit"
    <3>1. Len(sent) = 1 \/ Len(sent) = 2
      BY <1>2, <1>3, EmptySeq
    <3>2. CASE Len(sent) = 1
      <4>1. sent' = <<>> /\ Len(sent') # 2
        BY <1>3, <3>2, EmptySeq
      <4>. QED
        BY <1>2, <2>2, <4>1 DEF Talk
    <3>3. CASE Len(sent) = 2
      <4>1. Head(sent) = "date"
        BY <2>2, <3>3 DEF Talk
      <4>2. status \notin {"205", "502"}
        BY <4>1 DEF Statuses
      <4>3. link' = "up"
        BY <1>1, <1>2, <4>2
      <4>4. Len(sent') = 1
        BY <1>3, <3>3
      <4>5. got = <<>>
        BY <2>2, SMTT(20) DEF Talk
      <4>. QED
        BY <1>2, <2>2, <4>3, <4>4, <4>5, SMTT(20) DEF Talk
    <3>. QED
      BY <3>1, <3>2, <3>3
  <2>3. CASE pc # "quit"
    <3>1. pc \in {"greeting", "user", "pass", "alive", "body"}
      BY <2>1, <2>3 DEF TypeOK, PC
    <3>2. sent = <<Command>> /\ wire = <<>> /\ got = <<>>
      BY <1>2, <3>1 DEF Talk, Awaiting
    <3>3. Head(sent) = Command /\ sent' = <<>>
      BY <1>2, <3>2
    <3>4. wire' = answer
      BY <1>1, <1>4, <3>2, ConcatEmptySeq DEF answer
    <3>5. Command' = Command /\ article' = article /\ id' = id /\ pc' = pc /\ got' = <<>>
      BY <1>2, <3>2 DEF Command, serverVars
    <3>6. Awaiting'
      BY <1>4, <3>3, <3>4, <3>5 DEF Awaiting
    <3>7. CASE pc = "body"
      <4>1. Command = id
        BY <3>7 DEF Command
      <4>2. /\ status # "222" => wire'[1].text # "222" /\ Len(wire') = 1
            /\ status = "222" => /\ wire' # <<>> /\ wire'[1].text = "222"
                                 /\ Len(wire') <= Len(article'[id']) + 2
        BY <1>4, <3>3, <3>4, <3>5, <4>1
      <4>3. status = "222" => \A k \in 2..Len(wire') : wire'[k] = Line(id, k - 1)
        BY <1>4, <3>3, <3>4, <4>1
      <4>4. status = "222" => (\A k \in 2..Len(wire) : wire[k] = Line(id, k - 1))'
        BY <3>5, <4>3, Zenon DEF Line
      <4>5. BodyAnswer'
        BY <4>2, <4>4, Zenon DEF BodyAnswer
      <4>. QED
        BY <3>3, <3>5, <3>6, <3>7, <4>5 DEF Talk
    <3>8. CASE pc # "body"
      <4>1. Command \in {"connect", "user", "pass", "date"}
        BY <3>1, <3>8 DEF Command
      <4>2. status # "222"
        BY <1>4, <3>3, <4>1
      <4>3. Len(wire') = 1
        BY <1>4, <3>4, <4>2, Zenon
      <4>. QED
        BY <3>1, <3>3, <3>5, <3>6, <3>8, <4>3 DEF Talk
    <3>. QED
      BY <3>7, <3>8
  <2>. QED
    BY <2>2, <2>3
<1>7. DoneIsWhole'
  BY <1>2, SegmentsKept DEF serverVars
<1>. QED
  BY <1>5, <1>6, <1>7

LEMMA LinkEndsStep == IndInv /\ LinkEnds => IndInv'
<1>. SUFFICES ASSUME IndInv, LinkEnds PROVE IndInv'
  OBVIOUS
<1>. USE DEF IndInv
<1>1. PICK n \in 0..Len(wire) : wire' = SubSeq(wire, 1, n)
  BY DEF LinkEnds
<1>2. /\ link = "up" /\ link' \in {"ended", "reset"} /\ sent' = <<>>
      /\ UNCHANGED <<serverVars, pc, id, authed, got, segVars>>
  BY DEF LinkEnds
<1>3. /\ wire \in Seq(Wire) /\ wire' \in Seq(Wire)
      /\ Len(wire') = n /\ Len(wire') <= Len(wire)
      /\ \A k \in 1..Len(wire') : wire'[k] = wire[k]
      /\ n = 0 => wire' = <<>>
  <2>1. wire \in Seq(Wire) /\ n \in Nat /\ n <= Len(wire)
    BY DEF TypeOK
  <2>2. /\ SubSeq(wire, 1, n) \in Seq(Wire)
        /\ Len(SubSeq(wire, 1, n)) = n
        /\ \A k \in 1..n : SubSeq(wire, 1, n)[k] = wire[k]
    BY <2>1, SubSeqProperties
  <2>. QED
    BY <1>1, <2>1, <2>2, EmptySeq
<1>4. TypeOK'
  <2>1. pc # "gone"
    BY <1>2 DEF TypeOK
  <2>. QED
    BY <1>2, <1>3, <2>1, EmptySeq DEF TypeOK, serverVars, segVars
<1>5. Command' = Command /\ article' = article /\ id' = id /\ pc' = pc /\ got' = got
  BY <1>2 DEF Command, serverVars
<1>6. wire' # <<>> => /\ wire # <<>> /\ wire'[1] = wire[1] /\ Len(wire') >= 1
  BY <1>3, EmptySeq
<1>7. Talk'
  <2>1. CASE pc \in {"gone", "ready", "idle"}
    BY <1>2, <1>3, <1>5, <1>6, <2>1 DEF Talk, Quiet
  <2>2. CASE pc \in {"greeting", "user", "pass", "alive"}
    <3>1. Awaiting /\ Len(wire) <= 1
      BY <2>2 DEF Talk
    <3>2. Awaiting' /\ Len(wire') <= 1
      BY <1>2, <1>3, <1>5, <1>6, <3>1 DEF Awaiting
    <3>. QED
      BY <1>2, <1>5, <2>2, <3>2 DEF Talk
  <2>3. CASE pc = "body"
    <3>1. Awaiting /\ BodyAnswer
      BY <2>3 DEF Talk
    <3>2. Awaiting'
      BY <1>2, <1>5, <1>6, <3>1 DEF Awaiting
    <3>3. BodyAnswer'
      <4>1. CASE wire' = <<>>
        BY <4>1 DEF BodyAnswer
      <4>2. CASE wire' # <<>> /\ wire[1].text # "222"
        <5>1. Len(wire) = 1
          BY <1>6, <3>1, <4>2 DEF BodyAnswer
        <5>. QED
          BY <1>3, <1>6, <4>2, <5>1 DEF BodyAnswer
      <4>3. CASE wire' # <<>> /\ wire[1].text = "222"
        <5>1. /\ Len(wire) <= Len(article[id]) + 2
              /\ \A k \in 2..Len(wire) : wire[k] = Line(id, k - 1)
          BY <1>6, <3>1, <4>3 DEF BodyAnswer
        <5>2. id \in Ids /\ article[id] \in Seq(Text)
          BY <2>3, ArticlesAreLines DEF TypeOK
        <5>3. Len(wire') <= Len(article'[id']) + 2
          BY <1>3, <1>5, <5>1, <5>2
        <5>4. \A k \in 2..Len(wire') : wire'[k] = Line(id, k - 1)
          BY <1>3, <5>1
        <5>5. (\A k \in 2..Len(wire) : wire[k] = Line(id, k - 1))'
          BY <1>5, <5>4, Zenon DEF Line
        <5>. QED
          BY <1>6, <4>3, <5>3, <5>5, Zenon DEF BodyAnswer
      <4>. QED
        BY <4>1, <4>2, <4>3
    <3>. QED
      BY <1>2, <1>5, <2>3, <3>2, <3>3 DEF Talk
  <2>4. CASE pc = "article"
    <3>1. Rest
      BY <2>4 DEF Talk
    <3>2. id \in Ids /\ article[id] \in Seq(Text) /\ Len(got) \in Nat
      BY <2>4, ArticlesAreLines DEF TypeOK
    <3>3. OwnArticle'
      BY <1>5, <3>1 DEF Rest, OwnArticle
    <3>4. Len(got') + Len(wire') <= Len(article[id]) + 1
      BY <1>3, <1>5, <3>1, <3>2 DEF Rest
    <3>5. ASSUME NEW k \in 1..Len(wire')
          PROVE  wire'[k] = Line(id, Len(got') + k)
      <4>1. k \in 1..Len(wire) /\ wire'[k] = wire[k]
        BY <1>3
      <4>. QED
        BY <1>5, <3>1, <4>1, Zenon DEF Rest
    <3>6. Rest'
      BY <1>2, <1>5, <3>3, <3>4, <3>5, RestAfter
    <3>. QED
      BY <1>2, <1>5, <2>4, <3>6 DEF Talk
  <2>5. CASE pc = "quit"
    BY <1>2, <1>5, <2>5 DEF Talk
  <2>. QED
    BY <2>1, <2>2, <2>3, <2>4, <2>5 DEF TypeOK, PC
<1>8. DoneIsWhole'
  BY <1>2, SegmentsKept DEF serverVars
<1>. QED
  BY <1>4, <1>7, <1>8

-----------------------------------------------------------------------------
(* The theorems.                                                           *)

LEMMA StepIndInv == IndInv /\ [Next]_vars => IndInv'
<1>. SUFFICES ASSUME IndInv, [Next]_vars PROVE IndInv'
  OBVIOUS
<1>1. CASE Client
  BY <1>1, GreetedStep, PassWantedStep, ReadyStep, CloseStep, BodyFollowsStep,
     NotFoundStep, BodyFailsStep, ReadLineStep, ArticleEndsStep, QuitStep DEF Client
<1>2. CASE ServerAnswers
  BY <1>2, ServerAnswersStep
<1>3. CASE LinkEnds
  BY <1>3, LinkEndsStep
<1>4. CASE Dial
  BY <1>4, DialStep
<1>5. CASE Ask
  BY <1>5, AskStep
<1>6. CASE HandOver
  BY <1>6, HandOverStep
<1>7. CASE CloseIdle
  BY <1>7, QuitStep
<1>8. CASE \E i \in Ids : Body(i)
  BY <1>8, BodyStep
<1>9. CASE UNCHANGED vars
  <2>. USE <1>9 DEF IndInv, vars, serverVars, linkVars, segVars
  <2>1. TypeOK'
    BY DEF TypeOK
  <2>2. DoneIsWhole'
    BY SegmentsKept
  <2>3. Command' = Command /\ Quiet' = Quiet
    BY DEF Command, Quiet
  <2>4. Awaiting' = Awaiting
    BY <2>3 DEF Awaiting
  <2>5. BodyAnswer' = BodyAnswer
    BY DEF BodyAnswer, Line
  <2>6. Rest' = Rest
    BY DEF Rest, OwnArticle, Line
  <2>7. Talk'
    BY <2>3, <2>4, <2>5, <2>6 DEF Talk
  <2>. QED
    BY <2>1, <2>2, <2>7
<1>. QED
  BY <1>1, <1>2, <1>3, <1>4, <1>5, <1>6, <1>7, <1>8, <1>9 DEF Next

LEMMA Invariant == Spec => []IndInv
<1>. QED
  BY InitIndInv, StepIndInv, PTL DEF Spec

\* The state of a connection and of the segments has its type: a link is
\* closed exactly when no client holds it, and at most a DATE that timed out
\* and the QUIT after it are unanswered.
THEOREM ClientTypeCorrect == Spec => []TypeOK
<1>1. IndInv => TypeOK
  BY DEF IndInv
<1>. QED
  BY <1>1, Invariant, PTL

\* Whatever the server answers, and wherever the connection ends: what a
\* client reads is the answer to its own last command, and a connection that
\* is free has nothing unread and nothing unanswered.
THEOREM ClientStaysInStep == Spec => []InStep
<1>1. IndInv => InStep
  BY TalkInStep DEF IndInv
<1>. QED
  BY <1>1, Invariant, PTL

\* What readMultiLine has read is a front part of the article Body was called
\* for, line by line, for articles of any length.
THEOREM BodyReadsOwnArticle == Spec => []BodyHasOwnArticle
<1>1. IndInv => BodyHasOwnArticle
  <2>. SUFFICES ASSUME IndInv, pc \in {"body", "article"} PROVE OwnArticle
    BY DEF BodyHasOwnArticle
  <2>1. CASE pc = "article"
    BY <2>1 DEF IndInv, Talk, Rest
  <2>2. CASE pc = "body"
    <3>1. got = <<>>
      BY <2>2 DEF IndInv, Talk
    <3>2. article[id] \in Seq(Text)
      BY <2>2, ArticlesAreLines DEF IndInv, TypeOK
    <3>. QED
      BY <3>1, <3>2 DEF OwnArticle
  <2>. QED
    BY <2>1, <2>2
<1>. QED
  BY <1>1, Invariant, PTL

\* A segment that counts as done has the data that was posted, unless its
\* connection ended inside the article or the article has no CRC.
THEOREM DoneSegmentsAreWhole == Spec => []DoneIsWhole
<1>1. IndInv => DoneIsWhole
  BY DEF IndInv
<1>. QED
  BY <1>1, Invariant, PTL

=============================================================================
