---------------------------- MODULE TelnetProofs ----------------------------
(***************************************************************************)
(* A Telnet session keeps text and commands apart, and its negotiations    *)
(* come to an end (TelnetControl.tla), for any text, any options and any   *)
(* number of utterances, keys and changes of size.                         *)
(*                                                                         *)
(* The invariant reads what is under way as its reader will: from where    *)
(* the reader is, the bytes on their way make of the text that was shown   *)
(* the text that was said, and bring the commands that were negotiated and *)
(* not read yet.  About those, and the state of both ends, it says what    *)
(* RFC 1143 says of the two ends of an option.                             *)
(***************************************************************************)
EXTENDS TelnetControl, SequenceTheorems, WellFoundedInduction, TLAPS

\* sendSubNego does not double IAC: a size that has it in a byte ends, or does not end,
\* in the wrong place.
SizesWithoutIAC ==
  \A n \in Cols \cup Rows : n \div 256 # IAC /\ n % 256 # IAC

\* The parser has one state for WILL and DO of an option, takes DONT ECHO as if the host
\* echoed, and a window that was reported once as accepted for good.
OptionsOfOneSide ==
  /\ Echo \notin ClientOptions
  /\ SuppressGoAhead \notin ServerOptions \cap ClientOptions
  /\ NAWS \notin Withdrawn

---------------------------------------------------------------------------
(* Reading.  A reader is somewhere in a command, or in text; it has read    *)
(* some text, and some commands about options.                              *)

Verbs == {WILL, WONT, DO, DONT}
Nego2 == Nat \X Nat
Modes == {"text", "command", "option", "sub", "type", "subend"}
Views == [mode : Modes, cmd : Nat, text : Seq(Nat), negos : Seq(Nego2)]

\* What the host makes of a byte (Heard), and what the parser does while it can answer
\* and knows all commands (Read).
AfterCommand(a, b) ==
  IF b = IAC THEN [a EXCEPT !.mode = "text", !.text = Append(a.text, b)]
  ELSE IF b = SB THEN [a EXCEPT !.mode = "sub"]
  ELSE IF b \in Verbs THEN [a EXCEPT !.mode = "option", !.cmd = b]
  ELSE [a EXCEPT !.mode = "text"]

AfterText(a, b) ==
  IF b = IAC THEN [a EXCEPT !.mode = "command"] ELSE [a EXCEPT !.text = Append(a.text, b)]

AfterOption(a, b) == [a EXCEPT !.mode = "text", !.negos = Append(a.negos, <<a.cmd, b>>)]

AfterSub(a, b, known) ==
  IF b = IAC THEN [a EXCEPT !.mode = "subend"]
  ELSE IF b = TerminalType /\ known THEN [a EXCEPT !.mode = "type"]
  ELSE a

AfterSubEnd(a, b) == IF b = SE THEN [a EXCEPT !.mode = "text"] ELSE [a EXCEPT !.mode = "sub"]

After(a, b, known) ==
  IF a.mode = "text" THEN AfterText(a, b)
  ELSE IF a.mode = "command" THEN AfterCommand(a, b)
  ELSE IF a.mode = "option" THEN AfterOption(a, b)
  ELSE IF a.mode = "sub" THEN AfterSub(a, b, known)
  ELSE IF a.mode = "type" THEN [a EXCEPT !.mode = "sub"]
  ELSE AfterSubEnd(a, b)

Reads(known) == [a \in Views |-> [b \in Nat |-> After(a, b, known)]]
HostReads == Reads(FALSE)
BrowserReads == Reads(TRUE)

\* F reads bytes from a to b.
Runs(F, bytes, a, b) ==
  \E r \in [0 .. Len(bytes) -> Views] :
    /\ r[0] = a /\ r[Len(bytes)] = b
    /\ \A i \in 1 .. Len(bytes) : r[i] = F[r[i - 1]][bytes[i]]

\* Text is only added, and so are commands.
Grows(a, b) ==
  /\ \E more \in Seq(Nat) : b.text = a.text \o more
  /\ \E more \in Seq(Nego2) : b.negos = a.negos \o more

---------------------------------------------------------------------------
(* Lemmas about reading.                                                    *)

\* What has been read is a view again, and nothing of it is taken back.
LEMMA AfterType ==
  ASSUME NEW a \in Views, NEW b \in Nat, NEW known \in BOOLEAN
  PROVE  After(a, b, known) \in Views /\ Grows(a, After(a, b, known))
<1> DEFINE c == After(a, b, known)
<1>1. /\ a.mode \in Modes /\ a.cmd \in Nat /\ a.text \in Seq(Nat) /\ a.negos \in Seq(Nego2)
      /\ a = [mode |-> a.mode, cmd |-> a.cmd, text |-> a.text, negos |-> a.negos]
  BY DEF Views
<1>2. /\ Append(a.text, b) \in Seq(Nat) /\ Append(a.text, b) = a.text \o <<b>> /\ <<b>> \in Seq(Nat)
      /\ a.text = a.text \o <<>> /\ <<>> \in Seq(Nat)
  BY <1>1, AppendIsConcat, ConcatEmptySeq, EmptySeq
<1>3. /\ <<a.cmd, b>> \in Nego2
      /\ Append(a.negos, <<a.cmd, b>>) \in Seq(Nego2)
      /\ Append(a.negos, <<a.cmd, b>>) = a.negos \o <<<<a.cmd, b>>>> /\ <<<<a.cmd, b>>>> \in Seq(Nego2)
      /\ a.negos = a.negos \o <<>> /\ <<>> \in Seq(Nego2)
  <2>1. PICK n : n = <<a.cmd, b>>
    OBVIOUS
  <2>2. n \in Nego2
    BY <1>1, <2>1 DEF Nego2
  <2>3. PICK q \in Seq(Nego2) : q = a.negos
    BY <1>1
  <2>4. /\ Append(q, n) \in Seq(Nego2) /\ Append(q, n) = q \o <<n>> /\ <<n>> \in Seq(Nego2)
        /\ q = q \o <<>> /\ <<>> \in Seq(Nego2)
    BY <2>2, <2>3, AppendIsConcat, AppendProperties, ConcatEmptySeq, EmptySeq
  <2> QED
    BY <2>1, <2>2, <2>3, <2>4
<1>4. /\ c.mode \in Modes /\ c.cmd \in {a.cmd, b}
      /\ c = [mode |-> c.mode, cmd |-> c.cmd, text |-> c.text, negos |-> c.negos]
      /\ c.text \in {a.text, Append(a.text, b)}
      /\ c.negos \in {a.negos, Append(a.negos, <<a.cmd, b>>)}
  BY <1>1 DEF After, AfterText, AfterCommand, AfterOption, AfterSub, AfterSubEnd, Modes
<1> HIDE DEF c
<1>5. c.cmd \in Nat /\ c.text \in Seq(Nat) /\ c.negos \in Seq(Nego2)
  BY <1>1, <1>2, <1>3, <1>4
<1>6. c \in Views
  BY <1>4, <1>5 DEF Views
<1>7. Grows(a, c)
  BY <1>2, <1>3, <1>4 DEF Grows
<1> QED
  BY <1>6, <1>7 DEF c

\* The two readers, as what they are.
Reader(F) == /\ F \in [Views -> [Nat -> Views]]
             /\ \A a \in Views, b \in Nat : Grows(a, F[a][b])

\* A reader goes as After says.
LEMMA ReadsAfter ==
  ASSUME NEW a \in Views, NEW b \in Nat, NEW known
  PROVE  Reads(known)[a][b] = After(a, b, known)
  BY DEF Reads

\* The host and the parser are readers: what they have read only grows.
LEMMA BothAreReaders == \A known \in BOOLEAN : Reader(Reads(known))
<1> SUFFICES ASSUME NEW known \in BOOLEAN
             PROVE  Reader(Reads(known))
  OBVIOUS
<1>1. \A a \in Views, b \in Nat : After(a, b, known) \in Views
  BY AfterType
<1>2. Reads(known) \in [Views -> [Nat -> Views]]
  BY <1>1 DEF Reads
<1> QED
  BY <1>2, ReadsAfter, AfterType DEF Reader

\* Who has nothing to read stays where he is.
LEMMA RunsNothing ==
  ASSUME NEW F, NEW a \in Views, NEW b
  PROVE  Runs(F, <<>>, a, b) <=> a = b
<1>1. Len(<<>>) = 0
  OBVIOUS
<1>2. ASSUME a = b
      PROVE  Runs(F, <<>>, a, b)
  <2> DEFINE r == [i \in 0 .. 0 |-> a]
  <2>1. r \in [0 .. Len(<<>>) -> Views] /\ r[0] = a /\ r[Len(<<>>)] = b
    BY <1>1, <1>2
  <2> HIDE DEF r
  <2>2. \A i \in 1 .. Len(<<>>) : r[i] = F[r[i - 1]][<<>>[i]]
    BY <1>1
  <2> QED
    BY <2>1, <2>2 DEF Runs
<1>3. ASSUME Runs(F, <<>>, a, b)
      PROVE  a = b
  BY <1>1, <1>3 DEF Runs
<1> QED
  BY <1>2, <1>3

\* A byte more at the end is read last ...
LEMMA RunsAppend ==
  ASSUME NEW F, Reader(F), NEW bytes \in Seq(Nat), NEW a, NEW b, Runs(F, bytes, a, b), NEW c \in Nat
  PROVE  Runs(F, Append(bytes, c), a, F[b][c]) /\ b \in Views /\ F[b][c] \in Views
<1>1. PICK n \in Nat : n = Len(bytes)
  BY LenProperties
<1>2. PICK r : /\ r \in [0 .. n -> Views] /\ r[0] = a /\ r[n] = b
               /\ \A i \in 1 .. n : r[i] = F[r[i - 1]][bytes[i]]
  BY <1>1 DEF Runs
<1>3. b \in Views
  BY <1>1, <1>2
<1>4. PICK d \in Views : d = F[b][c]
  BY <1>3 DEF Reader
<1>5. PICK all : all = Append(bytes, c)
  OBVIOUS
<1>6. all \in Seq(Nat) /\ Len(all) = n + 1 /\ all[n + 1] = c /\ \A i \in 1 .. n : all[i] = bytes[i]
  BY <1>1, <1>5, AppendProperties
<1> DEFINE s == [i \in 0 .. n + 1 |-> IF i = n + 1 THEN d ELSE r[i]]
<1>7. s \in [0 .. n + 1 -> Views] /\ s[0] = a /\ s[n + 1] = d /\ \A i \in 0 .. n : s[i] = r[i]
  <2>1. \A i \in 0 .. n : i \in 0 .. n + 1 /\ i # n + 1
    BY <1>1
  <2>2. \A i \in 0 .. n + 1 : i # n + 1 => i \in 0 .. n
    BY <1>1
  <2>3. s \in [0 .. n + 1 -> Views]
    BY <1>2, <1>4, <2>2
  <2>4. \A i \in 0 .. n : s[i] = r[i]
    BY <2>1
  <2>5. n + 1 \in 0 .. n + 1 /\ 0 \in 0 .. n
    BY <1>1
  <2>6. s[n + 1] = d
    BY <2>5
  <2>7. s[0] = a
    BY <1>2, <2>4, <2>5
  <2> HIDE DEF s
  <2> QED
    BY <2>3, <2>4, <2>6, <2>7
<1> HIDE DEF s
<1>8. ASSUME NEW i \in 1 .. n + 1
      PROVE  s[i] = F[s[i - 1]][all[i]]
  <2>1. CASE i = n + 1
    <3>1. s[i - 1] = b /\ i - 1 = n /\ n \in 0 .. n
      BY <1>1, <1>2, <1>7, <2>1
    <3> QED
      BY <1>4, <1>6, <1>7, <2>1, <3>1
  <2>2. CASE i # n + 1
    <3>1. i \in 1 .. n /\ i \in 0 .. n /\ i - 1 \in 0 .. n
      BY <1>1, <2>2
    <3>2. s[i] = r[i] /\ s[i - 1] = r[i - 1] /\ all[i] = bytes[i]
      BY <1>6, <1>7, <3>1
    <3>3. r[i] = F[r[i - 1]][bytes[i]]
      BY <1>2, <3>1
    <3> QED
      BY <3>2, <3>3
  <2> QED
    BY <2>1, <2>2
<1>9. Runs(F, all, a, d)
  BY <1>6, <1>7, <1>8 DEF Runs
<1> QED
  BY <1>3, <1>4, <1>5, <1>9

\* ... and the first one first.
LEMMA RunsTail ==
  ASSUME NEW F, Reader(F), NEW bytes \in Seq(Nat), bytes # <<>>, NEW a, NEW b, Runs(F, bytes, a, b)
  PROVE  /\ Runs(F, Tail(bytes), F[a][Head(bytes)], b)
         /\ a \in Views /\ b \in Views /\ Head(bytes) \in Nat /\ Tail(bytes) \in Seq(Nat)
<1>1. PICK n \in Nat : n = Len(bytes)
  BY LenProperties
<1>2. PICK t : t = Tail(bytes)
  OBVIOUS
<1>3. n # 0 /\ n - 1 \in Nat
  BY <1>1, EmptySeq
<1>4. /\ t \in Seq(Nat) /\ Len(t) = n - 1 /\ Head(bytes) = bytes[1] /\ Head(bytes) \in Nat
      /\ \A i \in 1 .. n - 1 : t[i] = bytes[i + 1]
  BY <1>1, <1>2, HeadTailProperties
<1>5. PICK r : /\ r \in [0 .. n -> Views] /\ r[0] = a /\ r[n] = b
               /\ \A i \in 1 .. n : r[i] = F[r[i - 1]][bytes[i]]
  BY <1>1 DEF Runs
<1>6. a \in Views /\ b \in Views /\ r[1] = F[a][Head(bytes)]
  <2>1. 1 \in 1 .. n /\ 0 \in 0 .. n /\ n \in 0 .. n /\ 1 - 1 = 0
    BY <1>1, <1>3
  <2>2. r[1] = F[r[1 - 1]][bytes[1]]
    BY <1>5, <2>1
  <2> QED
    BY <1>4, <1>5, <2>1, <2>2
<1> DEFINE s == [i \in 0 .. n - 1 |-> r[i + 1]]
<1>7. s \in [0 .. n - 1 -> Views] /\ \A i \in 0 .. n - 1 : s[i] = r[i + 1]
  <2>1. \A i \in 0 .. n - 1 : i + 1 \in 0 .. n
    BY <1>1, <1>3
  <2> QED
    BY <1>5, <2>1
<1> HIDE DEF s
<1>8. s[0] = F[a][Head(bytes)] /\ s[n - 1] = b
  <2>1. 0 \in 0 .. n - 1 /\ n - 1 \in 0 .. n - 1 /\ 0 + 1 = 1 /\ (n - 1) + 1 = n
    BY <1>1, <1>3
  <2>2. s[0] = r[0 + 1] /\ s[n - 1] = r[(n - 1) + 1]
    BY <1>7, <2>1
  <2> QED
    BY <1>5, <1>6, <2>1, <2>2
<1>9. ASSUME NEW i \in 1 .. n - 1
      PROVE  s[i] = F[s[i - 1]][t[i]]
  <2>1. i \in 0 .. n - 1 /\ i - 1 \in 0 .. n - 1 /\ (i - 1) + 1 = i /\ i + 1 \in 1 .. n
        /\ (i + 1) - 1 = i
    BY <1>1, <1>3
  <2>2. s[i] = r[i + 1] /\ s[i - 1] = r[(i - 1) + 1]
    BY <1>7, <2>1
  <2>3. r[i + 1] = F[r[(i + 1) - 1]][bytes[i + 1]]
    BY <1>5, <2>1
  <2>4. t[i] = bytes[i + 1]
    BY <1>4
  <2> QED
    BY <2>1, <2>2, <2>3, <2>4
<1>10. Runs(F, t, F[a][Head(bytes)], b)
  <2>1. Len(t) = n - 1
    BY <1>4
  <2>2. /\ s \in [0 .. Len(t) -> Views] /\ s[0] = F[a][Head(bytes)] /\ s[Len(t)] = b
        /\ \A i \in 1 .. Len(t) : s[i] = F[s[i - 1]][t[i]]
    BY <1>7, <1>8, <1>9, <2>1
  <2> QED
    BY <2>2 DEF Runs
<1> QED
  BY <1>2, <1>4, <1>6, <1>10

\* What has been read is not taken back.
LEMMA GrowsSelf == ASSUME NEW a \in Views PROVE Grows(a, a)
<1>1. a.text \in Seq(Nat) /\ a.negos \in Seq(Nego2)
  BY DEF Views
<1>2. /\ a.text = a.text \o <<>> /\ <<>> \in Seq(Nat)
      /\ a.negos = a.negos \o <<>> /\ <<>> \in Seq(Nego2)
  BY <1>1, ConcatEmptySeq, EmptySeq
<1> QED
  BY <1>2 DEF Grows

\* What grows, and grows on, has grown.
LEMMA GrowsOn ==
  ASSUME NEW a \in Views, NEW b \in Views, NEW c \in Views, Grows(a, b), Grows(b, c)
  PROVE  Grows(a, c)
<1>1. a.text \in Seq(Nat) /\ a.negos \in Seq(Nego2)
  BY DEF Views
<1>2. PICK s \in Seq(Nat), t \in Seq(Nat) : b.text = a.text \o s /\ c.text = b.text \o t
  BY DEF Grows
<1>3. PICK p \in Seq(Nego2), q \in Seq(Nego2) : b.negos = a.negos \o p /\ c.negos = b.negos \o q
  BY DEF Grows
<1>4. c.text = a.text \o (s \o t) /\ s \o t \in Seq(Nat)
  <2>1. PICK d \in Seq(Nat) : d = a.text
    BY <1>1
  <2>2. (d \o s) \o t = d \o (s \o t) /\ s \o t \in Seq(Nat)
    BY ConcatAssociative, ConcatProperties
  <2> QED
    BY <1>2, <2>1, <2>2
<1>5. c.negos = a.negos \o (p \o q) /\ p \o q \in Seq(Nego2)
  <2>1. PICK d \in Seq(Nego2) : d = a.negos
    BY <1>1
  <2>2. (d \o p) \o q = d \o (p \o q) /\ p \o q \in Seq(Nego2)
    BY ConcatAssociative, ConcatProperties
  <2> QED
    BY <1>3, <2>1, <2>2
<1> QED
  BY <1>4, <1>5 DEF Grows

\* Numbers are well-founded: what a set has, it has a least of.
LEMMA LeastNumber ==
  ASSUME NEW T, T \subseteq Nat, T # {}
  PROVE  \E n \in T : \A m \in T : n <= m
<1>1. \E n \in T : \A m \in T : ~ (<<m, n>> \in OpToRel(<, Nat))
  BY WFMin, NatLessThanWellFounded
<1>2. PICK n \in T : \A m \in T : ~ (<<m, n>> \in OpToRel(<, Nat))
  BY <1>1
<1>3. ASSUME NEW m \in T
      PROVE  n <= m
  <2>1. m \in Nat /\ n \in Nat /\ <<m, n>> \in Nat \X Nat
    OBVIOUS
  <2>2. ~ (<<m, n>>[1] < <<m, n>>[2])
    BY <1>2, <2>1, Zenon DEF OpToRel
  <2> QED
    BY <2>1, <2>2
<1> QED
  BY <1>3

\* Over bytes, too.
LEMMA RunsGrow ==
  ASSUME NEW F, Reader(F), NEW bytes \in Seq(Nat), NEW a, NEW b, Runs(F, bytes, a, b)
  PROVE  Grows(a, b) /\ a \in Views /\ b \in Views
<1>1. PICK n \in Nat : n = Len(bytes)
  BY LenProperties
<1>2. PICK r : /\ r \in [0 .. n -> Views] /\ r[0] = a /\ r[n] = b
               /\ \A i \in 1 .. n : r[i] = F[r[i - 1]][bytes[i]]
  BY <1>1 DEF Runs
<1>3. a \in Views /\ b \in Views
  BY <1>1, <1>2
<1> DEFINE T == {i \in 0 .. n : ~ Grows(a, r[i])}
<1>4. SUFFICES ASSUME T # {}
               PROVE  FALSE
  <2>1. n \in 0 .. n
    BY <1>1
  <2> QED
    BY <1>2, <1>3, <1>4, <2>1
<1>5. PICK i \in T : \A j \in T : i <= j
  <2>1. T \subseteq Nat
    OBVIOUS
  <2> QED
    BY <1>4, <2>1, LeastNumber
<1>6. i # 0
  BY <1>2, <1>3, <1>5, GrowsSelf
<1>7. i \in 1 .. n /\ i - 1 \in 0 .. n /\ i - 1 \notin T /\ i \in 0 .. n
  BY <1>1, <1>5, <1>6
<1>8. Grows(a, r[i - 1]) /\ r[i - 1] \in Views /\ r[i] \in Views /\ bytes[i] \in Nat
  BY <1>1, <1>2, <1>7, ElementOfSeq
<1>9. Grows(r[i - 1], r[i])
  <2>1. r[i] = F[r[i - 1]][bytes[i]]
    BY <1>2, <1>7
  <2> QED
    BY <1>8, <2>1 DEF Reader
<1>10. Grows(a, r[i])
  BY <1>3, <1>8, <1>9, GrowsOn
<1> QED
  BY <1>5, <1>10

---------------------------------------------------------------------------
(* What is sent, as it will be read.                                        *)

\* Reading the bytes from a leads to a place in a command or in text, with so much read.
Leads(known, bytes, a, mode, cmd, text, negos) ==
  \E e \in Views : /\ Runs(Reads(known), bytes, a, e)
                   /\ e.mode = mode /\ e.text = text /\ e.negos = negos
                   /\ mode = "option" => e.cmd = cmd

\* One byte more.
LEMMA LeadsOn ==
  ASSUME NEW known \in BOOLEAN, NEW bytes \in Seq(Nat), NEW a, NEW mode, NEW cmd, NEW text, NEW negos,
         Leads(known, bytes, a, mode, cmd, text, negos), NEW b \in Nat
  PROVE  /\ Append(bytes, b) \in Seq(Nat)
         /\ mode = "text" /\ b = IAC =>
              Leads(known, Append(bytes, b), a, "command", 0, text, negos)
         /\ mode = "text" /\ b # IAC =>
              Leads(known, Append(bytes, b), a, "text", 0, Append(text, b), negos)
         /\ mode = "command" /\ b = IAC =>
              Leads(known, Append(bytes, b), a, "text", 0, Append(text, b), negos)
         /\ mode = "command" /\ b = SB => Leads(known, Append(bytes, b), a, "sub", 0, text, negos)
         /\ mode = "command" /\ b \in Verbs =>
              Leads(known, Append(bytes, b), a, "option", b, text, negos)
         /\ mode = "command" /\ b \notin {IAC, SB} \cup Verbs =>
              Leads(known, Append(bytes, b), a, "text", 0, text, negos)
         /\ mode = "option" =>
              Leads(known, Append(bytes, b), a, "text", 0, text, Append(negos, <<cmd, b>>))
         /\ mode = "sub" /\ b = IAC => Leads(known, Append(bytes, b), a, "subend", 0, text, negos)
         /\ mode = "sub" /\ b # IAC /\ ~(b = TerminalType /\ known) =>
              Leads(known, Append(bytes, b), a, "sub", 0, text, negos)
         /\ mode = "sub" /\ b = TerminalType /\ known =>
              Leads(known, Append(bytes, b), a, "type", 0, text, negos)
         /\ mode = "type" => Leads(known, Append(bytes, b), a, "sub", 0, text, negos)
         /\ mode = "subend" /\ b = SE => Leads(known, Append(bytes, b), a, "text", 0, text, negos)
         /\ mode = "subend" /\ b # SE => Leads(known, Append(bytes, b), a, "sub", 0, text, negos)
<1>1. PICK e \in Views : /\ Runs(Reads(known), bytes, a, e)
                         /\ e.mode = mode /\ e.text = text /\ e.negos = negos
                         /\ mode = "option" => e.cmd = cmd
  BY DEF Leads
<1>2. PICK f : f = After(e, b, known)
  OBVIOUS
<1>3. f \in Views /\ Runs(Reads(known), Append(bytes, b), a, f)
  <2>1. Reader(Reads(known))
    BY BothAreReaders
  <2>2. Reads(known)[e][b] = f
    BY <1>2, ReadsAfter
  <2>3. /\ Runs(Reads(known), Append(bytes, b), a, Reads(known)[e][b])
        /\ Reads(known)[e][b] \in Views
    BY <1>1, <2>1, RunsAppend
  <2> QED
    BY <2>2, <2>3
<1>4. \A m, c, t, q :
        f.mode = m /\ f.text = t /\ f.negos = q /\ (m = "option" => f.cmd = c)
          => Leads(known, Append(bytes, b), a, m, c, t, q)
  BY <1>3 DEF Leads
<1>5. e = [mode |-> mode, cmd |-> e.cmd, text |-> text, negos |-> negos]
  BY <1>1 DEF Views
<1>6. Append(bytes, b) \in Seq(Nat)
  BY AppendProperties
<1> DEFINE L(m, c, t, q) == Leads(known, Append(bytes, b), a, m, c, t, q)
<1>7. \A m, c, t, q :
        f.mode = m /\ f.text = t /\ f.negos = q /\ (m = "option" => f.cmd = c) => L(m, c, t, q)
  BY <1>4
<1> HIDE DEF L
<1>8. mode = "text" => (b = IAC => L("command", 0, text, negos))
                       /\ (b # IAC => L("text", 0, Append(text, b), negos))
  <2> SUFFICES ASSUME mode = "text"
               PROVE  /\ b = IAC => L("command", 0, text, negos)
                      /\ b # IAC => L("text", 0, Append(text, b), negos)
    OBVIOUS
  <2>1. f = AfterText(e, b)
    BY <1>1, <1>2 DEF After
  <2>2. b = IAC => f.mode = "command" /\ f.text = text /\ f.negos = negos
    BY <1>5, <2>1 DEF AfterText
  <2>3. b # IAC => f.mode = "text" /\ f.text = Append(text, b) /\ f.negos = negos
    BY <1>1, <1>5, <2>1 DEF AfterText
  <2> QED
    BY <1>7, <2>2, <2>3
<1>9. mode = "command" => (b = IAC => L("text", 0, Append(text, b), negos))
                          /\ (b = SB => L("sub", 0, text, negos))
                          /\ (b \in Verbs => L("option", b, text, negos))
                          /\ (b \notin {IAC, SB} \cup Verbs => L("text", 0, text, negos))
  <2> SUFFICES ASSUME mode = "command"
               PROVE  /\ b = IAC => L("text", 0, Append(text, b), negos)
                      /\ b = SB => L("sub", 0, text, negos)
                      /\ b \in Verbs => L("option", b, text, negos)
                      /\ b \notin {IAC, SB} \cup Verbs => L("text", 0, text, negos)
    OBVIOUS
  <2>1. f = AfterCommand(e, b)
    BY <1>1, <1>2 DEF After
  <2>2. IAC \notin Verbs /\ SB \notin Verbs /\ IAC # SB
    BY DEF Verbs, WILL, WONT, DO, DONT, IAC, SB
  <2>3. b = IAC => f.mode = "text" /\ f.text = Append(text, b) /\ f.negos = negos
    BY <1>1, <1>5, <2>1 DEF AfterCommand
  <2>4. b = SB => f.mode = "sub" /\ f.text = text /\ f.negos = negos
    BY <1>5, <2>1, <2>2 DEF AfterCommand
  <2>5. b \in Verbs => f.mode = "option" /\ f.text = text /\ f.negos = negos /\ f.cmd = b
    BY <1>5, <2>1, <2>2 DEF AfterCommand
  <2>6. b \notin {IAC, SB} \cup Verbs => f.mode = "text" /\ f.text = text /\ f.negos = negos
    BY <1>5, <2>1 DEF AfterCommand
  <2> QED
    BY <1>7, <2>3, <2>4, <2>5, <2>6
<1>10. mode = "option" => L("text", 0, text, Append(negos, <<cmd, b>>))
  BY <1>1, <1>2, <1>5, <1>7 DEF After, AfterOption
<1>11. mode = "sub" => (b = IAC => L("subend", 0, text, negos))
                       /\ (b # IAC /\ ~(b = TerminalType /\ known) => L("sub", 0, text, negos))
                       /\ (b = TerminalType /\ known => L("type", 0, text, negos))
  BY <1>2, <1>5, <1>7 DEF After, AfterSub, TerminalType, IAC
<1>12. mode = "type" => L("sub", 0, text, negos)
  BY <1>2, <1>5, <1>7 DEF After
<1>13. mode = "subend" => (b = SE => L("text", 0, text, negos))
                          /\ (b # SE => L("sub", 0, text, negos))
  BY <1>2, <1>5, <1>7 DEF After, AfterSubEnd
<1> QED
  BY <1>6, <1>8, <1>9, <1>10, <1>11, <1>12, <1>13 DEF L

\* Bytes one after the other.
LEMMA BytesConcat ==
  ASSUME NEW s \in Seq(Nat), NEW t \in Seq(Nat)
  PROVE  s \o t \in Seq(Nat)
  BY ConcatProperties

\* Bytes after bytes after bytes.
LEMMA BytesJoined ==
  ASSUME NEW s \in Seq(Nat), NEW t \in Seq(Nat), NEW u \in Seq(Nat)
  PROVE  (s \o t) \o u = s \o (t \o u)
  BY ConcatAssociative

\* A byte more at the end of the second is a byte more at the end of both.
LEMMA ByteByByte ==
  ASSUME NEW s \in Seq(Nat), NEW t \in Seq(Nat), NEW b \in Nat
  PROVE  /\ s \o Append(t, b) = Append(s \o t, b) /\ s \o t \in Seq(Nat) /\ Append(t, b) \in Seq(Nat)
         /\ s \o <<b>> = Append(s, b)
<1>1. Append(t, b) = t \o <<b>> /\ <<b>> \in Seq(Nat) /\ Append(t, b) \in Seq(Nat)
  BY AppendIsConcat, AppendProperties
<1>2. PICK u \in Seq(Nat) : u = s \o t
  BY ConcatProperties
<1>3. Append(u, b) = u \o <<b>> /\ s \o <<b>> = Append(s, b)
  BY AppendIsConcat
<1>5. PICK v : v = <<b>>
  OBVIOUS
<1>4. (s \o t) \o <<b>> = s \o (t \o <<b>>)
  BY <1>1, <1>5, BytesJoined
<1> QED
  BY <1>1, <1>2, <1>3, <1>4

\* Two and three bytes more, one after the other.
LEMMA TwoBytes ==
  ASSUME NEW s \in Seq(Nat), NEW x \in Nat, NEW y \in Nat
  PROVE  s \o <<x, y>> = Append(Append(s, x), y) /\ s \o <<x, y>> \in Seq(Nat)
<1>1. <<x>> \in Seq(Nat) /\ <<x, y>> = Append(<<x>>, y) /\ <<x, y>> \in Seq(Nat)
  OBVIOUS
<1>2. s \o Append(<<x>>, y) = Append(s \o <<x>>, y) /\ s \o <<x>> = Append(s, x)
  BY <1>1, ByteByByte
<1>3. s \o <<x, y>> \in Seq(Nat)
  BY <1>1, ConcatProperties
<1> QED
  BY <1>1, <1>2, <1>3

\* Three bytes at once are three bytes one by one.
LEMMA ThreeBytes ==
  ASSUME NEW s \in Seq(Nat), NEW x \in Nat, NEW y \in Nat, NEW z \in Nat
  PROVE  /\ s \o <<x, y, z>> = Append(Append(Append(s, x), y), z)
         /\ s \o <<x, y, z>> \in Seq(Nat) /\ <<x, y, z>> \in Seq(Nat)
<1>1. <<x, y>> \in Seq(Nat) /\ <<x, y, z>> = Append(<<x, y>>, z) /\ <<x, y, z>> \in Seq(Nat)
  OBVIOUS
<1>2. s \o Append(<<x, y>>, z) = Append(s \o <<x, y>>, z) /\ s \o <<x, y>> = Append(Append(s, x), y)
  BY <1>1, ByteByByte, TwoBytes
<1>3. s \o <<x, y, z>> \in Seq(Nat)
  BY <1>1, ConcatProperties
<1> QED
  BY <1>1, <1>2, <1>3

\* A tuple is a shorter one with one element more.
LEMMA AppendTo2 ==
  ASSUME NEW u \in Nat, NEW v \in Nat, NEW w \in Nat
  PROVE  <<u, v, w>> = Append(<<u, v>>, w)
  OBVIOUS

\* A fourth byte behind three.
LEMMA AppendTo3 ==
  ASSUME NEW u \in Nat, NEW v \in Nat, NEW w \in Nat, NEW x \in Nat
  PROVE  <<u, v, w, x>> = Append(<<u, v, w>>, x)
  OBVIOUS

\* A command about an option is read as this command.
LEMMA LeadsNego ==
  ASSUME NEW known \in BOOLEAN, NEW bytes \in Seq(Nat), NEW a, NEW text, NEW negos,
         Leads(known, bytes, a, "text", 0, text, negos), NEW c \in Verbs, NEW o \in Nat
  PROVE  Leads(known, bytes \o Nego(c, o), a, "text", 0, text, Append(negos, <<c, o>>))
<1>1. IAC \in Nat /\ c \in Nat
  BY DEF IAC, Verbs, WILL, WONT, DO, DONT
<1>2. PICK b1 : b1 = Append(bytes, IAC)
  OBVIOUS
<1>3. b1 \in Seq(Nat) /\ Leads(known, b1, a, "command", 0, text, negos)
  BY <1>1, <1>2, LeadsOn
<1>4. PICK b2 : b2 = Append(b1, c)
  OBVIOUS
<1>5. b2 \in Seq(Nat) /\ Leads(known, b2, a, "option", c, text, negos)
  BY <1>1, <1>3, <1>4, LeadsOn
<1>6. Leads(known, Append(b2, o), a, "text", 0, text, Append(negos, <<c, o>>))
  BY <1>5, LeadsOn
<1>7. bytes \o Nego(c, o) = Append(b2, o)
  BY <1>1, <1>2, <1>4, ThreeBytes DEF Nego
<1> QED
  BY <1>6, <1>7

\* A byte of text, doubled if it is IAC, is read as this byte.
LEMMA LeadsText ==
  ASSUME NEW known \in BOOLEAN, NEW bytes \in Seq(Nat), NEW a, NEW text, NEW negos,
         Leads(known, bytes, a, "text", 0, text, negos), NEW b \in Nat
  PROVE  /\ Leads(known, bytes \o SendSeg(b), a, "text", 0, Append(text, b), negos)
         /\ bytes \o SendSeg(b) \in Seq(Nat)
<1>1. CASE b # IAC
  <2>1. SendSeg(b) = <<b>>
    BY <1>1 DEF SendSeg
  <2>2. bytes \o <<b>> = Append(bytes, b) /\ Append(bytes, b) \in Seq(Nat)
    BY ByteByByte, AppendProperties
  <2> QED
    BY <1>1, <2>1, <2>2, LeadsOn
<1>2. CASE b = IAC
  <2>1. PICK b1 : b1 = Append(bytes, b)
    OBVIOUS
  <2>2. b1 \in Seq(Nat) /\ Leads(known, b1, a, "command", 0, text, negos)
    BY <1>2, <2>1, LeadsOn
  <2>3. Leads(known, Append(b1, b), a, "text", 0, Append(text, b), negos)
    BY <1>2, <2>2, LeadsOn
  <2>4. SendSeg(b) = <<b, b>>
    BY <1>2 DEF SendSeg
  <2>5. bytes \o <<b, b>> = Append(b1, b) /\ bytes \o <<b, b>> \in Seq(Nat)
    BY <2>1, TwoBytes
  <2> QED
    BY <2>3, <2>4, <2>5
<1> QED
  BY <1>1, <1>2

\* A command without an option is nothing of either.
LEMMA LeadsPlain ==
  ASSUME NEW known \in BOOLEAN, NEW bytes \in Seq(Nat), NEW a, NEW text, NEW negos,
         Leads(known, bytes, a, "text", 0, text, negos), NEW c \in 241 .. 249
  PROVE  /\ Leads(known, bytes \o <<IAC, c>>, a, "text", 0, text, negos)
         /\ bytes \o <<IAC, c>> \in Seq(Nat)
<1>1. IAC \in Nat /\ c \in Nat /\ c \notin {IAC, SB} \cup Verbs
  BY DEF IAC, SB, Verbs, WILL, WONT, DO, DONT
<1>2. PICK b1 : b1 = Append(bytes, IAC)
  OBVIOUS
<1>3. b1 \in Seq(Nat) /\ Leads(known, b1, a, "command", 0, text, negos)
  BY <1>1, <1>2, LeadsOn
<1>4. Leads(known, Append(b1, c), a, "text", 0, text, negos)
  BY <1>1, <1>3, LeadsOn
<1>5. bytes \o <<IAC, c>> = Append(b1, c) /\ bytes \o <<IAC, c>> \in Seq(Nat)
  BY <1>1, <1>2, TwoBytes
<1> QED
  BY <1>4, <1>5

\* A subnegotiation begins, has bytes as its data, which may be IAC twice ...
LEMMA LeadsBegin ==
  ASSUME NEW known \in BOOLEAN, NEW bytes \in Seq(Nat), NEW a, NEW text, NEW negos,
         Leads(known, bytes, a, "text", 0, text, negos), NEW o \in Nat, o # IAC
  PROVE  LET b == bytes \o <<IAC, SB, o>>
         IN /\ b \in Seq(Nat)
            /\ Leads(known, b, a, IF known /\ o = TerminalType THEN "type" ELSE "sub", 0, text, negos)
<1>1. IAC \in Nat /\ SB \in Nat
  BY DEF IAC, SB
<1>2. PICK b1 : b1 = Append(bytes, IAC)
  OBVIOUS
<1>3. b1 \in Seq(Nat) /\ Leads(known, b1, a, "command", 0, text, negos)
  BY <1>1, <1>2, LeadsOn
<1>4. PICK b2 : b2 = Append(b1, SB)
  OBVIOUS
<1>5. b2 \in Seq(Nat) /\ Leads(known, b2, a, "sub", 0, text, negos)
  BY <1>1, <1>3, <1>4, LeadsOn
<1>6. Leads(known, Append(b2, o), a, IF known /\ o = TerminalType THEN "type" ELSE "sub", 0, text, negos)
  BY <1>5, LeadsOn
<1>7. bytes \o <<IAC, SB, o>> = Append(b2, o) /\ bytes \o <<IAC, SB, o>> \in Seq(Nat)
  BY <1>1, <1>2, <1>4, ThreeBytes
<1> QED
  BY <1>6, <1>7

\* A byte of a subnegotiation, and IAC in it, doubled or with SE at its end.
LEMMA LeadsData ==
  ASSUME NEW known \in BOOLEAN, NEW bytes \in Seq(Nat), NEW a, NEW mode \in {"sub", "type"},
         NEW text, NEW negos, Leads(known, bytes, a, mode, 0, text, negos), NEW b \in Nat,
         mode = "sub" => b # IAC /\ ~(known /\ b = TerminalType)
  PROVE  Leads(known, Append(bytes, b), a, "sub", 0, text, negos) /\ Append(bytes, b) \in Seq(Nat)
  BY LeadsOn

\* Inside a subnegotiation a doubled IAC is data, and IAC SE ends it.
LEMMA LeadsDoubled ==
  ASSUME NEW known \in BOOLEAN, NEW bytes \in Seq(Nat), NEW a, NEW text, NEW negos,
         Leads(known, bytes, a, "sub", 0, text, negos)
  PROVE  /\ Leads(known, bytes \o <<IAC, IAC>>, a, "sub", 0, text, negos)
         /\ bytes \o <<IAC, IAC>> \in Seq(Nat)
         /\ Leads(known, bytes \o <<IAC, SE>>, a, "text", 0, text, negos)
         /\ bytes \o <<IAC, SE>> \in Seq(Nat)
<1>1. IAC \in Nat /\ SE \in Nat /\ SE # IAC
  BY DEF IAC, SE
<1>2. PICK b1 : b1 = Append(bytes, IAC)
  OBVIOUS
<1>3. b1 \in Seq(Nat) /\ Leads(known, b1, a, "subend", 0, text, negos)
  BY <1>1, <1>2, LeadsOn
<1>4. /\ Leads(known, Append(b1, IAC), a, "sub", 0, text, negos)
      /\ Leads(known, Append(b1, SE), a, "text", 0, text, negos)
  BY <1>1, <1>3, LeadsOn
<1>5. /\ bytes \o <<IAC, IAC>> = Append(b1, IAC) /\ bytes \o <<IAC, IAC>> \in Seq(Nat)
      /\ bytes \o <<IAC, SE>> = Append(b1, SE) /\ bytes \o <<IAC, SE>> \in Seq(Nat)
  BY <1>1, <1>2, TwoBytes
<1> QED
  BY <1>4, <1>5

\* ... and ends: it is nothing of the text, and no command about an option.
LEMMA LeadsSubNego ==
  ASSUME NEW known \in BOOLEAN, NEW bytes \in Seq(Nat), NEW a, NEW text, NEW negos,
         NEW o \in Nat, NEW data \in Seq(Nat),
         Leads(known, (bytes \o <<IAC, SB, o>>) \o data, a, "sub", 0, text, negos)
  PROVE  Leads(known, bytes \o SubNego(data, o), a, "text", 0, text, negos)
<1>1. IAC \in Nat /\ SE \in Nat /\ SB \in Nat
  BY DEF IAC, SE, SB
<1>2. PICK x : x = <<IAC, SB, o>>
  OBVIOUS
<1>3. PICK z : z = <<IAC, SE>>
  OBVIOUS
<1>8. x \in Seq(Nat) /\ z \in Seq(Nat)
  BY <1>1, <1>2, <1>3
<1>4. PICK d : d = (bytes \o x) \o data
  OBVIOUS
<1>9. d \in Seq(Nat)
  BY <1>4, <1>8, BytesConcat
<1>5. Leads(known, d \o z, a, "text", 0, text, negos)
  BY <1>2, <1>3, <1>4, <1>9, LeadsDoubled
<1>6. d \o z = bytes \o ((x \o data) \o z)
  <2>1. PICK y : y = x \o data
    OBVIOUS
  <2>2. d = bytes \o y /\ y \in Seq(Nat)
    BY <1>4, <1>8, <2>1, BytesJoined, BytesConcat
  <2>3. (bytes \o y) \o z = bytes \o (y \o z)
    <3>1. y \in Seq(Nat)
      BY <2>2
    <3>2. z \in Seq(Nat)
      BY <1>8
    <3> HIDE <2>1, <2>2, <1>8, <1>9
    <3> QED
      BY <3>1, <3>2, BytesJoined
  <2> QED
    BY <2>1, <2>2, <2>3
<1> QED
  BY <1>2, <1>3, <1>5, <1>6 DEF SubNego

\* Six bytes of a subnegotiation, as many as the name of the terminal has.
LEMMA LeadsSix ==
  ASSUME NEW b \in Seq(Nat), NEW a, NEW text, NEW negos,
         Leads(FALSE, b, a, "sub", 0, text, negos),
         NEW k1 \in Nat, NEW k2 \in Nat, NEW k3 \in Nat, NEW k4 \in Nat, NEW k5 \in Nat, NEW k6 \in Nat,
         k1 < 255, k2 < 255, k3 < 255, k4 < 255, k5 < 255, k6 < 255
  PROVE  Leads(FALSE, b \o <<k1, k2, k3, k4, k5, k6>>, a, "sub", 0, text, negos)
<1> DEFINE L(s) == Leads(FALSE, b \o s, a, "sub", 0, text, negos)
<1>0. k1 # IAC /\ k2 # IAC /\ k3 # IAC /\ k4 # IAC /\ k5 # IAC /\ k6 # IAC
  BY DEF IAC
<1>10. \A s \in Seq(Nat), c \in Nat : c # IAC /\ L(s) => L(Append(s, c)) /\ Append(s, c) \in Seq(Nat)
  <2>1. SUFFICES ASSUME NEW s \in Seq(Nat), NEW c \in Nat, c # IAC, L(s)
                 PROVE  L(Append(s, c)) /\ Append(s, c) \in Seq(Nat)
    OBVIOUS
  <2>2. b \o s \in Seq(Nat)
    BY BytesConcat
  <2>3. Leads(FALSE, Append(b \o s, c), a, "sub", 0, text, negos)
    BY <2>1, <2>2, LeadsData
  <2>4. b \o Append(s, c) = Append(b \o s, c) /\ Append(s, c) \in Seq(Nat)
    BY ByteByByte
  <2> QED
    BY <2>3, <2>4
<1> HIDE DEF L
<1>12. \A s \in Seq(Nat) : L(s) => L(Append(s, k2)) /\ Append(s, k2) \in Seq(Nat)
  BY <1>0, <1>10
<1>13. \A s \in Seq(Nat) : L(s) => L(Append(s, k3)) /\ Append(s, k3) \in Seq(Nat)
  BY <1>0, <1>10
<1>14. \A s \in Seq(Nat) : L(s) => L(Append(s, k4)) /\ Append(s, k4) \in Seq(Nat)
  BY <1>0, <1>10
<1>15. \A s \in Seq(Nat) : L(s) => L(Append(s, k5)) /\ Append(s, k5) \in Seq(Nat)
  BY <1>0, <1>10
<1>16. \A s \in Seq(Nat) : L(s) => L(Append(s, k6)) /\ Append(s, k6) \in Seq(Nat)
  BY <1>0, <1>10
<1>1. <<k1>> \in Seq(Nat) /\ L(<<k1>>)
  <2>1. Append(b, k1) = b \o <<k1>>
    BY ByteByByte
  <2>2. Leads(FALSE, Append(b, k1), a, "sub", 0, text, negos)
    BY <1>0, LeadsData
  <2>3. L(<<k1>>)
    BY <2>1, <2>2, Zenon DEF L
  <2>4. <<k1>> \in Seq(Nat)
    OBVIOUS
  <2> QED
    BY <2>3, <2>4, Zenon
<1>2. <<k1, k2>> \in Seq(Nat) /\ L(<<k1, k2>>)
  <2>1. <<k1, k2>> = Append(<<k1>>, k2)
    OBVIOUS
  <2>2. L(Append(<<k1>>, k2)) /\ Append(<<k1>>, k2) \in Seq(Nat)
    BY <1>1, <1>12, Zenon
  <2> QED
    BY <2>1, <2>2, Zenon
<1>3. <<k1, k2, k3>> \in Seq(Nat) /\ L(<<k1, k2, k3>>)
  <2>1. <<k1, k2, k3>> = Append(<<k1, k2>>, k3)
    OBVIOUS
  <2>2. L(Append(<<k1, k2>>, k3)) /\ Append(<<k1, k2>>, k3) \in Seq(Nat)
    BY <1>2, <1>13, Zenon
  <2> QED
    BY <2>1, <2>2, Zenon
<1>4. <<k1, k2, k3, k4>> \in Seq(Nat) /\ L(<<k1, k2, k3, k4>>)
  <2>1. <<k1, k2, k3, k4>> = Append(<<k1, k2, k3>>, k4)
    OBVIOUS
  <2>2. L(Append(<<k1, k2, k3>>, k4)) /\ Append(<<k1, k2, k3>>, k4) \in Seq(Nat)
    BY <1>3, <1>14, Zenon
  <2> QED
    BY <2>1, <2>2, Zenon
<1>5. <<k1, k2, k3, k4, k5>> \in Seq(Nat) /\ L(<<k1, k2, k3, k4, k5>>)
  <2>1. <<k1, k2, k3, k4, k5>> = Append(<<k1, k2, k3, k4>>, k5)
    OBVIOUS
  <2>2. L(Append(<<k1, k2, k3, k4>>, k5)) /\ Append(<<k1, k2, k3, k4>>, k5) \in Seq(Nat)
    BY <1>4, <1>15, Zenon
  <2> QED
    BY <2>1, <2>2, Zenon
<1>6. <<k1, k2, k3, k4, k5, k6>> \in Seq(Nat) /\ L(<<k1, k2, k3, k4, k5, k6>>)
  <2>1. <<k1, k2, k3, k4, k5, k6>> = Append(<<k1, k2, k3, k4, k5>>, k6)
    OBVIOUS
  <2>2. L(Append(<<k1, k2, k3, k4, k5>>, k6)) /\ Append(<<k1, k2, k3, k4, k5>>, k6) \in Seq(Nat)
    BY <1>5, <1>16, Zenon
  <2> QED
    BY <2>1, <2>2, Zenon
<1> QED
  BY <1>6 DEF L

\* The question for the terminal's type, as the parser reads it; the answer, as the host
\* does.
LEMMA LeadsType ==
  ASSUME NEW bytes \in Seq(Nat), NEW a, NEW text, NEW negos
  PROVE  /\ Leads(TRUE, bytes, a, "text", 0, text, negos) =>
              Leads(TRUE, bytes \o SubNego(<<TypeSend>>, TerminalType), a, "text", 0, text, negos)
         /\ Leads(FALSE, bytes, a, "text", 0, text, negos) =>
              Leads(FALSE, bytes \o SubNego(TypeName, TerminalType), a, "text", 0, text, negos)
         /\ SubNego(<<TypeSend>>, TerminalType) \in Seq(Nat)
         /\ SubNego(TypeName, TerminalType) \in Seq(Nat)
<1>1. TerminalType \in Nat /\ TerminalType # IAC
  BY DEF TerminalType, IAC
<1>2. PICK b : b = bytes \o <<IAC, SB, TerminalType>>
  OBVIOUS
<1>7. b \in Seq(Nat) /\ IAC \in Nat /\ SB \in Nat
  <2>1. IAC \in Nat /\ SB \in Nat
    BY DEF IAC, SB
  <2> QED
    BY <1>1, <1>2, <2>1, ThreeBytes
<1>3. ASSUME Leads(TRUE, bytes, a, "text", 0, text, negos)
      PROVE  Leads(TRUE, bytes \o SubNego(<<TypeSend>>, TerminalType), a, "text", 0, text, negos)
  <2>1. Leads(TRUE, b, a, "type", 0, text, negos)
    BY <1>1, <1>2, <1>3, LeadsBegin
  <2>2. TypeSend \in Nat /\ <<TypeSend>> \in Seq(Nat)
    BY DEF TypeSend
  <2>3. Leads(TRUE, Append(b, TypeSend), a, "sub", 0, text, negos)
    BY <1>7, <2>1, <2>2, LeadsData
  <2>4. b \o <<TypeSend>> = Append(b, TypeSend)
    BY <1>7, <2>2, ByteByByte
  <2> QED
    BY <1>1, <1>2, <2>2, <2>3, <2>4, LeadsSubNego
<1>4. ASSUME Leads(FALSE, bytes, a, "text", 0, text, negos)
      PROVE  Leads(FALSE, bytes \o SubNego(TypeName, TerminalType), a, "text", 0, text, negos)
  <2>1. Leads(FALSE, b, a, "sub", 0, text, negos)
    BY <1>1, <1>2, <1>4, LeadsBegin
  <2>2. TypeIs \in Nat /\ TypeIs < 255
    BY DEF TypeIs
  <2>3. PICK k1 \in Nat, k2 \in Nat, k3 \in Nat, k4 \in Nat, k5 \in Nat, k6 \in Nat :
          k1 = TypeIs /\ k2 = 88 /\ k3 = 84 /\ k4 = 69 /\ k5 = 82 /\ k6 = 77
    BY <2>2
  <2>4. k1 < 255 /\ k2 < 255 /\ k3 < 255 /\ k4 < 255 /\ k5 < 255 /\ k6 < 255
    BY <2>2, <2>3
  <2>5. TypeName = <<k1, k2, k3, k4, k5, k6>>
    BY <2>3 DEF TypeName
  <2>6. Leads(FALSE, b \o <<k1, k2, k3, k4, k5, k6>>, a, "sub", 0, text, negos)
    BY <1>7, <2>1, <2>4, LeadsSix
  <2>7. TypeName \in Seq(Nat)
    BY <2>5
  <2> QED
    BY <1>1, <1>2, <2>5, <2>6, <2>7, LeadsSubNego
<1>5. SubNego(<<TypeSend>>, TerminalType) \in Seq(Nat)
  BY DEF SubNego, TypeSend, TerminalType, IAC, SB, SE
<1>6. SubNego(TypeName, TerminalType) \in Seq(Nat)
  BY DEF SubNego, TypeName, TypeIs, TerminalType, IAC, SB, SE
<1> QED
  BY <1>3, <1>4, <1>5, <1>6

\* A size: IAC is in none of its bytes, or it is the one before any was known, and all are.
SizeBytes(d) == <<d.cols \div 256, d.cols % 256, d.rows \div 256, d.rows % 256>>

NoSize == [cols |-> 65535, rows |-> 65535]
Sizes == [cols : Cols, rows : Rows] \cup {NoSize}

\* A size that is reported takes the host back to text.
LEMMA LeadsSize ==
  ASSUME SizesWithoutIAC, NEW d \in Sizes, NEW bytes \in Seq(Nat), NEW a, NEW text, NEW negos,
         Leads(FALSE, bytes, a, "text", 0, text, negos)
  PROVE  /\ Leads(FALSE, bytes \o SubNego(SizeBytes(d), NAWS), a, "text", 0, text, negos)
         /\ SubNego(SizeBytes(d), NAWS) \in Seq(Nat)
<1>1. NAWS \in Nat /\ NAWS # IAC /\ ~(FALSE /\ NAWS = TerminalType)
  BY DEF NAWS, IAC
<1>10. d \in [cols : Cols, rows : Rows] \/ d = NoSize
  BY Zenon DEF Sizes
<1>2. PICK b : b = bytes \o <<IAC, SB, NAWS>>
  OBVIOUS
<1>9. b \in Seq(Nat) /\ IAC \in Nat
  <2>1. IAC \in Nat /\ SB \in Nat
    BY DEF IAC, SB
  <2> QED
    BY <1>1, <1>2, <2>1, ThreeBytes
<1>3. Leads(FALSE, b, a, "sub", 0, text, negos)
  BY <1>1, <1>2, LeadsBegin
<1>4. PICK w, x, y, z : w = d.cols \div 256 /\ x = d.cols % 256 /\ y = d.rows \div 256 /\ z = d.rows % 256
  OBVIOUS
<1>5. w \in Nat /\ x \in Nat /\ y \in Nat /\ z \in Nat
  <2>1. d.cols \in Nat /\ d.rows \in Nat
    <3>1. Cols \subseteq Nat /\ Rows \subseteq Nat
      BY TelnetAssumption
    <3>2. CASE d \in [cols : Cols, rows : Rows]
      BY <3>1, <3>2
    <3>3. CASE d = NoSize
      BY <3>3 DEF NoSize
    <3> QED
      BY <1>10, <3>2, <3>3, Zenon
  <2>2. \A n \in Nat : n \div 256 \in Nat /\ n % 256 \in Nat
    OBVIOUS
  <2> QED
    BY <1>4, <2>1, <2>2, Zenon
<1>8. SubNego(SizeBytes(d), NAWS) \in Seq(Nat)
  <2>1. <<w, x, y, z>> \in Seq(Nat) /\ <<IAC, SB, NAWS>> \in Seq(Nat) /\ <<IAC, SE>> \in Seq(Nat)
    BY <1>5 DEF IAC, SB, NAWS, SE
  <2> QED
    BY <1>4, <2>1, ConcatProperties DEF SubNego, SizeBytes
<1>6. CASE d \in [cols : Cols, rows : Rows]
  <2>1. w # IAC /\ x # IAC /\ y # IAC /\ z # IAC
    BY <1>4, <1>6 DEF SizesWithoutIAC
  <2>2. PICK b1 : b1 = Append(b, w)
    OBVIOUS
  <2>3. Leads(FALSE, b1, a, "sub", 0, text, negos) /\ b1 \in Seq(Nat)
    BY <1>3, <1>5, <1>9, <2>1, <2>2, LeadsData
  <2>4. PICK b2 : b2 = Append(b1, x)
    OBVIOUS
  <2>5. Leads(FALSE, b2, a, "sub", 0, text, negos) /\ b2 \in Seq(Nat)
    BY <1>5, <2>1, <2>3, <2>4, LeadsData
  <2>6. PICK b3 : b3 = Append(b2, y)
    OBVIOUS
  <2>7. Leads(FALSE, b3, a, "sub", 0, text, negos) /\ b3 \in Seq(Nat)
    BY <1>5, <2>1, <2>5, <2>6, LeadsData
  <2>8. Leads(FALSE, Append(b3, z), a, "sub", 0, text, negos)
    BY <1>5, <2>1, <2>7, LeadsData
  <2>9. b \o <<w, x, y, z>> = Append(b3, z) /\ <<w, x, y, z>> \in Seq(Nat)
    <3>1. b \o <<w, x, y>> = b3 /\ <<w, x, y>> \in Seq(Nat)
      BY <1>5, <1>9, <2>2, <2>4, <2>6, ThreeBytes
    <3>2. <<w, x, y, z>> = Append(<<w, x, y>>, z) /\ <<w, x, y, z>> \in Seq(Nat)
      BY <1>5
    <3>3. b \o Append(<<w, x, y>>, z) = Append(b \o <<w, x, y>>, z)
      <4>1. PICK t : t = <<w, x, y>>
        OBVIOUS
      <4>2. b \o Append(t, z) = Append(b \o t, z)
        BY <1>5, <1>9, <3>1, <4>1, ByteByByte
      <4> QED
        BY <4>1, <4>2
    <3> QED
      BY <3>1, <3>2, <3>3
  <2>10. Leads(FALSE, bytes \o SubNego(<<w, x, y, z>>, NAWS), a, "text", 0, text, negos)
    BY <1>1, <1>2, <2>8, <2>9, LeadsSubNego
  <2>11. SizeBytes(d) = <<w, x, y, z>>
    BY <1>4 DEF SizeBytes
  <2> QED
    BY <1>8, <2>10, <2>11, Zenon
<1>7. CASE d = NoSize
  <2>1. w = IAC /\ x = IAC /\ y = IAC /\ z = IAC
    BY <1>4, <1>7 DEF IAC, NoSize
  <2>8. IAC \in Nat
    BY DEF IAC
  <2>2. PICK e : e = <<IAC, IAC>>
    OBVIOUS
  <2>9. e \in Seq(Nat)
    BY <2>2, <2>8
  <2>3. Leads(FALSE, b \o e, a, "sub", 0, text, negos) /\ b \o e \in Seq(Nat)
    BY <1>3, <1>9, <2>2, LeadsDoubled
  <2>4. Leads(FALSE, (b \o e) \o e, a, "sub", 0, text, negos)
    BY <2>2, <2>3, LeadsDoubled
  <2>5. (b \o e) \o e = b \o (e \o e)
    BY <1>9, <2>9, BytesJoined
  <2>6. e \o e = <<w, x, y, z>> /\ <<w, x, y, z>> \in Seq(Nat)
    <3>1. e \o <<IAC, IAC>> = Append(Append(e, IAC), IAC)
      BY <2>8, <2>9, TwoBytes
    <3>2. /\ <<IAC, IAC, IAC>> = Append(<<IAC, IAC>>, IAC)
          /\ <<IAC, IAC, IAC, IAC>> = Append(<<IAC, IAC, IAC>>, IAC)
      BY <2>8, AppendTo2, AppendTo3
    <3>3. e \o e = <<IAC, IAC, IAC, IAC>>
      BY <2>2, <3>1, <3>2, Zenon
    <3>5. e \o e = <<w, x, y, z>>
      BY <2>1, <3>3, Zenon
    <3> QED
      BY <1>5, <3>5
  <2>7. Leads(FALSE, bytes \o SubNego(<<w, x, y, z>>, NAWS), a, "text", 0, text, negos)
    BY <1>1, <1>2, <2>4, <2>5, <2>6, LeadsSubNego
  <2>10. SizeBytes(d) = <<w, x, y, z>>
    BY <1>4 DEF SizeBytes
  <2> QED
    BY <1>8, <2>7, <2>10, Zenon
<1> QED
  BY <1>6, <1>7, <1>10, Zenon

---------------------------------------------------------------------------
(* Where a reader is, and what is on its way to him, up to the end of it.   *)

\* From (mode, cmd, text) the bytes lead to text that is whole, and bring the commands.
Ahead(known, bytes, mode, cmd, text, whole, negos) ==
  \E s \in Seq(Nego2) :
    Leads(known, bytes, [mode |-> mode, cmd |-> cmd, text |-> text, negos |-> s],
          "text", 0, whole, s \o negos)

\* The end of the text is its beginning with more.
Begins(s, t) == \E more \in Seq(Nat) : t = s \o more

\* Commands after commands, and one more.
LEMMA NegosJoined ==
  ASSUME NEW s \in Seq(Nego2), NEW t \in Seq(Nego2), NEW n \in Nego2
  PROVE  /\ Append(s \o t, n) = s \o Append(t, n) /\ Append(t, n) \in Seq(Nego2)
         /\ s \o t \in Seq(Nego2)
<1>1. PICK u : u = s \o t
  OBVIOUS
<1>2. u \in Seq(Nego2)
  BY <1>1, ConcatProperties
<1>3. PICK v : v = <<n>>
  OBVIOUS
<1>4. v \in Seq(Nego2)
  BY <1>3
<1>5. Append(u, n) = u \o v /\ Append(t, n) = t \o v
  BY <1>2, <1>3, AppendIsConcat
<1>6. (s \o t) \o v = s \o (t \o v)
  BY <1>4, ConcatAssociative
<1>7. Append(t, n) \in Seq(Nego2)
  BY AppendProperties
<1> QED
  BY <1>1, <1>2, <1>5, <1>6, <1>7, Zenon

\* After the same commands, what makes the same whole is the same.
LEMMA NegosCancel ==
  ASSUME NEW s \in Seq(Nego2), NEW t \in Seq(Nego2), NEW u \in Seq(Nego2), s \o t = s \o u
  PROVE  t = u
  BY ConcatSimplifications

\* A command that is the first of those to come.
LEMMA NegosFirst ==
  ASSUME NEW s \in Seq(Nego2), NEW t \in Seq(Nego2), NEW n \in Nego2, NEW more \in Seq(Nego2),
         s \o t = Append(s, n) \o more
  PROVE  t # <<>> /\ Head(t) = n /\ Tail(t) = more
<1>1. PICK v : v = <<n>>
  OBVIOUS
<1>2. v \in Seq(Nego2) /\ Len(v) = 1 /\ v[1] = n
  BY <1>1
<1>3. Append(s, n) = s \o v
  BY <1>1, AppendIsConcat
<1>4. (s \o v) \o more = s \o (v \o more)
  BY <1>2, ConcatAssociative
<1>5. PICK u : u = v \o more
  OBVIOUS
<1>6. u \in Seq(Nego2)
  BY <1>2, <1>5, ConcatProperties
<1>7. t = u
  BY <1>3, <1>4, <1>5, <1>6, NegosCancel
<1>8. PICK k \in Nat : k = Len(more)
  BY LenProperties
<1>9. Len(u) = 1 + k /\ u[1] = n /\ \A i \in 1 .. k : u[i + 1] = more[i]
  <2>1. /\ Len(v \o more) = Len(v) + Len(more)
        /\ \A i \in 1 .. Len(v) + Len(more) : (v \o more)[i] = IF i <= Len(v) THEN v[i] ELSE more[i - Len(v)]
    BY <1>2, ConcatProperties
  <2>2. Len(u) = 1 + k /\ \A i \in 1 .. 1 + k : u[i] = IF i <= 1 THEN v[i] ELSE more[i - 1]
    BY <1>2, <1>5, <1>8, <2>1
  <2>3. u[1] = n
    BY <1>2, <1>8, <2>2
  <2>4. ASSUME NEW i \in 1 .. k
        PROVE  u[i + 1] = more[i]
    <3>1. i + 1 \in 1 .. 1 + k /\ ~(i + 1 <= 1) /\ (i + 1) - 1 = i
      BY <1>8
    <3> QED
      BY <2>2, <3>1
  <2> QED
    BY <2>2, <2>3, <2>4
<1>10. u # <<>>
  BY <1>8, <1>9, EmptySeq
<1>11. PICK w : w = Tail(u)
  OBVIOUS
<1>12. Head(u) = n /\ w \in Seq(Nego2) /\ Len(w) = k /\ \A i \in 1 .. k : w[i] = more[i]
  <2>1. /\ Head(u) = u[1] /\ w \in Seq(Nego2) /\ Len(w) = Len(u) - 1
        /\ \A i \in 1 .. Len(w) : w[i] = u[i + 1]
    BY <1>6, <1>10, <1>11, HeadTailProperties
  <2>2. Len(w) = k
    BY <1>8, <1>9, <2>1
  <2> QED
    BY <1>9, <2>1, <2>2
<1>13. w = more
  BY <1>8, <1>12, SeqEqual
<1> QED
  BY <1>7, <1>10, <1>11, <1>12, <1>13

\* The text read is a beginning of the whole, and the whole is text.
LEMMA AheadBegins ==
  ASSUME NEW known \in BOOLEAN, NEW bytes \in Seq(Nat), NEW mode, NEW cmd, NEW text, NEW whole, NEW negos,
         Ahead(known, bytes, mode, cmd, text, whole, negos)
  PROVE  Begins(text, whole)
<1>1. PICK s \in Seq(Nego2) :
        Leads(known, bytes, [mode |-> mode, cmd |-> cmd, text |-> text, negos |-> s], "text", 0, whole, s \o negos)
  BY DEF Ahead
<1>2. PICK a : a = [mode |-> mode, cmd |-> cmd, text |-> text, negos |-> s]
  OBVIOUS
<1>3. PICK e \in Views : Runs(Reads(known), bytes, a, e) /\ e.text = whole
  BY <1>1, <1>2 DEF Leads
<1>4. Grows(a, e)
  BY <1>3, RunsGrow, BothAreReaders
<1>5. a.text = text
  BY <1>2
<1> QED
  BY <1>3, <1>4, <1>5 DEF Grows, Begins

\* Who has nothing before him is at the end.
LEMMA AheadNothing ==
  ASSUME NEW known \in BOOLEAN, NEW mode \in Modes, NEW cmd \in Nat, NEW text \in Seq(Nat), NEW whole,
         NEW negos \in Seq(Nego2)
  PROVE  /\ Ahead(known, <<>>, mode, cmd, text, whole, negos) => mode = "text" /\ text = whole /\ negos = <<>>
         /\ Ahead(known, <<>>, "text", cmd, text, text, <<>>)
<1>1. ASSUME Ahead(known, <<>>, mode, cmd, text, whole, negos)
      PROVE  mode = "text" /\ text = whole /\ negos = <<>>
  <2>1. PICK s \in Seq(Nego2) :
          Leads(known, <<>>, [mode |-> mode, cmd |-> cmd, text |-> text, negos |-> s], "text", 0, whole, s \o negos)
    BY <1>1 DEF Ahead
  <2>2. PICK a : a = [mode |-> mode, cmd |-> cmd, text |-> text, negos |-> s]
    OBVIOUS
  <2>3. a \in Views /\ a.mode = mode /\ a.text = text /\ a.negos = s
    BY <2>2 DEF Views
  <2>4. PICK e \in Views : /\ Runs(Reads(known), <<>>, a, e) /\ e.mode = "text" /\ e.text = whole
                           /\ e.negos = s \o negos
    BY <2>1, <2>2 DEF Leads
  <2>5. e = a
    BY <2>3, <2>4, RunsNothing
  <2>6. s \o negos = s
    BY <2>3, <2>4, <2>5
  <2>7. negos = <<>>
    BY <2>6, ConcatEqualIffEmpty
  <2> QED
    BY <2>3, <2>4, <2>5, <2>7
<1>2. Ahead(known, <<>>, "text", cmd, text, text, <<>>)
  <2>1. PICK s : s = <<>>
    OBVIOUS
  <2>2. s \in Seq(Nego2) /\ s \o s = s
    BY <2>1, EmptySeq, ConcatEmptySeq
  <2>3. PICK a : a = [mode |-> "text", cmd |-> cmd, text |-> text, negos |-> s]
    OBVIOUS
  <2>4. a \in Views /\ a.mode = "text" /\ a.text = text /\ a.negos = s
    BY <2>2, <2>3 DEF Views, Modes
  <2>5. Runs(Reads(known), <<>>, a, a)
    BY <2>4, RunsNothing
  <2>6. Leads(known, <<>>, a, "text", 0, text, s \o s)
    BY <2>2, <2>4, <2>5 DEF Leads
  <2> QED
    BY <2>1, <2>2, <2>3, <2>6 DEF Ahead
<1> QED
  BY <1>1, <1>2

\* What is added to it: text, a command about an option, what is neither.
LEMMA AheadText ==
  ASSUME NEW known \in BOOLEAN, NEW bytes \in Seq(Nat), NEW mode, NEW cmd, NEW text, NEW whole, NEW negos,
         Ahead(known, bytes, mode, cmd, text, whole, negos), NEW b \in Nat
  PROVE  Ahead(known, bytes \o SendSeg(b), mode, cmd, text, Append(whole, b), negos)
<1>1. PICK s \in Seq(Nego2) :
        Leads(known, bytes, [mode |-> mode, cmd |-> cmd, text |-> text, negos |-> s], "text", 0, whole, s \o negos)
  BY DEF Ahead
<1>2. Leads(known, bytes \o SendSeg(b), [mode |-> mode, cmd |-> cmd, text |-> text, negos |-> s],
            "text", 0, Append(whole, b), s \o negos)
  BY <1>1, LeadsText
<1> QED
  BY <1>2 DEF Ahead

\* A command about an option is one more to come.
LEMMA AheadNego ==
  ASSUME NEW known \in BOOLEAN, NEW bytes \in Seq(Nat), NEW mode, NEW cmd, NEW text, NEW whole,
         NEW negos \in Seq(Nego2), Ahead(known, bytes, mode, cmd, text, whole, negos),
         NEW c \in Verbs, NEW o \in Nat
  PROVE  Ahead(known, bytes \o Nego(c, o), mode, cmd, text, whole, Append(negos, <<c, o>>))
<1>1. PICK s \in Seq(Nego2) :
        Leads(known, bytes, [mode |-> mode, cmd |-> cmd, text |-> text, negos |-> s], "text", 0, whole, s \o negos)
  BY DEF Ahead
<1>2. Leads(known, bytes \o Nego(c, o), [mode |-> mode, cmd |-> cmd, text |-> text, negos |-> s],
            "text", 0, whole, Append(s \o negos, <<c, o>>))
  BY <1>1, LeadsNego
<1>3. <<c, o>> \in Nego2
  BY DEF Nego2, Verbs, WILL, WONT, DO, DONT
<1>4. Append(s \o negos, <<c, o>>) = s \o Append(negos, <<c, o>>)
  <2>1. PICK n : n = <<c, o>>
    OBVIOUS
  <2>2. Append(s \o negos, n) = s \o Append(negos, n)
    BY <1>3, <2>1, NegosJoined
  <2> QED
    BY <2>1, <2>2
<1> QED
  BY <1>2, <1>4 DEF Ahead

\* The first byte is read: the reader goes on, and no command has come ...
LEMMA AheadGoes ==
  ASSUME NEW known \in BOOLEAN, NEW bytes \in Seq(Nat), bytes # <<>>, NEW mode \in Modes, NEW cmd \in Nat,
         NEW text \in Seq(Nat), NEW whole, NEW negos \in Seq(Nego2),
         Ahead(known, bytes, mode, cmd, text, whole, negos), mode # "option",
         NEW m2, NEW c2, NEW t2,
         \A s \in Seq(Nego2) :
           After([mode |-> mode, cmd |-> cmd, text |-> text, negos |-> s], Head(bytes), known)
             = [mode |-> m2, cmd |-> c2, text |-> t2, negos |-> s]
  PROVE  Ahead(known, Tail(bytes), m2, c2, t2, whole, negos)
<1>1. PICK s \in Seq(Nego2) :
        Leads(known, bytes, [mode |-> mode, cmd |-> cmd, text |-> text, negos |-> s], "text", 0, whole, s \o negos)
  BY DEF Ahead
<1>2. PICK a : a = [mode |-> mode, cmd |-> cmd, text |-> text, negos |-> s]
  OBVIOUS
<1>3. a \in Views
  BY <1>2 DEF Views
<1>4. PICK e \in Views : /\ Runs(Reads(known), bytes, a, e) /\ e.mode = "text" /\ e.text = whole
                         /\ e.negos = s \o negos
  BY <1>1, <1>2 DEF Leads
<1>5. /\ Runs(Reads(known), Tail(bytes), Reads(known)[a][Head(bytes)], e)
      /\ Head(bytes) \in Nat
  BY <1>4, RunsTail, BothAreReaders
<1>6. Reads(known)[a][Head(bytes)] = [mode |-> m2, cmd |-> c2, text |-> t2, negos |-> s]
  <2>1. Reads(known)[a][Head(bytes)] = After(a, Head(bytes), known)
    BY <1>3, <1>5, ReadsAfter
  <2> QED
    BY <1>2, <2>1
<1>7. Leads(known, Tail(bytes), [mode |-> m2, cmd |-> c2, text |-> t2, negos |-> s], "text", 0, whole, s \o negos)
  BY <1>4, <1>5, <1>6 DEF Leads
<1> QED
  BY <1>7 DEF Ahead

\* ... or the first one has.
LEMMA AheadOption ==
  ASSUME NEW known \in BOOLEAN, NEW bytes \in Seq(Nat), bytes # <<>>, NEW cmd \in Nat,
         NEW text \in Seq(Nat), NEW whole, NEW negos \in Seq(Nego2),
         Ahead(known, bytes, "option", cmd, text, whole, negos)
  PROVE  /\ negos # <<>> /\ Head(negos) = <<cmd, Head(bytes)>> /\ Tail(negos) \in Seq(Nego2)
         /\ Ahead(known, Tail(bytes), "text", cmd, text, whole, Tail(negos))
<1>1. PICK s \in Seq(Nego2) :
        Leads(known, bytes, [mode |-> "option", cmd |-> cmd, text |-> text, negos |-> s], "text", 0, whole, s \o negos)
  BY DEF Ahead
<1>2. PICK a : a = [mode |-> "option", cmd |-> cmd, text |-> text, negos |-> s]
  OBVIOUS
<1>3. a \in Views
  BY <1>2 DEF Views, Modes
<1>4. PICK e \in Views : /\ Runs(Reads(known), bytes, a, e) /\ e.mode = "text" /\ e.text = whole
                         /\ e.negos = s \o negos
  BY <1>1, <1>2 DEF Leads
<1>5. /\ Runs(Reads(known), Tail(bytes), Reads(known)[a][Head(bytes)], e)
      /\ Head(bytes) \in Nat /\ Tail(bytes) \in Seq(Nat)
  BY <1>4, RunsTail, BothAreReaders
<1>6. PICK n : n = <<cmd, Head(bytes)>>
  OBVIOUS
<1>7. n \in Nego2
  BY <1>5, <1>6 DEF Nego2
<1>8. PICK t : t = Append(s, n)
  OBVIOUS
<1>9. t \in Seq(Nego2)
  BY <1>7, <1>8, AppendProperties
<1>10. PICK f : f = [mode |-> "text", cmd |-> cmd, text |-> text, negos |-> t]
  OBVIOUS
<1>11. Reads(known)[a][Head(bytes)] = f
  <2>1. Reads(known)[a][Head(bytes)] = After(a, Head(bytes), known)
    BY <1>3, <1>5, ReadsAfter
  <2>2. After(a, Head(bytes), known) = AfterOption(a, Head(bytes))
    BY <1>2 DEF After
  <2>3. AfterOption(a, Head(bytes)) = f
    <3>1. a.cmd = cmd /\ a.negos = s
      BY <1>2
    <3>2. Append(a.negos, <<a.cmd, Head(bytes)>>) = t
      BY <1>6, <1>8, <3>1, Zenon
    <3>3. PICK g : g = [a EXCEPT !.mode = "text", !.negos = t]
      OBVIOUS
    <3>4. g = [mode |-> "text", cmd |-> cmd, text |-> text, negos |-> t]
      BY <1>2, <3>3
    <3> QED
      BY <1>10, <3>2, <3>3, <3>4, Zenon DEF AfterOption
  <2> QED
    BY <2>1, <2>2, <2>3
<1>12. Runs(Reads(known), Tail(bytes), f, e) /\ f.negos = t
  BY <1>5, <1>10, <1>11
<1>13. Grows(f, e)
  BY <1>5, <1>12, RunsGrow, BothAreReaders
<1>14. PICK more \in Seq(Nego2) : s \o negos = t \o more
  BY <1>4, <1>12, <1>13 DEF Grows
<1>15. negos # <<>> /\ Head(negos) = n /\ Tail(negos) = more
  BY <1>7, <1>8, <1>14, NegosFirst
<1>16. Leads(known, Tail(bytes), f, "text", 0, whole, t \o Tail(negos))
  BY <1>4, <1>12, <1>14, <1>15 DEF Leads
<1>17. Ahead(known, Tail(bytes), "text", cmd, text, whole, Tail(negos))
  BY <1>9, <1>10, <1>16 DEF Ahead
<1> QED
  BY <1>6, <1>15, <1>17

\* Byte by byte.
LEMMA AheadByte ==
  ASSUME NEW known \in BOOLEAN, NEW bytes \in Seq(Nat), bytes # <<>>, NEW mode \in Modes, NEW cmd \in Nat,
         NEW text \in Seq(Nat), NEW whole, NEW negos \in Seq(Nego2),
         Ahead(known, bytes, mode, cmd, text, whole, negos),
         NEW b, b = Head(bytes), NEW rest, rest = Tail(bytes)
  PROVE  /\ mode = "text" /\ b = IAC => Ahead(known, rest, "command", cmd, text, whole, negos)
         /\ mode = "text" /\ b # IAC => Ahead(known, rest, "text", cmd, Append(text, b), whole, negos)
         /\ mode = "command" /\ b = IAC => Ahead(known, rest, "text", cmd, Append(text, b), whole, negos)
         /\ mode = "command" /\ b = SB => Ahead(known, rest, "sub", cmd, text, whole, negos)
         /\ mode = "command" /\ b \in Verbs => Ahead(known, rest, "option", b, text, whole, negos)
         /\ mode = "command" /\ b \notin {IAC, SB} \cup Verbs =>
              Ahead(known, rest, "text", cmd, text, whole, negos)
<1> DEFINE V(m, c, t, s) == [mode |-> m, cmd |-> c, text |-> t, negos |-> s]
<1> DEFINE To(m, c, t) == \A s \in Seq(Nego2) : After(V(mode, cmd, text, s), b, known) = V(m, c, t, s)
<1>1. ASSUME NEW m, NEW c, NEW t, To(m, c, t), mode # "option"
      PROVE  Ahead(known, rest, m, c, t, whole, negos)
  BY <1>1, AheadGoes
<1>2. IAC \notin Verbs /\ SB \notin Verbs /\ IAC # SB /\ TerminalType # IAC
  BY DEF Verbs, WILL, WONT, DO, DONT, IAC, SB, TerminalType
<1>3. mode = "text" => /\ b = IAC => To("command", cmd, text)
                       /\ b # IAC => To("text", cmd, Append(text, b))
  BY DEF After, AfterText
<1>4. mode = "command" => /\ b = IAC => To("text", cmd, Append(text, b))
                          /\ b = SB => To("sub", cmd, text)
                          /\ b \in Verbs => To("option", b, text)
                          /\ b \notin {IAC, SB} \cup Verbs => To("text", cmd, text)
  <2>1. \A s : mode = "command" => After(V(mode, cmd, text, s), b, known) = AfterCommand(V(mode, cmd, text, s), b)
    BY DEF After
  <2>2. b = IAC => \A s : AfterCommand(V(mode, cmd, text, s), b) = V("text", cmd, Append(text, b), s)
    BY DEF AfterCommand
  <2>3. b = SB => \A s : AfterCommand(V(mode, cmd, text, s), b) = V("sub", cmd, text, s)
    BY <1>2 DEF AfterCommand
  <2>4. b \in Verbs => \A s : AfterCommand(V(mode, cmd, text, s), b) = V("option", b, text, s)
    BY <1>2 DEF AfterCommand
  <2>5. b \notin {IAC, SB} \cup Verbs => \A s : AfterCommand(V(mode, cmd, text, s), b) = V("text", cmd, text, s)
    <3> DEFINE v(s) == V(mode, cmd, text, s)
    <3>1. \A s : b \notin {IAC, SB} \cup Verbs => AfterCommand(v(s), b) = [v(s) EXCEPT !.mode = "text"]
      BY DEF AfterCommand
    <3>2. ASSUME NEW s
          PROVE  [v(s) EXCEPT !.mode = "text"] = V("text", cmd, text, s)
      <4>1. PICK a : a = v(s)
        OBVIOUS
      <4>2. PICK g : g = [a EXCEPT !.mode = "text"]
        OBVIOUS
      <4>3. g = V("text", cmd, text, s)
        BY <4>1, <4>2
      <4> QED
        BY <4>1, <4>2, <4>3, Zenon
    <3> QED
      BY <3>1, <3>2, Zenon
  <2> HIDE DEF V
  <2> QED
    BY <2>1, <2>2, <2>3, <2>4, <2>5
<1> HIDE DEF To
<1> QED
  BY <1>1, <1>3, <1>4

\* The same within a subnegotiation.
Inside(known, rest, mode, cmd, text, whole, negos, b) ==
  /\ mode = "sub" /\ b = IAC => Ahead(known, rest, "subend", cmd, text, whole, negos)
  /\ mode = "sub" /\ b # IAC /\ ~(b = TerminalType /\ known) =>
       Ahead(known, rest, "sub", cmd, text, whole, negos)
  /\ mode = "sub" /\ b = TerminalType /\ known => Ahead(known, rest, "type", cmd, text, whole, negos)
  /\ mode = "type" => Ahead(known, rest, "sub", cmd, text, whole, negos)
  /\ mode = "subend" /\ b = SE => Ahead(known, rest, "text", cmd, text, whole, negos)
  /\ mode = "subend" /\ b # SE => Ahead(known, rest, "sub", cmd, text, whole, negos)

\* The first byte of what is inside of a subnegotiation is read.
LEMMA AheadInside ==
  ASSUME NEW known \in BOOLEAN, NEW bytes \in Seq(Nat), bytes # <<>>, NEW mode \in Modes, NEW cmd \in Nat,
         NEW text \in Seq(Nat), NEW whole, NEW negos \in Seq(Nego2),
         Ahead(known, bytes, mode, cmd, text, whole, negos),
         NEW b, b = Head(bytes), NEW rest, rest = Tail(bytes)
  PROVE  Inside(known, rest, mode, cmd, text, whole, negos, b)
<1> DEFINE V(m, c, t, s) == [mode |-> m, cmd |-> c, text |-> t, negos |-> s]
<1> DEFINE To(m, c, t) == \A s \in Seq(Nego2) : After(V(mode, cmd, text, s), b, known) = V(m, c, t, s)
<1>1. ASSUME NEW m, NEW c, NEW t, To(m, c, t), mode # "option"
      PROVE  Ahead(known, rest, m, c, t, whole, negos)
  BY <1>1, AheadGoes
<1>2. IAC \notin Verbs /\ SB \notin Verbs /\ IAC # SB /\ TerminalType # IAC
  BY DEF Verbs, WILL, WONT, DO, DONT, IAC, SB, TerminalType
<1>5. mode = "sub" => /\ b = IAC => To("subend", cmd, text)
                      /\ b # IAC /\ ~(b = TerminalType /\ known) => To("sub", cmd, text)
                      /\ b = TerminalType /\ known => To("type", cmd, text)
  BY <1>2 DEF After, AfterSub
<1>6. mode = "type" => To("sub", cmd, text)
  BY DEF After
<1>7. mode = "subend" => /\ b = SE => To("text", cmd, text)
                         /\ b # SE => To("sub", cmd, text)
  BY DEF After, AfterSubEnd
<1> HIDE DEF To
<1> QED
  BY <1>1, <1>5, <1>6, <1>7 DEF Inside

---------------------------------------------------------------------------
(* What the parser makes of a byte, field by field.                         *)

Pars(m, c, e, k, g, n, l, t, s) ==
  [mode |-> m, cmd |-> c, endExec |-> e, echoEnabled |-> k, suppressGoAhead |-> g,
   nawsAccepted |-> n, localEcho |-> l, text |-> t, sent |-> s]

\* Its fields, and its operations on them.
LEMMA ParsIs ==
  ASSUME NEW m, NEW c, NEW e, NEW k, NEW g, NEW n, NEW l, NEW t, NEW s,
         NEW p, p = Pars(m, c, e, k, g, n, l, t, s)
  PROVE  /\ p.mode = m /\ p.cmd = c /\ p.endExec = e /\ p.echoEnabled = k /\ p.suppressGoAhead = g
         /\ p.nawsAccepted = n /\ p.localEcho = l /\ p.text = t /\ p.sent = s
  BY DEF Pars

\* The parser elsewhere, with a byte of text, and with what it sends.
LEMMA ParsGoto ==
  ASSUME NEW m, NEW c, NEW e, NEW k, NEW g, NEW n, NEW l, NEW t, NEW s,
         NEW p, p = Pars(m, c, e, k, g, n, l, t, s), NEW m2
  PROVE  Goto(p, m2) = Pars(m2, c, e, k, g, n, l, t, s)
<1>1. PICK r : r = [p EXCEPT !.mode = m2]
  OBVIOUS
<1>2. r = Pars(m2, c, e, k, g, n, l, t, s)
  BY <1>1 DEF Pars
<1> QED
  BY <1>1, <1>2, Zenon DEF Goto

\* Flush hands one byte of text to the terminal and changes nothing else of a parser.
LEMMA ParsFlush ==
  ASSUME NEW m, NEW c, NEW e, NEW k, NEW g, NEW n, NEW l, NEW s,
         NEW p, p = Pars(m, c, e, k, g, n, l, <<>>, s), NEW b
  PROVE  Flush(p, b) = Pars(m, c, e, k, g, n, l, <<b>>, s)
<1>1. PICK r : r = [p EXCEPT !.text = Append(@, b)]
  OBVIOUS
<1>2. PICK u : u = <<b>>
  OBVIOUS
<1>3. p.text = <<>>
  BY ParsIs
<1>4. Append(<<>>, b) = <<b>>
  OBVIOUS
<1>5. r = [p EXCEPT !.text = u]
  BY <1>1, <1>2, <1>3, <1>4, Zenon
<1>6. r = Pars(m, c, e, k, g, n, l, u, s)
  BY <1>5 DEF Pars
<1> QED
  BY <1>1, <1>2, <1>6, Zenon DEF Flush

\* Sends sends while the sender is open, and ends the parser when it is not.
LEMMA ParsSends ==
  ASSUME NEW m, NEW c, NEW e, NEW k, NEW g, NEW n, NEW l, NEW t, NEW s,
         NEW p, p = Pars(m, c, e, k, g, n, l, t, s), NEW q, NEW bytes
  PROVE  /\ senderClosed => Sends(q, bytes, p) = Goto(q, "dead")
         /\ ~senderClosed => Sends(q, bytes, p) = Pars(m, c, e, k, g, n, l, t, bytes)
<1>1. PICK r : r = [p EXCEPT !.sent = bytes]
  OBVIOUS
<1>2. r = Pars(m, c, e, k, g, n, l, t, bytes)
  BY <1>1 DEF Pars
<1>3. senderClosed => Sends(q, bytes, p) = Goto(q, "dead")
  BY Zenon DEF Sends
<1>4. ~senderClosed => Sends(q, bytes, p) = r
  BY <1>1, Zenon DEF Sends
<1> QED
  BY <1>2, <1>3, <1>4, Zenon

\* The answer to a command about an option; 0 is none.
Toggled(c, on) ==
  IF c = WILL /\ ~on THEN DO
  ELSE IF c = WONT /\ on THEN DONT
  ELSE IF c = DO /\ ~on THEN WILL
  ELSE IF c = DONT /\ on THEN WONT
  ELSE 0

Answer(c, o, k, g, n) ==
  IF o = Echo THEN Toggled(c, k)
  ELSE IF o = SuppressGoAhead THEN Toggled(c, g)
  ELSE IF c = DO /\ o = NAWS THEN IF n THEN 0 ELSE WILL
  ELSE IF c = DO /\ o = TerminalType THEN WILL
  ELSE IF c = DO THEN WONT
  ELSE IF c \in {WILL, WONT} THEN DONT
  ELSE 0

\* What is sent with it.
Answered(c, o, k, g, n) ==
  IF c = DO /\ o = NAWS
    THEN IF n THEN SubNego(DimBytes, NAWS) ELSE WillSubNego(WILL, DimBytes, NAWS)
  ELSE IF Answer(c, o, k, g, n) = 0 THEN <<>>
  ELSE Nego(Answer(c, o, k, g, n), o)

\* In text, in a command, in a subnegotiation.
ReadTo(p, b, m, c, e, k, g, n, l) ==
  /\ m = "text" => Read(p, b) = IF b = IAC THEN Pars("command", c, e, k, g, n, l, <<>>, <<>>)
                                ELSE Pars("text", c, e, k, g, n, l, <<b>>, <<>>)
  /\ m = "command" /\ b = SB => \E e2 \in BOOLEAN : Read(p, b) = Pars("sub", c, e2, k, g, n, l, <<>>, <<>>)
  /\ m = "command" /\ b # SB => Read(p, b) =
       IF b = IAC THEN Pars("text", c, e, k, g, n, l, <<b>>, <<>>)
       ELSE IF b \in Verbs THEN Pars("option", b, e, k, g, n, l, <<>>, <<>>)
       ELSE IF b = GoAhead THEN Pars("text", c, e, k, g, n, l, <<>>, <<>>)
       ELSE Pars("dead", c, e, k, g, n, l, <<>>, <<>>)
  /\ m = "sub" => Read(p, b) =
       IF b = IAC THEN Pars("subend", c, e, k, g, n, l, <<>>, <<>>)
       ELSE IF b = TerminalType THEN Pars("type", c, e, k, g, n, l, <<>>, <<>>)
       ELSE p
  /\ m = "type" => Read(p, b) = Pars("sub", c, b = TypeSend, k, g, n, l, <<>>, <<>>)
  /\ m = "subend" => Read(p, b) =
       IF b # SE THEN Pars("sub", c, e, k, g, n, l, <<>>, <<>>)
       ELSE IF ~e THEN Pars("text", c, e, k, g, n, l, <<>>, <<>>)
       ELSE IF senderClosed THEN Pars("dead", c, e, k, g, n, l, <<>>, <<>>)
       ELSE Pars("text", c, e, k, g, n, l, <<>>, SubNego(TypeName, TerminalType))

\* That is what a byte does to the parser.
LEMMA ReadEffect ==
  ASSUME NEW c, NEW e, NEW k, NEW g, NEW n, NEW l,
         NEW m \in Modes, NEW p, p = Pars(m, c, e, k, g, n, l, <<>>, <<>>), NEW b \in Nat
  PROVE  ReadTo(p, b, m, c, e, k, g, n, l)
<1> USE DEF ReadTo
<1> DEFINE Same(x) == Pars(x, c, e, k, g, n, l, <<>>, <<>>)
<1>1. \A x : Goto(p, x) = Same(x)
  BY ParsGoto
<1>2. Append(<<>>, b) = <<b>>
  OBVIOUS
<1>3. Flush(p, b) = Pars(m, c, e, k, g, n, l, <<b>>, <<>>)
  BY ParsFlush
<1>4. p.mode = m /\ p.endExec = e
  BY ParsIs
<1>5. CASE m = "text"
  <2>1. Read(p, b) = ReadText(p, b)
    BY <1>4, <1>5, Zenon DEF Read, At
  <2> QED
    BY <1>1, <1>3, <1>5, <2>1 DEF ReadText
<1>6. CASE m = "command"
  <2>1. Read(p, b) = ReadCommand(p, b)
    BY <1>4, <1>6 DEF Read, At
  <2>2. IAC \notin Verbs /\ SB \notin Verbs /\ IAC # SB /\ GoAhead \notin Verbs \cup {IAC, SB}
    BY DEF Verbs, WILL, WONT, DO, DONT, IAC, SB, GoAhead
  <2>3. Goto(Flush(p, b), "text") = Pars("text", c, e, k, g, n, l, <<b>>, <<>>)
    <3>1. PICK q : q = Flush(p, b)
      OBVIOUS
    <3>2. Goto(q, "text") = Pars("text", c, e, k, g, n, l, <<b>>, <<>>)
      BY <1>3, <3>1, ParsGoto
    <3> QED
      BY <3>1, <3>2
  <2>4. b \in Verbs => [p EXCEPT !.mode = "option", !.cmd = b] = Pars("option", b, e, k, g, n, l, <<>>, <<>>)
    <3>1. PICK r : r = [p EXCEPT !.mode = "option", !.cmd = b]
      OBVIOUS
    <3>2. r = Pars("option", b, e, k, g, n, l, <<>>, <<>>)
      BY <3>1 DEF Pars
    <3> QED
      BY <3>1, <3>2, Zenon
  <2>5. [p EXCEPT !.mode = "sub", !.endExec = FALSE] = Pars("sub", c, FALSE, k, g, n, l, <<>>, <<>>)
    <3>1. PICK r : r = [p EXCEPT !.mode = "sub", !.endExec = FALSE]
      OBVIOUS
    <3>2. r = Pars("sub", c, FALSE, k, g, n, l, <<>>, <<>>)
      BY <3>1 DEF Pars
    <3> QED
      BY <3>1, <3>2, Zenon
  <2>11. PICK x1, x2, x3, x4, x5 :
           /\ x1 = [p EXCEPT !.mode = "option", !.cmd = b] /\ x2 = Goto(Flush(p, b), "text")
           /\ x3 = Goto(p, "text") /\ x4 = [p EXCEPT !.mode = "sub", !.endExec = FALSE] /\ x5 = Goto(p, "dead")
    OBVIOUS
  <2>12. ReadCommand(p, b) = CASE b \in Verbs -> x1 [] b = IAC -> x2 [] b = GoAhead -> x3
                               [] b = SB -> x4 [] OTHER -> x5
    <3>1. b \in Ignored <=> b = GoAhead
      BY DEF Ignored
    <3>2. ReadCommand(p, b) = CASE b \in {WILL, WONT, DO, DONT} -> x1 [] b = IAC -> x2 [] b \in Ignored -> x3
                                [] b = SB -> x4 [] OTHER -> x5
      BY <2>11 DEF ReadCommand
    <3> QED
      BY <3>1, <3>2 DEF Verbs
  <2>6. CASE b \in Verbs
    <3>1. ReadCommand(p, b) = x1
      BY <2>2, <2>6, <2>12
    <3> QED
      BY <1>6, <2>1, <2>2, <2>4, <2>6, <3>1, <2>11
  <2>7. CASE b = IAC
    <3>1. ReadCommand(p, b) = x2
      BY <2>2, <2>7, <2>12
    <3> QED
      BY <1>6, <2>1, <2>2, <2>3, <2>7, <3>1, <2>11
  <2>8. CASE b = GoAhead
    <3>1. ReadCommand(p, b) = x3
      BY <2>2, <2>8, <2>12
    <3> QED
      BY <1>1, <1>6, <2>1, <2>2, <2>8, <3>1, <2>11
  <2>9. CASE b = SB
    <3>1. ReadCommand(p, b) = x4
      BY <2>2, <2>9, <2>12
    <3> QED
      <4>1. Read(p, b) = Pars("sub", c, FALSE, k, g, n, l, <<>>, <<>>)
        BY <2>1, <2>5, <2>11, <3>1, Zenon
      <4>2. FALSE \in BOOLEAN
        OBVIOUS
      <4>3. \E e2 \in BOOLEAN : Read(p, b) = Pars("sub", c, e2, k, g, n, l, <<>>, <<>>)
        BY <4>1, <4>2, Zenon
      <4> QED
        BY <1>6, <2>9, <4>3
  <2>10. CASE b \notin Verbs \cup {IAC, SB, GoAhead}
    <3>1. ReadCommand(p, b) = x5
      BY <2>2, <2>10, <2>12
    <3> QED
      BY <1>1, <1>6, <2>1, <2>10, <3>1, <2>11
  <2> QED
    BY <2>6, <2>7, <2>8, <2>9, <2>10
<1>7. CASE m = "sub"
  <2>1. Read(p, b) = ReadSubNego(p, b)
    BY <1>4, <1>7 DEF Read, At
  <2>2. TerminalType # IAC
    BY DEF TerminalType, IAC
  <2> QED
    BY <1>1, <1>7, <2>1, <2>2 DEF ReadSubNego
<1>8. CASE m = "type"
  <2>1. Read(p, b) = ReadTypeSubNego(p, b)
    BY <1>4, <1>8 DEF Read, At
  <2>2. PICK r : r = [p EXCEPT !.mode = "sub", !.endExec = (b = TypeSend)]
    OBVIOUS
  <2>3. r = Pars("sub", c, b = TypeSend, k, g, n, l, <<>>, <<>>)
    BY <2>2 DEF Pars
  <2> QED
    BY <1>8, <2>1, <2>2, <2>3, Zenon DEF ReadTypeSubNego
<1>9. CASE m = "subend"
  <2>1. Read(p, b) = EndSubNego(p, b)
    BY <1>4, <1>9 DEF Read, At
  <2>2. PICK q : q = Goto(p, "text")
    OBVIOUS
  <2>3. q = Same("text")
    BY <1>1, <2>2
  <2>4. Goto(q, "dead") = Same("dead")
    BY <2>3, ParsGoto
  <2>5. /\ senderClosed => Sends(q, SubNego(TypeName, TerminalType), q) = Same("dead")
        /\ ~senderClosed => Sends(q, SubNego(TypeName, TerminalType), q)
                              = Pars("text", c, e, k, g, n, l, <<>>, SubNego(TypeName, TerminalType))
    <3>1. PICK bytes : bytes = SubNego(TypeName, TerminalType)
      OBVIOUS
    <3>2. /\ senderClosed => Sends(q, bytes, q) = Goto(q, "dead")
          /\ ~senderClosed => Sends(q, bytes, q) = Pars("text", c, e, k, g, n, l, <<>>, bytes)
      BY <2>3, ParsSends
    <3> QED
      BY <2>4, <3>1, <3>2, Zenon
  <2>6. b # SE => EndSubNego(p, b) = Goto(p, "sub")
    BY DEF EndSubNego
  <2>7. b = SE /\ e => EndSubNego(p, b) = Sends(q, SubNego(TypeName, TerminalType), q)
    BY <1>4, <2>2 DEF EndSubNego
  <2>8. b = SE /\ ~e => EndSubNego(p, b) = q
    BY <1>4, <2>2 DEF EndSubNego
  <2> QED
    BY <1>1, <1>9, <2>1, <2>3, <2>5, <2>6, <2>7, <2>8, Zenon
<1>10. CASE m = "option"
  BY <1>10
<1> QED
  BY <1>5, <1>6, <1>7, <1>8, <1>9, <1>10 DEF Modes

\* One state of an option turned by a command about it.
LEMMA Toggles ==
  ASSUME NEW m, NEW c, NEW e, NEW k, NEW g, NEW n, NEW l, NEW k2, NEW g2, NEW l2,
         NEW q, q = Pars(m, c, e, k, g, n, l, <<>>, <<>>),
         NEW then, then = Pars(m, c, e, k2, g2, n, l2, <<>>, <<>>), NEW o, NEW on
  PROVE  /\ Toggled(c, on) = 0 => HandleOption(q, o, on, then) = then
         /\ Toggled(c, on) # 0 /\ senderClosed => HandleOption(q, o, on, then) = Goto(q, "dead")
         /\ Toggled(c, on) # 0 /\ ~senderClosed =>
              HandleOption(q, o, on, then) = Pars(m, c, e, k2, g2, n, l2, <<>>, Nego(Toggled(c, on), o))
<1>1. q.cmd = c
  BY ParsIs
<1>2. HandleOption(q, o, on, then) = IF Toggled(c, on) = 0 THEN then ELSE Sends(q, Nego(Toggled(c, on), o), then)
  <2>1. /\ WILL # WONT /\ WILL # DO /\ WILL # DONT /\ WONT # DO /\ WONT # DONT /\ DO # DONT
        /\ WILL # 0 /\ WONT # 0 /\ DO # 0 /\ DONT # 0
    BY DEF WILL, WONT, DO, DONT
  <2>2. PICK x1, x2, x3, x4 :
          /\ x1 = Sends(q, Nego(DO, o), then) /\ x2 = Sends(q, Nego(DONT, o), then)
          /\ x3 = Sends(q, Nego(WILL, o), then) /\ x4 = Sends(q, Nego(WONT, o), then)
    OBVIOUS
  <2>3. HandleOption(q, o, on, then) =
          CASE c = WILL /\ ~on -> x1 [] c = WONT /\ on -> x2 [] c = DO /\ ~on -> x3
            [] c = DONT /\ on -> x4 [] OTHER -> then
    BY <1>1, <2>2 DEF HandleOption
  <2>4. CASE c = WILL /\ ~on
    <3>1. HandleOption(q, o, on, then) = x1 /\ Toggled(c, on) = DO
      BY <2>1, <2>3, <2>4 DEF Toggled
    <3> QED
      BY <2>1, <2>2, <3>1
  <2>5. CASE c = WONT /\ on
    <3>1. HandleOption(q, o, on, then) = x2 /\ Toggled(c, on) = DONT
      BY <2>1, <2>3, <2>5 DEF Toggled
    <3> QED
      BY <2>1, <2>2, <3>1
  <2>6. CASE c = DO /\ ~on
    <3>1. HandleOption(q, o, on, then) = x3 /\ Toggled(c, on) = WILL
      BY <2>1, <2>3, <2>6 DEF Toggled
    <3> QED
      BY <2>1, <2>2, <3>1
  <2>7. CASE c = DONT /\ on
    <3>1. HandleOption(q, o, on, then) = x4 /\ Toggled(c, on) = WONT
      BY <2>1, <2>3, <2>7 DEF Toggled
    <3> QED
      BY <2>1, <2>2, <3>1
  <2>8. CASE /\ ~(c = WILL /\ ~on) /\ ~(c = WONT /\ on) /\ ~(c = DO /\ ~on) /\ ~(c = DONT /\ on)
    BY <2>3, <2>8 DEF Toggled
  <2> QED
    BY <2>4, <2>5, <2>6, <2>7, <2>8
<1>3. PICK bytes : bytes = Nego(Toggled(c, on), o)
  OBVIOUS
<1>4. /\ senderClosed => Sends(q, bytes, then) = Goto(q, "dead")
      /\ ~senderClosed => Sends(q, bytes, then) = Pars(m, c, e, k2, g2, n, l2, <<>>, bytes)
  BY ParsSends
<1> QED
  BY <1>2, <1>3, <1>4, Zenon

\* A command about an option is read: the parser takes it and answers, or its sender is
\* closed and it ends.
Obeys(x, c, o, e, k, g, n, l) ==
  \/ /\ senderClosed
     /\ \E n2 \in {n, TRUE} : x = Pars("dead", c, e, k, g, n2, l, <<>>, <<>>)
  \/ /\ senderClosed => Answered(c, o, k, g, n) = <<>>
     /\ x = Pars("text", c, e,
                 IF o = Echo THEN c \in {WILL, DO} ELSE k,
                 IF o = SuppressGoAhead THEN c \in {WILL, DO} ELSE g,
                 IF o = NAWS /\ c = DO THEN TRUE ELSE n,
                 IF o = Echo THEN c \in {WONT, DO} ELSE l,
                 <<>>, Answered(c, o, k, g, n))

\* That is what the option of a command does to it.
LEMMA OptionEffect ==
  ASSUME NEW c \in Verbs, NEW e, NEW k, NEW g, NEW n \in BOOLEAN, NEW l,
         NEW p, p = Pars("option", c, e, k, g, n, l, <<>>, <<>>), NEW o \in Nat
  PROVE  Obeys(Read(p, o), c, o, e, k, g, n, l)
<1> USE DEF Obeys
<1>1. /\ WILL # WONT /\ WILL # DO /\ WILL # DONT /\ WONT # DO /\ WONT # DONT /\ DO # DONT
      /\ WILL # 0 /\ WONT # 0 /\ DO # 0 /\ DONT # 0
  BY DEF WILL, WONT, DO, DONT
<1>2. Echo # SuppressGoAhead /\ Echo # NAWS /\ Echo # TerminalType /\ SuppressGoAhead # NAWS
      /\ SuppressGoAhead # TerminalType /\ NAWS # TerminalType
  BY DEF Echo, SuppressGoAhead, NAWS, TerminalType
<1>3. PICK q : q = Goto(p, "text")
  OBVIOUS
<1>4. q = Pars("text", c, e, k, g, n, l, <<>>, <<>>)
  BY <1>3, ParsGoto
<1>5. /\ q.cmd = c /\ q.echoEnabled = k /\ q.suppressGoAhead = g /\ q.nawsAccepted = n
      /\ p.mode = "option" /\ p.cmd = c
  BY <1>4, ParsIs
<1>6. Goto(q, "dead") = Pars("dead", c, e, k, g, n, l, <<>>, <<>>)
  BY <1>4, ParsGoto
<1>7. Read(p, o) = ReadOption(p, o)
  BY <1>5 DEF Read, At
<1>8. CASE o = Echo
  <2>1. PICK k2, l2 : k2 = (c \in {WILL, DO}) /\ l2 = (c \in {WONT, DO})
    OBVIOUS
  <2>2. PICK then : then = [q EXCEPT !.echoEnabled = k2, !.localEcho = l2]
    OBVIOUS
  <2>3. then = Pars("text", c, e, k2, g, n, l2, <<>>, <<>>)
    BY <1>4, <2>2 DEF Pars
  <2>4. ReadOption(p, o) = HandleOption(q, o, k, then)
    <3>1. ReadOption(p, o) = EchoOption(q)
      BY <1>2, <1>3, <1>8 DEF ReadOption
    <3>2. then = [q EXCEPT !.echoEnabled = q.cmd \in {WILL, DO}, !.localEcho = q.cmd \in {WONT, DO}]
      BY <1>5, <2>1, <2>2, Zenon
    <3> QED
      BY <1>5, <1>8, <3>1, <3>2, Zenon DEF EchoOption
  <2>5. Answer(c, o, k, g, n) = Toggled(c, k)
    BY <1>8 DEF Answer
  <2>6. Answered(c, o, k, g, n) = IF Toggled(c, k) = 0 THEN <<>> ELSE Nego(Toggled(c, k), o)
    BY <1>2, <1>8, <2>5 DEF Answered
  <2>7. /\ Toggled(c, k) = 0 => Read(p, o) = then
        /\ Toggled(c, k) # 0 /\ senderClosed => Read(p, o) = Goto(q, "dead")
        /\ Toggled(c, k) # 0 /\ ~senderClosed =>
              Read(p, o) = Pars("text", c, e, k2, g, n, l2, <<>>, Nego(Toggled(c, k), o))
    BY <1>4, <1>7, <2>3, <2>4, Toggles
  <2>8. /\ (IF o = Echo THEN c \in {WILL, DO} ELSE k) = k2
        /\ (IF o = SuppressGoAhead THEN c \in {WILL, DO} ELSE g) = g
        /\ (IF o = NAWS /\ c = DO THEN TRUE ELSE n) = n
        /\ (IF o = Echo THEN c \in {WONT, DO} ELSE l) = l2
    BY <1>2, <1>8, <2>1, Zenon
  <2> QED
    BY <1>6, <2>3, <2>6, <2>7, <2>8, Zenon
<1>9. CASE o = SuppressGoAhead
  <2>1. PICK g2 : g2 = (c \in {WILL, DO})
    OBVIOUS
  <2>2. PICK then : then = [q EXCEPT !.suppressGoAhead = g2]
    OBVIOUS
  <2>3. then = Pars("text", c, e, k, g2, n, l, <<>>, <<>>)
    BY <1>4, <2>2 DEF Pars
  <2>4. ReadOption(p, o) = HandleOption(q, o, g, then)
    <3>1. ReadOption(p, o) = GoAheadOption(q)
      BY <1>2, <1>3, <1>9 DEF ReadOption
    <3>2. then = [q EXCEPT !.suppressGoAhead = q.cmd \in {WILL, DO}]
      BY <1>5, <2>1, <2>2, Zenon
    <3> QED
      BY <1>5, <1>9, <3>1, <3>2, Zenon DEF GoAheadOption
  <2>5. Answer(c, o, k, g, n) = Toggled(c, g)
    BY <1>2, <1>9 DEF Answer
  <2>6. Answered(c, o, k, g, n) = IF Toggled(c, g) = 0 THEN <<>> ELSE Nego(Toggled(c, g), o)
    BY <1>2, <1>9, <2>5 DEF Answered
  <2>7. /\ Toggled(c, g) = 0 => Read(p, o) = then
        /\ Toggled(c, g) # 0 /\ senderClosed => Read(p, o) = Goto(q, "dead")
        /\ Toggled(c, g) # 0 /\ ~senderClosed =>
              Read(p, o) = Pars("text", c, e, k, g2, n, l, <<>>, Nego(Toggled(c, g), o))
    BY <1>4, <1>7, <2>3, <2>4, Toggles
  <2>8. /\ (IF o = Echo THEN c \in {WILL, DO} ELSE k) = k
        /\ (IF o = SuppressGoAhead THEN c \in {WILL, DO} ELSE g) = g2
        /\ (IF o = NAWS /\ c = DO THEN TRUE ELSE n) = n
        /\ (IF o = Echo THEN c \in {WONT, DO} ELSE l) = l
    BY <1>2, <1>9, <2>1, Zenon
  <2> QED
    BY <1>6, <2>3, <2>6, <2>7, <2>8, Zenon
<1>10. CASE o # Echo /\ o # SuppressGoAhead
  <2>1. /\ (IF o = Echo THEN c \in {WILL, DO} ELSE k) = k
        /\ (IF o = SuppressGoAhead THEN c \in {WILL, DO} ELSE g) = g
        /\ (IF o = Echo THEN c \in {WONT, DO} ELSE l) = l
    BY <1>10, Zenon
  <2>2. CASE o = NAWS /\ c = DO
    <3>1. (IF o = NAWS /\ c = DO THEN TRUE ELSE n) = TRUE
      BY <2>2, Zenon
    <3>2. PICK bytes : bytes = Answered(c, o, k, g, n)
      OBVIOUS
    <3>3. ReadOption(p, o) = WindowOption(q)
      BY <1>2, <1>3, <1>5, <2>2 DEF ReadOption
    <3>4. CASE n
      <4>1. WindowOption(q) = Sends(q, bytes, q)
        BY <1>5, <2>2, <3>2, <3>4 DEF WindowOption, Answered
      <4>2. /\ senderClosed => Sends(q, bytes, q) = Goto(q, "dead")
            /\ ~senderClosed => Sends(q, bytes, q) = Pars("text", c, e, k, g, n, l, <<>>, bytes)
        BY <1>4, ParsSends
      <4>3. CASE senderClosed
        BY <1>6, <1>7, <3>3, <4>1, <4>2, <4>3, Zenon
      <4>4. CASE ~senderClosed
        <5>1. Read(p, o) = Pars("text", c, e, k, g, n, l, <<>>, bytes)
          BY <1>7, <3>3, <4>1, <4>2, <4>4, Zenon
        <5>2. n = TRUE
          BY <3>4
        <5> QED
          BY <2>1, <3>1, <3>2, <4>4, <5>1, <5>2, Zenon
      <4> QED
        BY <4>3, <4>4
    <3>5. CASE ~n
      <4>3. PICK yes : yes = TRUE
        OBVIOUS
      <4>1. PICK then : then = [q EXCEPT !.nawsAccepted = yes]
        OBVIOUS
      <4>2. then = Pars("text", c, e, k, g, yes, l, <<>>, <<>>)
        BY <1>4, <4>1 DEF Pars
      <4>4. Goto(then, "dead") = Pars("dead", c, e, k, g, yes, l, <<>>, <<>>)
        BY <4>2, ParsGoto
      <4>5. WindowOption(q) = Sends(then, bytes, then)
        <5>1. then = [q EXCEPT !.nawsAccepted = TRUE]
          BY <4>1, <4>3, Zenon
        <5> QED
          BY <1>5, <2>2, <3>2, <3>5, <5>1 DEF WindowOption, Answered
      <4>6. /\ senderClosed => Sends(then, bytes, then) = Goto(then, "dead")
            /\ ~senderClosed => Sends(then, bytes, then) = Pars("text", c, e, k, g, yes, l, <<>>, bytes)
        BY <4>2, ParsSends
      <4>7. CASE senderClosed
        BY <1>7, <3>3, <4>3, <4>4, <4>5, <4>6, <4>7, Zenon
      <4>8. CASE ~senderClosed
        BY <1>7, <2>1, <3>1, <3>2, <3>3, <4>3, <4>5, <4>6, <4>8, Zenon
      <4> QED
        BY <4>7, <4>8
    <3> QED
      BY <3>4, <3>5
  <2>3. CASE o = TerminalType /\ c = DO
    <3>1. (IF o = NAWS /\ c = DO THEN TRUE ELSE n) = n
      BY <1>2, <2>3, Zenon
    <3>2. PICK bytes : bytes = Answered(c, o, k, g, n)
      OBVIOUS
    <3>3. Answer(c, o, k, g, n) = WILL
      BY <1>2, <1>10, <2>3 DEF Answer
    <3>4. bytes = Nego(WILL, o)
      BY <1>1, <1>2, <2>3, <3>2, <3>3 DEF Answered
    <3>5. ReadOption(p, o) = Sends(q, bytes, q)
      BY <1>2, <1>3, <1>5, <2>3, <3>4 DEF ReadOption
    <3>6. /\ senderClosed => Sends(q, bytes, q) = Goto(q, "dead")
          /\ ~senderClosed => Sends(q, bytes, q) = Pars("text", c, e, k, g, n, l, <<>>, bytes)
      BY <1>4, ParsSends
    <3> QED
      BY <1>6, <1>7, <2>1, <3>1, <3>2, <3>5, <3>6, Zenon
  <2>4. CASE ~(o \in {NAWS, TerminalType} /\ c = DO)
    <3>1. (IF o = NAWS /\ c = DO THEN TRUE ELSE n) = n
      BY <2>4, Zenon
    <3>2. PICK bytes : bytes = Answered(c, o, k, g, n)
      OBVIOUS
    <3>3. ReadOption(p, o) = SendDeny(q, o)
      BY <1>2, <1>3, <1>5, <1>10, <2>4 DEF ReadOption
    <3>4. CASE c = DONT
      <4>1. Answer(c, o, k, g, n) = 0
        BY <1>1, <1>10, <3>4 DEF Answer
      <4>2. bytes = <<>>
        BY <1>1, <3>2, <3>4, <4>1 DEF Answered
      <4>3. SendDeny(q, o) = q
        BY <1>1, <1>5, <3>4 DEF SendDeny
      <4> QED
        BY <1>4, <1>7, <2>1, <3>1, <3>2, <3>3, <4>2, <4>3, Zenon
    <3>5. CASE c # DONT
      <4>1. PICK x : x = IF c = DO THEN WONT ELSE DONT
        OBVIOUS
      <4>2. Answer(c, o, k, g, n) = x /\ x # 0
        BY <1>1, <1>10, <2>4, <3>5, <4>1 DEF Answer, Verbs
      <4>3. bytes = Nego(x, o)
        BY <2>4, <3>2, <4>2 DEF Answered
      <4>4. SendDeny(q, o) = Sends(q, bytes, q)
        BY <1>1, <1>5, <3>5, <4>1, <4>3 DEF SendDeny, Verbs
      <4>5. /\ senderClosed => Sends(q, bytes, q) = Goto(q, "dead")
            /\ ~senderClosed => Sends(q, bytes, q) = Pars("text", c, e, k, g, n, l, <<>>, bytes)
        BY <1>4, ParsSends
      <4> QED
        BY <1>6, <1>7, <2>1, <3>1, <3>2, <3>3, <4>4, <4>5, Zenon
    <3> QED
      BY <3>4, <3>5
  <2> QED
    BY <2>2, <2>3, <2>4
<1> QED
  BY <1>8, <1>9, <1>10

---------------------------------------------------------------------------
(* What the host makes of a byte, field by field.                           *)

Hos(m, c, p, t, u, h, z, r) ==
  [mode |-> m, cmd |-> c, payload |-> p, text |-> t, us |-> u, him |-> h, size |-> z, replies |-> r]

\* Its fields.
LEMMA HosIs ==
  ASSUME NEW m, NEW c, NEW p, NEW t, NEW u, NEW h, NEW z, NEW r, NEW g, g = Hos(m, c, p, t, u, h, z, r)
  PROVE  /\ g.mode = m /\ g.cmd = c /\ g.payload = p /\ g.text = t /\ g.us = u /\ g.him = h
         /\ g.size = z /\ g.replies = r
  BY DEF Hos

\* A side's state of an option, after the other side's word for it or against it.
Taken(state, for, supported) ==
  IF ~for THEN "no"
  ELSE IF state = "no" THEN IF supported THEN "yes" ELSE "no"
  ELSE IF state = "wantno" THEN "no"
  ELSE "yes"

\* The reply: that it is accepted, that it is refused, or none (0).
Replied(state, for, supported, accept, refuse) ==
  IF for THEN IF state = "no" THEN IF supported THEN accept ELSE refuse ELSE 0
  ELSE IF state = "yes" THEN refuse ELSE 0

UsAfter(u, c, o) ==
  IF c \in {DO, DONT} THEN [u EXCEPT ![o] = Taken(u[o], c = DO, o \in ServerOptions)] ELSE u

HimAfter(h, c, o) ==
  IF c \in {WILL, WONT} THEN [h EXCEPT ![o] = Taken(h[o], c = WILL, o \in ClientOptions)] ELSE h

ReplyTo(u, h, c, o) ==
  IF c \in {DO, DONT} THEN Replied(u[o], c = DO, o \in ServerOptions, WILL, WONT)
  ELSE Replied(h[o], c = WILL, o \in ClientOptions, DO, DONT)

RepliesTo(u, h, c, o) == IF ReplyTo(u, h, c, o) = 0 THEN <<>> ELSE Nego(ReplyTo(u, h, c, o), o)

\* The host with a reply.
LEMMA HosReply ==
  ASSUME NEW m, NEW c, NEW p, NEW t, NEW u, NEW h, NEW z,
         NEW g, g = Hos(m, c, p, t, u, h, z, <<>>), NEW v \in Nat, NEW o \in Nat
  PROVE  Reply(g, v, o) = Hos(m, c, p, t, u, h, z, Nego(v, o))
<1>1. g.replies = <<>>
  BY HosIs
<1>2. <<IAC, v, o>> \in Seq(Nat)
  BY ThreeBytes DEF IAC
<1>3. PICK n : n = Nego(v, o)
  OBVIOUS
<1>4. n \in Seq(Nat)
  BY <1>2, <1>3 DEF Nego
<1>5. <<>> \o n = n
  BY <1>4, ConcatEmptySeq
<1>6. PICK x : x = [g EXCEPT !.replies = n]
  OBVIOUS
<1>7. x = Hos(m, c, p, t, u, h, z, n)
  BY <1>6 DEF Hos
<1>8. Reply(g, v, o) = x
  BY <1>1, <1>3, <1>5, <1>6, Zenon DEF Reply
<1> QED
  BY <1>3, <1>7, <1>8, Zenon

\* That is what the option of a command does to the host.
LEMMA NegotiatedEffect ==
  ASSUME NEW c \in Verbs, NEW p, NEW t, NEW u, NEW h, NEW z, NEW o \in Nat,
         NEW g, g = Hos("option", c, p, t, u, h, z, <<>>)
  PROVE  Negotiated(g, c, o) = Hos("text", c, p, t, UsAfter(u, c, o), HimAfter(h, c, o), z, RepliesTo(u, h, c, o))
<1>1. /\ WILL # WONT /\ WILL # DO /\ WILL # DONT /\ WONT # DO /\ WONT # DONT /\ DO # DONT
      /\ WILL # 0 /\ WONT # 0 /\ DO # 0 /\ DONT # 0
      /\ WILL \in Nat /\ WONT \in Nat /\ DO \in Nat /\ DONT \in Nat
  BY DEF WILL, WONT, DO, DONT
<1>2. PICK f : f = [g EXCEPT !.mode = "text"]
  OBVIOUS
<1>3. f = Hos("text", c, p, t, u, h, z, <<>>)
  BY <1>2 DEF Hos
<1>4. g.him = h /\ g.us = u /\ f.him = h /\ f.us = u
  BY <1>3, HosIs
<1> DEFINE H(v) == [f EXCEPT !.him[o] = v]
           U(v) == [f EXCEPT !.us[o] = v]
           Out(u2, h2, r) == Hos("text", c, p, t, u2, h2, z, r)
<1>5. ASSUME NEW v
      PROVE  /\ H(v) = Out(u, [h EXCEPT ![o] = v], <<>>)
             /\ U(v) = Out([u EXCEPT ![o] = v], h, <<>>)
  <2>1. PICK x, y, h2, u2 : /\ x = [f EXCEPT !.him[o] = v] /\ y = [f EXCEPT !.us[o] = v]
                            /\ h2 = [h EXCEPT ![o] = v] /\ u2 = [u EXCEPT ![o] = v]
    OBVIOUS
  <2>2. x = Out(u, h2, <<>>) /\ y = Out(u2, h, <<>>)
    <3>1. x = [f EXCEPT !.him = h2] /\ y = [f EXCEPT !.us = u2]
      BY <1>4, <2>1, Zenon
    <3>2. x = Hos("text", c, p, t, u, h2, z, <<>>)
      BY <1>3, <3>1 DEF Hos
    <3>3. y = Hos("text", c, p, t, u2, h, z, <<>>)
      BY <1>3, <3>1 DEF Hos
    <3> QED
      BY <3>2, <3>3, Zenon
  <2> QED
    BY <2>1, <2>2, Zenon
<1>6. ASSUME NEW v, NEW w \in Nat
      PROVE  /\ Reply(H(v), w, o) = Out(u, [h EXCEPT ![o] = v], Nego(w, o))
             /\ Reply(U(v), w, o) = Out([u EXCEPT ![o] = v], h, Nego(w, o))
  <2>1. PICK x, y, h2, u2 : x = H(v) /\ y = U(v) /\ h2 = [h EXCEPT ![o] = v] /\ u2 = [u EXCEPT ![o] = v]
    OBVIOUS
  <2>2. x = Out(u, h2, <<>>) /\ y = Out(u2, h, <<>>)
    BY <1>5, <2>1, Zenon
  <2>3. Reply(x, w, o) = Out(u, h2, Nego(w, o)) /\ Reply(y, w, o) = Out(u2, h, Nego(w, o))
    BY <2>2, HosReply
  <2> QED
    BY <2>1, <2>3, Zenon
<1>11. PICK x1, x2, x3, x4, x5, x6, x7, x8 :
         /\ x1 = Reply(H(Agrees("no", o \in ClientOptions)), IF o \in ClientOptions THEN DO ELSE DONT, o)
         /\ x2 = H(Agrees(h[o], TRUE)) /\ x3 = Reply(H("no"), DONT, o) /\ x4 = H("no")
         /\ x5 = Reply(U(Agrees("no", o \in ServerOptions)), IF o \in ServerOptions THEN WILL ELSE WONT, o)
         /\ x6 = U(Agrees(u[o], TRUE)) /\ x7 = Reply(U("no"), WONT, o) /\ x8 = U("no")
  OBVIOUS
<1>12. Negotiated(g, c, o) =
         CASE c = WILL /\ h[o] = "no" -> x1 [] c = WILL /\ h[o] # "no" -> x2
           [] c = WONT /\ h[o] = "yes" -> x3 [] c = WONT /\ h[o] # "yes" -> x4
           [] c = DO /\ u[o] = "no" -> x5 [] c = DO /\ u[o] # "no" -> x6
           [] c = DONT /\ u[o] = "yes" -> x7 [] OTHER -> x8
  <2>1. Negotiated(g, c, o) =
          CASE c = WILL /\ g.him[o] = "no" -> Reply(H(Agrees("no", o \in ClientOptions)), IF o \in ClientOptions THEN DO ELSE DONT, o)
            [] c = WILL /\ g.him[o] # "no" -> H(Agrees(f.him[o], TRUE))
            [] c = WONT /\ g.him[o] = "yes" -> Reply(H("no"), DONT, o) [] c = WONT /\ g.him[o] # "yes" -> H("no")
            [] c = DO /\ g.us[o] = "no" -> Reply(U(Agrees("no", o \in ServerOptions)), IF o \in ServerOptions THEN WILL ELSE WONT, o)
            [] c = DO /\ g.us[o] # "no" -> U(Agrees(f.us[o], TRUE))
            [] c = DONT /\ g.us[o] = "yes" -> Reply(U("no"), WONT, o) [] OTHER -> U("no")
    BY <1>2, Zenon DEF Negotiated
  <2> QED
    BY <1>4, <1>11, <2>1, Zenon
<1> HIDE DEF H, U
<1>7. CASE c = WILL
  <2>1. UsAfter(u, c, o) = u /\ HimAfter(h, c, o) = [h EXCEPT ![o] = Taken(h[o], TRUE, o \in ClientOptions)]
    BY <1>1, <1>7 DEF UsAfter, HimAfter
  <2>2. ReplyTo(u, h, c, o) = Replied(h[o], TRUE, o \in ClientOptions, DO, DONT)
    BY <1>1, <1>7 DEF ReplyTo
  <2>3. CASE h[o] = "no"
    <3>1. Taken(h[o], TRUE, o \in ClientOptions) = Agrees("no", o \in ClientOptions)
      BY <2>3 DEF Taken, Agrees
    <3>2. PICK w \in Nat : w = (IF o \in ClientOptions THEN DO ELSE DONT) /\ w # 0
      BY <1>1
    <3>3. ReplyTo(u, h, c, o) = w
      BY <2>2, <2>3, <3>2 DEF Replied
    <3>4. Negotiated(g, c, o) = x1
      BY <1>1, <1>7, <1>12, <2>3
    <3>5. x1 = Reply(H(Agrees("no", o \in ClientOptions)), w, o)
      BY <1>11, <3>2, Zenon
    <3>6. Reply(H(Agrees("no", o \in ClientOptions)), w, o) = Out(u, [h EXCEPT ![o] = Agrees("no", o \in ClientOptions)], Nego(w, o))
      BY <1>6
    <3> QED
      BY <2>1, <3>1, <3>2, <3>3, <3>4, <3>5, <3>6, Zenon DEF RepliesTo
  <2>4. CASE h[o] # "no"
    <3>1. Taken(h[o], TRUE, o \in ClientOptions) = Agrees(h[o], TRUE)
      BY <2>4 DEF Taken, Agrees
    <3>3. ReplyTo(u, h, c, o) = 0
      BY <2>2, <2>4 DEF Replied
    <3>4. Negotiated(g, c, o) = x2
      BY <1>1, <1>7, <1>12, <2>4
    <3>6. x2 = Out(u, [h EXCEPT ![o] = Agrees(h[o], TRUE)], <<>>)
      BY <1>5, <1>11, Zenon DEF H, U
    <3> QED
      BY <2>1, <3>1, <3>3, <3>4, <3>6, Zenon DEF RepliesTo
  <2> QED
    BY <2>3, <2>4
<1>8. CASE c = WONT
  <2>1. UsAfter(u, c, o) = u /\ HimAfter(h, c, o) = [h EXCEPT ![o] = Taken(h[o], FALSE, o \in ClientOptions)]
    BY <1>1, <1>8 DEF UsAfter, HimAfter
  <2>2. ReplyTo(u, h, c, o) = Replied(h[o], FALSE, o \in ClientOptions, DO, DONT)
    BY <1>1, <1>8 DEF ReplyTo
  <2>3. CASE h[o] = "yes"
    <3>1. Taken(h[o], FALSE, o \in ClientOptions) = "no"
      BY <2>3 DEF Taken, Agrees
    <3>2. PICK w \in Nat : w = (DONT) /\ w # 0
      BY <1>1
    <3>3. ReplyTo(u, h, c, o) = w
      BY <2>2, <2>3, <3>2 DEF Replied
    <3>4. Negotiated(g, c, o) = x3
      BY <1>1, <1>8, <1>12, <2>3
    <3>5. x3 = Reply(H("no"), w, o)
      BY <1>11, <3>2, Zenon
    <3>6. Reply(H("no"), w, o) = Out(u, [h EXCEPT ![o] = "no"], Nego(w, o))
      BY <1>6
    <3> QED
      BY <2>1, <3>1, <3>2, <3>3, <3>4, <3>5, <3>6, Zenon DEF RepliesTo
  <2>4. CASE h[o] # "yes"
    <3>1. Taken(h[o], FALSE, o \in ClientOptions) = "no"
      BY <2>4 DEF Taken, Agrees
    <3>3. ReplyTo(u, h, c, o) = 0
      BY <2>2, <2>4 DEF Replied
    <3>4. Negotiated(g, c, o) = x4
      BY <1>1, <1>8, <1>12, <2>4
    <3>6. x4 = Out(u, [h EXCEPT ![o] = "no"], <<>>)
      BY <1>5, <1>11, Zenon DEF H, U
    <3> QED
      BY <2>1, <3>1, <3>3, <3>4, <3>6, Zenon DEF RepliesTo
  <2> QED
    BY <2>3, <2>4
<1>9. CASE c = DO
  <2>1. UsAfter(u, c, o) = [u EXCEPT ![o] = Taken(u[o], TRUE, o \in ServerOptions)] /\ HimAfter(h, c, o) = h
    BY <1>1, <1>9 DEF UsAfter, HimAfter
  <2>2. ReplyTo(u, h, c, o) = Replied(u[o], TRUE, o \in ServerOptions, WILL, WONT)
    BY <1>1, <1>9 DEF ReplyTo
  <2>3. CASE u[o] = "no"
    <3>1. Taken(u[o], TRUE, o \in ServerOptions) = Agrees("no", o \in ServerOptions)
      BY <2>3 DEF Taken, Agrees
    <3>2. PICK w \in Nat : w = (IF o \in ServerOptions THEN WILL ELSE WONT) /\ w # 0
      BY <1>1
    <3>3. ReplyTo(u, h, c, o) = w
      BY <2>2, <2>3, <3>2 DEF Replied
    <3>4. Negotiated(g, c, o) = x5
      BY <1>1, <1>9, <1>12, <2>3
    <3>5. x5 = Reply(U(Agrees("no", o \in ServerOptions)), w, o)
      BY <1>11, <3>2, Zenon
    <3>6. Reply(U(Agrees("no", o \in ServerOptions)), w, o) = Out([u EXCEPT ![o] = Agrees("no", o \in ServerOptions)], h, Nego(w, o))
      BY <1>6
    <3> QED
      BY <2>1, <3>1, <3>2, <3>3, <3>4, <3>5, <3>6, Zenon DEF RepliesTo
  <2>4. CASE u[o] # "no"
    <3>1. Taken(u[o], TRUE, o \in ServerOptions) = Agrees(u[o], TRUE)
      BY <2>4 DEF Taken, Agrees
    <3>3. ReplyTo(u, h, c, o) = 0
      BY <2>2, <2>4 DEF Replied
    <3>4. Negotiated(g, c, o) = x6
      BY <1>1, <1>9, <1>12, <2>4
    <3>6. x6 = Out([u EXCEPT ![o] = Agrees(u[o], TRUE)], h, <<>>)
      BY <1>5, <1>11, Zenon DEF H, U
    <3> QED
      BY <2>1, <3>1, <3>3, <3>4, <3>6, Zenon DEF RepliesTo
  <2> QED
    BY <2>3, <2>4
<1>10. CASE c = DONT
  <2>1. UsAfter(u, c, o) = [u EXCEPT ![o] = Taken(u[o], FALSE, o \in ServerOptions)] /\ HimAfter(h, c, o) = h
    BY <1>1, <1>10 DEF UsAfter, HimAfter
  <2>2. ReplyTo(u, h, c, o) = Replied(u[o], FALSE, o \in ServerOptions, WILL, WONT)
    BY <1>1, <1>10 DEF ReplyTo
  <2>3. CASE u[o] = "yes"
    <3>1. Taken(u[o], FALSE, o \in ServerOptions) = "no"
      BY <2>3 DEF Taken, Agrees
    <3>2. PICK w \in Nat : w = (WONT) /\ w # 0
      BY <1>1
    <3>3. ReplyTo(u, h, c, o) = w
      BY <2>2, <2>3, <3>2 DEF Replied
    <3>4. Negotiated(g, c, o) = x7
      BY <1>1, <1>10, <1>12, <2>3
    <3>5. x7 = Reply(U("no"), w, o)
      BY <1>11, <3>2, Zenon
    <3>6. Reply(U("no"), w, o) = Out([u EXCEPT ![o] = "no"], h, Nego(w, o))
      BY <1>6
    <3> QED
      BY <2>1, <3>1, <3>2, <3>3, <3>4, <3>5, <3>6, Zenon DEF RepliesTo
  <2>4. CASE u[o] # "yes"
    <3>1. Taken(u[o], FALSE, o \in ServerOptions) = "no"
      BY <2>4 DEF Taken, Agrees
    <3>3. ReplyTo(u, h, c, o) = 0
      BY <2>2, <2>4 DEF Replied
    <3>4. Negotiated(g, c, o) = x8
      BY <1>1, <1>10, <1>12, <2>4
    <3>6. x8 = Out([u EXCEPT ![o] = "no"], h, <<>>)
      BY <1>5, <1>11, Zenon DEF H, U
    <3> QED
      BY <2>1, <3>1, <3>3, <3>4, <3>6, Zenon DEF RepliesTo
  <2> QED
    BY <2>3, <2>4
<1> QED
  BY <1>7, <1>8, <1>9, <1>10 DEF Verbs

\* Outside of a command about an option the host changes none of its options.  What a
\* subnegotiation holds is its own affair.
LEMMA HeardEffect ==
  ASSUME NEW m \in Modes \ {"type", "option"}, NEW c, NEW p, NEW t, NEW u, NEW h, NEW z,
         NEW g, g = Hos(m, c, p, t, u, h, z, <<>>), NEW b
  PROVE  /\ m = "text" => Heard(g, b) = IF b = IAC THEN Hos("command", c, p, t, u, h, z, <<>>)
                                        ELSE Hos("text", c, p, Append(t, b), u, h, z, <<>>)
         /\ m = "command" => Heard(g, b) =
              IF b = IAC THEN Hos("text", c, p, Append(t, b), u, h, z, <<>>)
              ELSE IF b = SB THEN Hos("sub", c, <<>>, t, u, h, z, <<>>)
              ELSE IF b \in Verbs THEN Hos("option", b, p, t, u, h, z, <<>>)
              ELSE Hos("text", c, p, t, u, h, z, <<>>)
         /\ m = "sub" => IF b = IAC THEN Heard(g, b) = Hos("subend", c, p, t, u, h, z, <<>>)
                         ELSE \E p2 : Heard(g, b) = Hos("sub", c, p2, t, u, h, z, <<>>)
         /\ m = "subend" => IF b = SE THEN \E z2 : Heard(g, b) = Hos("text", c, p, t, u, h, z2, <<>>)
                            ELSE \E p2 : Heard(g, b) = Hos("sub", c, p2, t, u, h, z, <<>>)
<1>1. g.mode = m /\ g.cmd = c /\ g.payload = p /\ g.text = t /\ g.size = z
  BY HosIs
<1>2. IAC \notin Verbs /\ SB \notin Verbs /\ IAC # SB /\ IAC # SE
  BY DEF Verbs, WILL, WONT, DO, DONT, IAC, SB, SE
<1>3. PICK x1, x2, x3, x4, x5, x6, x7, x8 :
        /\ x1 = [g EXCEPT !.text = Append(@, b)] /\ x2 = [g EXCEPT !.mode = "command"]
        /\ x3 = [g EXCEPT !.mode = "text", !.text = Append(@, IAC)]
        /\ x4 = [g EXCEPT !.mode = "sub", !.payload = <<>>]
        /\ x5 = [g EXCEPT !.mode = "option", !.cmd = b]
        /\ x6 = [g EXCEPT !.payload = Append(@, b)]
        /\ x7 = [g EXCEPT !.mode = "subend"]
        /\ x8 = [g EXCEPT !.mode = "sub", !.payload = Append(@, IAC)]
  OBVIOUS
<1>4. PICK y1, y2 : y1 = [g EXCEPT !.mode = "sub"] /\ y2 = [g EXCEPT !.mode = "text"]
  OBVIOUS
<1>5. PICK k, l : k = Learns(g) /\ l = Negotiated(g, c, b)
  OBVIOUS
<1>6. Heard(g, b) =
        CASE m = "text" /\ b # IAC -> x1 [] m = "text" /\ b = IAC -> x2
          [] m = "command" /\ b = IAC -> x3 [] m = "command" /\ b = SB -> x4
          [] m = "command" /\ b \in Verbs -> x5 [] m = "option" -> l
          [] m = "sub" /\ b # IAC -> x6 [] m = "sub" /\ b = IAC -> x7
          [] m = "subend" /\ b = IAC -> x8 [] m = "subend" /\ b = SE -> k
          [] m = "subend" /\ b \notin {IAC, SE} -> y1 [] OTHER -> y2
  <2>1. Heard(g, b) =
          CASE g.mode = "text" /\ b # IAC -> x1 [] g.mode = "text" /\ b = IAC -> x2
            [] g.mode = "command" /\ b = IAC -> x3 [] g.mode = "command" /\ b = SB -> x4
            [] g.mode = "command" /\ b \in {WILL, WONT, DO, DONT} -> x5 [] g.mode = "option" -> Negotiated(g, g.cmd, b)
            [] g.mode = "sub" /\ b # IAC -> x6 [] g.mode = "sub" /\ b = IAC -> x7
            [] g.mode = "subend" /\ b = IAC -> x8 [] g.mode = "subend" /\ b = SE -> k
            [] g.mode = "subend" /\ b \notin {IAC, SE} -> y1 [] OTHER -> y2
    BY <1>3, <1>4, <1>5, Zenon DEF Heard
  <2> QED
    BY <1>1, <1>5, <2>1, Zenon DEF Verbs
<1>7. PICK tb, ti, pb, pi : tb = Append(t, b) /\ ti = Append(t, IAC) /\ pb = Append(p, b) /\ pi = Append(p, IAC)
  OBVIOUS
<1>8. CASE m = "text"
  <2>1. x1 = [g EXCEPT !.text = tb]
    BY <1>1, <1>3, <1>7, Zenon
  <2>2. x1 = Hos("text", c, p, tb, u, h, z, <<>>) /\ x2 = Hos("command", c, p, t, u, h, z, <<>>)
    BY <1>3, <1>8, <2>1 DEF Hos
  <2> QED
    BY <1>6, <1>7, <1>8, <2>2
<1>9. CASE m = "command"
  <2>1. x3 = [g EXCEPT !.mode = "text", !.text = ti]
    BY <1>1, <1>3, <1>7, Zenon
  <2>2. x3 = Hos("text", c, p, ti, u, h, z, <<>>)
    BY <2>1 DEF Hos
  <2>3. x4 = Hos("sub", c, <<>>, t, u, h, z, <<>>)
    BY <1>3 DEF Hos
  <2>4. x5 = Hos("option", b, p, t, u, h, z, <<>>)
    BY <1>3 DEF Hos
  <2>5. y2 = Hos("text", c, p, t, u, h, z, <<>>)
    BY <1>4 DEF Hos
  <2> QED
    BY <1>2, <1>6, <1>7, <1>9, <2>2, <2>3, <2>4, <2>5
<1>10. CASE m = "sub"
  <2>1. x6 = [g EXCEPT !.payload = pb]
    BY <1>1, <1>3, <1>7, Zenon
  <2>2. x6 = Hos("sub", c, pb, t, u, h, z, <<>>)
    BY <1>10, <2>1 DEF Hos
  <2>3. x7 = Hos("subend", c, p, t, u, h, z, <<>>)
    BY <1>3 DEF Hos
  <2>4. b = IAC => Heard(g, b) = x7
    BY <1>6, <1>10
  <2>5. b # IAC => Heard(g, b) = x6
    BY <1>6, <1>10
  <2> QED
    BY <1>10, <2>2, <2>3, <2>4, <2>5
<1>11. CASE m = "subend"
  <2>1. x8 = [g EXCEPT !.mode = "sub", !.payload = pi]
    BY <1>1, <1>3, <1>7, Zenon
  <2>2. x8 = Hos("sub", c, pi, t, u, h, z, <<>>)
    BY <2>1 DEF Hos
  <2>3. y1 = Hos("sub", c, p, t, u, h, z, <<>>)
    BY <1>4 DEF Hos
  <2>4. PICK z2 : k = [g EXCEPT !.mode = "text", !.size = z2]
    BY <1>5, Zenon DEF Learns
  <2>5. k = Hos("text", c, p, t, u, h, z2, <<>>)
    BY <2>4 DEF Hos
  <2>6. /\ b = IAC => Heard(g, b) = x8
        /\ b = SE => Heard(g, b) = k
        /\ b \notin {IAC, SE} => Heard(g, b) = y1
    BY <1>2, <1>6, <1>11
  <2> QED
    BY <1>11, <2>2, <2>3, <2>5, <2>6
<1> QED
  BY <1>8, <1>9, <1>10, <1>11 DEF Modes

\* The host has gone on by a byte, with the bytes that follow before it: its options are
\* what they were.
Heeds(x, u, h, rest, whole, negos) ==
  \E m \in Modes \ {"type"}, c \in Nat, t \in Seq(Nat) : \E p, z :
    /\ x = Hos(m, c, p, t, u, h, z, <<>>)
    /\ m = "option" => c \in Verbs
    /\ Ahead(FALSE, rest, m, c, t, whole, negos)

\* A byte that is not a command about an option takes the host on its way.
LEMMA HostGoes ==
  ASSUME NEW m \in Modes, m \notin {"type", "option"}, NEW c \in Nat, NEW p, NEW t \in Seq(Nat), NEW u, NEW h, NEW z,
         NEW g, g = Hos(m, c, p, t, u, h, z, <<>>),
         NEW bytes \in Seq(Nat), bytes # <<>>, NEW whole, NEW negos \in Seq(Nego2),
         Ahead(FALSE, bytes, m, c, t, whole, negos),
         NEW b, b = Head(bytes), NEW rest, rest = Tail(bytes)
  PROVE  Heeds(Heard(g, b), u, h, rest, whole, negos)
<1>2. b \in Nat /\ rest \in Seq(Nat)
  BY HeadTailProperties
<1>3. Append(t, b) \in Seq(Nat)
  BY <1>2, AppendProperties
<1>4. ASSUME NEW m2 \in Modes \ {"type"}, NEW c2 \in Nat, NEW p2, NEW t2 \in Seq(Nat), NEW z2,
             m2 = "option" => c2 \in Verbs,
             NEW x, x = Hos(m2, c2, p2, t2, u, h, z2, <<>>),
             Ahead(FALSE, rest, m2, c2, t2, whole, negos)
      PROVE  Heeds(x, u, h, rest, whole, negos)
  BY <1>4, Zenon DEF Heeds
<1>5. m \in Modes /\ FALSE \in BOOLEAN /\ ~(b = TerminalType /\ FALSE)
  OBVIOUS
<1>6. /\ "text" \in Modes \ {"type"} /\ "command" \in Modes \ {"type"} /\ "sub" \in Modes \ {"type"}
      /\ "subend" \in Modes \ {"type"} /\ "option" \in Modes \ {"type"} /\ "text" # "option"
      /\ "command" # "option" /\ "sub" # "option" /\ "subend" # "option"
  BY DEF Modes
<1>11. /\ m = "text" /\ b = IAC => Ahead(FALSE, rest, "command", c, t, whole, negos)
       /\ m = "text" /\ b # IAC => Ahead(FALSE, rest, "text", c, Append(t, b), whole, negos)
       /\ m = "command" /\ b = IAC => Ahead(FALSE, rest, "text", c, Append(t, b), whole, negos)
       /\ m = "command" /\ b = SB => Ahead(FALSE, rest, "sub", c, t, whole, negos)
       /\ m = "command" /\ b \in Verbs => Ahead(FALSE, rest, "option", b, t, whole, negos)
       /\ m = "command" /\ b \notin {IAC, SB} \cup Verbs => Ahead(FALSE, rest, "text", c, t, whole, negos)
  BY <1>5, AheadByte
<1>12. /\ m = "sub" /\ b = IAC => Ahead(FALSE, rest, "subend", c, t, whole, negos)
       /\ m = "sub" /\ b # IAC => Ahead(FALSE, rest, "sub", c, t, whole, negos)
       /\ m = "subend" /\ b = SE => Ahead(FALSE, rest, "text", c, t, whole, negos)
       /\ m = "subend" /\ b # SE => Ahead(FALSE, rest, "sub", c, t, whole, negos)
  <2>1. Inside(FALSE, rest, m, c, t, whole, negos, b)
    BY AheadInside
  <2>2. ~(b = TerminalType /\ FALSE)
    OBVIOUS
  <2> QED
    BY <2>1, <2>2, Zenon DEF Inside
<1>13. /\ m = "sub" => IF b = IAC THEN Heard(g, b) = Hos("subend", c, p, t, u, h, z, <<>>)
                        ELSE \E p2 : Heard(g, b) = Hos("sub", c, p2, t, u, h, z, <<>>)
       /\ m = "subend" => IF b = SE THEN \E z2 : Heard(g, b) = Hos("text", c, p, t, u, h, z2, <<>>)
                           ELSE \E p2 : Heard(g, b) = Hos("sub", c, p2, t, u, h, z, <<>>)
  BY HeardEffect
<1>7. CASE m = "text"
  <2>1. /\ b = IAC => Ahead(FALSE, rest, "command", c, t, whole, negos)
        /\ b # IAC => Ahead(FALSE, rest, "text", c, Append(t, b), whole, negos)
    BY <1>7, <1>11
  <2>2. Heard(g, b) = IF b = IAC THEN Hos("command", c, p, t, u, h, z, <<>>)
                      ELSE Hos("text", c, p, Append(t, b), u, h, z, <<>>)
    BY <1>7, HeardEffect
  <2> QED
    BY <1>3, <1>4, <1>6, <2>1, <2>2, Zenon
<1>8. CASE m = "command"
  <2>1. /\ b = IAC => Ahead(FALSE, rest, "text", c, Append(t, b), whole, negos)
        /\ b = SB => Ahead(FALSE, rest, "sub", c, t, whole, negos)
        /\ b \in Verbs => Ahead(FALSE, rest, "option", b, t, whole, negos)
        /\ b \notin {IAC, SB} \cup Verbs => Ahead(FALSE, rest, "text", c, t, whole, negos)
    BY <1>8, <1>11
  <2>2. Heard(g, b) =
          IF b = IAC THEN Hos("text", c, p, Append(t, b), u, h, z, <<>>)
          ELSE IF b = SB THEN Hos("sub", c, <<>>, t, u, h, z, <<>>)
          ELSE IF b \in Verbs THEN Hos("option", b, p, t, u, h, z, <<>>)
          ELSE Hos("text", c, p, t, u, h, z, <<>>)
    BY <1>8, HeardEffect
  <2>3. CASE b = IAC
    BY <1>3, <1>4, <1>6, <2>1, <2>2, <2>3, Zenon
  <2>4. CASE b # IAC /\ b = SB
    BY <1>4, <1>6, <2>1, <2>2, <2>4, Zenon
  <2>5. CASE b # IAC /\ b # SB /\ b \in Verbs
    BY <1>2, <1>4, <1>6, <2>1, <2>2, <2>5, Zenon
  <2>6. CASE b \notin {IAC, SB} \cup Verbs
    <3>1. b # IAC /\ b # SB /\ b \notin Verbs
      BY <2>6
    <3> QED
      BY <1>4, <1>6, <2>1, <2>2, <2>6, <3>1, Zenon
  <2> QED
    BY <2>3, <2>4, <2>5, <2>6
<1>9. CASE m = "sub"
  <2>1. /\ b = IAC => Ahead(FALSE, rest, "subend", c, t, whole, negos)
        /\ b # IAC => Ahead(FALSE, rest, "sub", c, t, whole, negos)
    BY <1>9, <1>12
  <2>2. IF b = IAC THEN Heard(g, b) = Hos("subend", c, p, t, u, h, z, <<>>)
        ELSE \E p2 : Heard(g, b) = Hos("sub", c, p2, t, u, h, z, <<>>)
    BY <1>9, <1>13, Zenon
  <2> QED
    BY <1>4, <1>6, <2>1, <2>2, Zenon
<1>10. CASE m = "subend"
  <2>1. /\ b = SE => Ahead(FALSE, rest, "text", c, t, whole, negos)
        /\ b # SE => Ahead(FALSE, rest, "sub", c, t, whole, negos)
    BY <1>10, <1>12
  <2>2. IF b = SE THEN \E z2 : Heard(g, b) = Hos("text", c, p, t, u, h, z2, <<>>)
        ELSE \E p2 : Heard(g, b) = Hos("sub", c, p2, t, u, h, z, <<>>)
    BY <1>10, <1>13, Zenon
  <2> QED
    BY <1>4, <1>6, <2>1, <2>2, Zenon
<1> QED
  BY <1>7, <1>8, <1>9, <1>10 DEF Modes

\* The parser has gone on by a byte, with the bytes that follow before it, or has ended:
\* the options are what they were.  What it sends is at most the type of the terminal.
Follows(x, k, g, n, l, shownBefore, rest, whole, negos) ==
  \E m \in Modes \cup {"dead"}, c \in Nat, e \in BOOLEAN, t \in Seq(Nat) : \E s :
    /\ x = Pars(m, c, e, k, g, n, l, t, s)
    /\ m = "option" => c \in Verbs
    /\ s = <<>> \/ (s = SubNego(TypeName, TerminalType) /\ ~senderClosed)
    /\ m # "dead" => Ahead(TRUE, rest, m, c, shownBefore \o t, whole, negos)
    /\ m = "dead" => t = <<>> /\ (senderClosed \/ Ahead(TRUE, rest, "text", c, shownBefore, whole, negos))

\* A byte that is not a command about an option takes the parser on its way.
LEMMA ParserGoes ==
  ASSUME NEW m \in Modes, m # "option", NEW c \in Nat, NEW e \in BOOLEAN, NEW k, NEW g, NEW n, NEW l,
         NEW p, p = Pars(m, c, e, k, g, n, l, <<>>, <<>>), NEW text \in Seq(Nat),
         NEW bytes \in Seq(Nat), bytes # <<>>, NEW whole, NEW negos \in Seq(Nego2),
         Ahead(TRUE, bytes, m, c, text, whole, negos),
         NEW b \in Nat, b = Head(bytes), NEW rest, rest = Tail(bytes)
  PROVE  Follows(Read(p, b), k, g, n, l, text, rest, whole, negos)
<1>2. b \in Nat /\ rest \in Seq(Nat)
  BY HeadTailProperties
<1>3. text \o <<b>> = Append(text, b) /\ text \o <<>> = text /\ <<>> \in Seq(Nat) /\ <<b>> \in Seq(Nat)
  BY <1>2, ByteByByte, ConcatEmptySeq
<1>4. ASSUME NEW m2 \in Modes, NEW c2 \in Nat, NEW e2 \in BOOLEAN, m2 = "option" => c2 \in Verbs,
             NEW x, x = Pars(m2, c2, e2, k, g, n, l, <<>>, <<>>),
             Ahead(TRUE, rest, m2, c2, text, whole, negos)
      PROVE  Follows(x, k, g, n, l, text, rest, whole, negos)
  <2>1. m2 # "dead" /\ m2 \in Modes \cup {"dead"}
    BY DEF Modes
  <2> QED
    BY <1>3, <1>4, <2>1, Zenon DEF Follows
<1>5. ASSUME NEW x, x = Pars("text", c, e, k, g, n, l, <<b>>, <<>>),
             Ahead(TRUE, rest, "text", c, Append(text, b), whole, negos)
      PROVE  Follows(x, k, g, n, l, text, rest, whole, negos)
  <2>1. "text" # "dead" /\ "text" \in Modes \cup {"dead"} /\ "text" # "option"
    BY DEF Modes
  <2> QED
    BY <1>3, <1>5, <2>1, Zenon DEF Follows
<1>6. ASSUME NEW x, x = Pars("dead", c, e, k, g, n, l, <<>>, <<>>),
             senderClosed \/ Ahead(TRUE, rest, "text", c, text, whole, negos)
      PROVE  Follows(x, k, g, n, l, text, rest, whole, negos)
  <2>1. "dead" \in Modes \cup {"dead"} /\ "dead" # "option"
    OBVIOUS
  <2> QED
    BY <1>3, <1>6, <2>1, Zenon DEF Follows
<1>7. ASSUME NEW x, x = Pars("text", c, e, k, g, n, l, <<>>, SubNego(TypeName, TerminalType)), ~senderClosed,
             Ahead(TRUE, rest, "text", c, text, whole, negos)
      PROVE  Follows(x, k, g, n, l, text, rest, whole, negos)
  <2>1. "text" # "dead" /\ "text" \in Modes \cup {"dead"} /\ "text" # "option"
    BY DEF Modes
  <2> QED
    BY <1>3, <1>7, <2>1, Zenon DEF Follows
<1>8. /\ "text" \in Modes /\ "command" \in Modes /\ "sub" \in Modes
      /\ "subend" \in Modes /\ "option" \in Modes /\ "type" \in Modes /\ "text" # "option" /\ "type" # "option"
      /\ "command" # "option" /\ "sub" # "option" /\ "subend" # "option" /\ TRUE \in BOOLEAN /\ m \in Modes
  BY DEF Modes
<1> DEFINE To(m2, c2, t2) == Ahead(TRUE, rest, m2, c2, t2, whole, negos)
           X(m2, c2, e2, t2, s2) == Pars(m2, c2, e2, k, g, n, l, t2, s2)
           Goal == Follows(Read(p, b), k, g, n, l, text, rest, whole, negos)
<1>18. ReadTo(p, b, m, c, e, k, g, n, l)
  BY ReadEffect
<1>15. /\ m = "text" => Read(p, b) = IF b = IAC THEN Pars("command", c, e, k, g, n, l, <<>>, <<>>)
                                       ELSE Pars("text", c, e, k, g, n, l, <<b>>, <<>>)
       /\ m = "command" /\ b = SB => \E e2 \in BOOLEAN : Read(p, b) = Pars("sub", c, e2, k, g, n, l, <<>>, <<>>)
       /\ m = "command" /\ b # SB => Read(p, b) =
              IF b = IAC THEN Pars("text", c, e, k, g, n, l, <<b>>, <<>>)
              ELSE IF b \in Verbs THEN Pars("option", b, e, k, g, n, l, <<>>, <<>>)
              ELSE IF b = GoAhead THEN Pars("text", c, e, k, g, n, l, <<>>, <<>>)
              ELSE Pars("dead", c, e, k, g, n, l, <<>>, <<>>)
  BY <1>18, Zenon DEF ReadTo
<1>16. /\ m = "sub" => Read(p, b) =
              IF b = IAC THEN Pars("subend", c, e, k, g, n, l, <<>>, <<>>)
              ELSE IF b = TerminalType THEN Pars("type", c, e, k, g, n, l, <<>>, <<>>)
              ELSE p
       /\ m = "type" => Read(p, b) = Pars("sub", c, b = TypeSend, k, g, n, l, <<>>, <<>>)
       /\ m = "subend" => Read(p, b) =
              IF b # SE THEN Pars("sub", c, e, k, g, n, l, <<>>, <<>>)
              ELSE IF ~e THEN Pars("text", c, e, k, g, n, l, <<>>, <<>>)
              ELSE IF senderClosed THEN Pars("dead", c, e, k, g, n, l, <<>>, <<>>)
              ELSE Pars("text", c, e, k, g, n, l, <<>>, SubNego(TypeName, TerminalType))
  BY <1>18, Zenon DEF ReadTo
<1>17. /\ m = "type" => To("sub", c, text)
       /\ m = "subend" /\ b = SE => To("text", c, text)
       /\ m = "subend" /\ b # SE => To("sub", c, text)
  <2>1. Inside(TRUE, rest, m, c, text, whole, negos, b)
    BY AheadInside
  <2> QED
    BY <2>1, Zenon DEF Inside
<1>10. CASE m = "text"
  <2>1. (b = IAC => To("command", c, text)) /\ (b # IAC => To("text", c, Append(text, b)))
    BY <1>8, <1>10, AheadByte
  <2>2. Read(p, b) = IF b = IAC THEN X("command", c, e, <<>>, <<>>) ELSE X("text", c, e, <<b>>, <<>>)
    BY <1>10, <1>15, Zenon
  <2>3. Goal
    BY <1>4, <1>5, <1>8, <2>1, <2>2, Zenon
  <2> QED
    BY <2>3, Zenon
<1>11. CASE m = "command"
  <2>1. /\ b = IAC => To("text", c, Append(text, b))
        /\ b = SB => To("sub", c, text)
        /\ b \in Verbs => To("option", b, text)
        /\ b \notin {IAC, SB} \cup Verbs => To("text", c, text)
    BY <1>8, <1>11, AheadByte
  <2>7. b = SB => \E e2 \in BOOLEAN : Read(p, b) = X("sub", c, e2, <<>>, <<>>)
    BY <1>11, <1>15, Zenon
  <2>8. IAC # SB
    BY DEF IAC, SB
  <2>2. b # SB => Read(p, b) =
                     IF b = IAC THEN X("text", c, e, <<b>>, <<>>)
                     ELSE IF b \in Verbs THEN X("option", b, e, <<>>, <<>>)
                     ELSE IF b = GoAhead THEN X("text", c, e, <<>>, <<>>)
                     ELSE X("dead", c, e, <<>>, <<>>)
    BY <1>11, <1>15, Zenon
  <2>3. CASE b = IAC
    BY <1>5, <2>1, <2>2, <2>3, <2>8, Zenon
  <2>4. CASE b # IAC /\ b = SB
    <3>1. PICK e2 \in BOOLEAN : Read(p, b) = X("sub", c, e2, <<>>, <<>>)
      BY <2>4, <2>7, Zenon
    <3> QED
      BY <1>4, <1>8, <2>1, <2>4, <3>1, Zenon
  <2>5. CASE b # IAC /\ b # SB /\ b \in Verbs
    BY <1>2, <1>4, <1>8, <2>1, <2>2, <2>5, Zenon
  <2>6. CASE b \notin {IAC, SB} \cup Verbs
    <3>1. b # IAC /\ b # SB /\ b \notin Verbs
      BY <2>6
    <3> QED
      BY <1>4, <1>6, <1>8, <2>1, <2>2, <2>6, <3>1, Zenon
  <2> QED
    BY <2>3, <2>4, <2>5, <2>6
<1>12. CASE m = "sub"
  <2>1. /\ b = IAC => To("subend", c, text)
        /\ b # IAC /\ b # TerminalType => To("sub", c, text)
        /\ b = TerminalType => To("type", c, text)
    <3>1. Inside(TRUE, rest, m, c, text, whole, negos, b)
      BY AheadInside
    <3> QED
      BY <1>12, <3>1, Zenon DEF Inside
  <2>2. Read(p, b) = IF b = IAC THEN X("subend", c, e, <<>>, <<>>)
                     ELSE IF b = TerminalType THEN X("type", c, e, <<>>, <<>>) ELSE p
    BY <1>12, <1>16, Zenon
  <2>3. p = X("sub", c, e, <<>>, <<>>)
    BY <1>12
  <2> QED
    BY <1>4, <1>8, <2>1, <2>2, <2>3, Zenon
<1>13. CASE m = "type"
  <2>1. To("sub", c, text)
    BY <1>13, <1>17, Zenon
  <2>2. Read(p, b) = X("sub", c, b = TypeSend, <<>>, <<>>)
    BY <1>13, <1>16, Zenon
  <2>3. (b = TypeSend) \in BOOLEAN
    OBVIOUS
  <2> QED
    BY <1>4, <1>8, <2>1, <2>2, <2>3, Zenon
<1>14. CASE m = "subend"
  <2>1. /\ b = SE => To("text", c, text)
        /\ b # SE => To("sub", c, text)
    BY <1>14, <1>17, Zenon
  <2>2. Read(p, b) = IF b # SE THEN X("sub", c, e, <<>>, <<>>)
                     ELSE IF ~e THEN X("text", c, e, <<>>, <<>>)
                     ELSE IF senderClosed THEN X("dead", c, e, <<>>, <<>>)
                     ELSE X("text", c, e, <<>>, SubNego(TypeName, TerminalType))
    BY <1>14, <1>16, Zenon
  <2>3. CASE b # SE
    BY <1>4, <1>8, <2>1, <2>2, <2>3, Zenon
  <2>4. CASE b = SE /\ ~e
    BY <1>4, <1>8, <2>1, <2>2, <2>4, Zenon
  <2>5. CASE b = SE /\ e /\ senderClosed
    BY <1>6, <2>2, <2>5, Zenon
  <2>6. CASE b = SE /\ e /\ ~senderClosed
    BY <1>7, <2>1, <2>2, <2>6, Zenon
  <2> QED
    BY <2>3, <2>4, <2>5, <2>6
<1> QED
  BY <1>10, <1>11, <1>12, <1>13, <1>14 DEF Modes

---------------------------------------------------------------------------
(* The commands on their way, as queues.                                    *)

Has(q, n) == \E i \in 1 .. Len(q) : q[i] = n
None(q, x) == \A i \in 1 .. Len(q) : q[i][2] # x

\* Of the commands about x there is one, and it is c.
Only(q, x, c) ==
  \E i \in 1 .. Len(q) : q[i] = <<c, x>> /\ \A j \in 1 .. Len(q) : j # i => q[j][2] # x

\* One more command at the end.
LEMMA QueueAppend ==
  ASSUME NEW q \in Seq(Nego2), NEW n \in Nego2, NEW p, p = Append(q, n)
  PROVE  /\ \A m : Has(q, m) => Has(p, m)
         /\ Has(p, n)
         /\ \A m : Has(p, m) /\ m # n => Has(q, m)
         /\ \A x : None(q, x) /\ n[2] # x => None(p, x)
         /\ \A x, c : Only(q, x, c) /\ n[2] # x => Only(p, x, c)
         /\ \A x : None(q, x) /\ n[2] = x => Only(p, x, n[1])
<1>1. PICK k \in Nat : k = Len(q)
  BY LenProperties
<1>2. Len(p) = k + 1 /\ p[k + 1] = n /\ \A i \in 1 .. k : p[i] = q[i]
  BY <1>1, AppendProperties
<1>3. \A i \in 1 .. k + 1 : i \in 1 .. k \/ i = k + 1
  BY <1>1
<1>4. (\A i \in 1 .. k : i \in 1 .. k + 1 /\ i # k + 1) /\ k + 1 \in 1 .. k + 1
  BY <1>1
<1>5. ASSUME NEW m, Has(q, m)
      PROVE  Has(p, m)
  BY <1>1, <1>2, <1>4, <1>5 DEF Has
<1>6. Has(p, n)
  BY <1>2, <1>4 DEF Has
<1>7. ASSUME NEW m, Has(p, m), m # n
      PROVE  Has(q, m)
  BY <1>1, <1>2, <1>3, <1>7 DEF Has
<1>8. ASSUME NEW x, None(q, x), n[2] # x
      PROVE  None(p, x)
  BY <1>1, <1>2, <1>3, <1>8 DEF None
<1>9. ASSUME NEW x, NEW c, Only(q, x, c), n[2] # x
      PROVE  Only(p, x, c)
  <2>1. PICK i \in 1 .. k : q[i] = <<c, x>> /\ \A j \in 1 .. k : j # i => q[j][2] # x
    BY <1>1, <1>9 DEF Only
  <2>2. i \in 1 .. k + 1 /\ p[i] = <<c, x>>
    BY <1>2, <1>4, <2>1
  <2>3. \A j \in 1 .. k + 1 : j # i => p[j][2] # x
    BY <1>2, <1>3, <1>9, <2>1
  <2> QED
    BY <1>2, <2>2, <2>3 DEF Only
<1>10. ASSUME NEW x, None(q, x), n[2] = x
       PROVE  Only(p, x, n[1])
  <2>1. \A j \in 1 .. k + 1 : j # k + 1 => p[j][2] # x
    BY <1>1, <1>2, <1>3, <1>10 DEF None
  <2>2. p[k + 1] = <<n[1], x>>
    BY <1>2, <1>10 DEF Nego2
  <2> QED
    BY <1>2, <1>4, <2>1, <2>2 DEF Only
<1> QED
  BY <1>5, <1>6, <1>7, <1>8, <1>9, <1>10

\* The first command is taken.
LEMMA QueueTail ==
  ASSUME NEW q \in Seq(Nego2), q # <<>>, NEW n, n = Head(q), NEW p, p = Tail(q)
  PROVE  /\ \A m : Has(q, m) => n = m \/ Has(p, m)
         /\ \A m : Has(p, m) => Has(q, m)
         /\ Has(q, n)
         /\ \A x : None(q, x) => n[2] # x /\ None(p, x)
         /\ \A x, c : Only(q, x, c) /\ n[2] = x => n = <<c, x>> /\ None(p, x)
         /\ \A x, c : Only(q, x, c) /\ n[2] # x => Only(p, x, c)
<1>1. PICK k \in Nat : k = Len(q) - 1
  BY EmptySeq, LenProperties
<1>2. Len(q) = k + 1
  BY <1>1, LenProperties
<1>3. Len(p) = k /\ n = q[1] /\ \A i \in 1 .. k : p[i] = q[i + 1]
  BY <1>2, HeadTailProperties
<1>4. (\A i \in 1 .. k + 1 : i = 1 \/ (i - 1 \in 1 .. k /\ (i - 1) + 1 = i)) /\ 1 \in 1 .. k + 1
  BY <1>1
<1>5. \A i \in 1 .. k : i + 1 \in 1 .. k + 1 /\ i + 1 # 1
  BY <1>1
<1>6. ASSUME NEW m, Has(q, m)
      PROVE  n = m \/ Has(p, m)
  <2>1. PICK i \in 1 .. k + 1 : q[i] = m
    BY <1>2, <1>6 DEF Has
  <2>2. CASE i = 1
    BY <1>3, <2>1, <2>2
  <2>3. CASE i # 1
    <3>1. i - 1 \in 1 .. k /\ p[i - 1] = m
      BY <1>3, <1>4, <2>1, <2>3
    <3> QED
      BY <1>3, <3>1 DEF Has
  <2> QED
    BY <2>2, <2>3
<1>7. ASSUME NEW m, Has(p, m)
      PROVE  Has(q, m)
  BY <1>2, <1>3, <1>5, <1>7 DEF Has
<1>8. Has(q, n)
  BY <1>2, <1>3, <1>4 DEF Has
<1>9. ASSUME NEW x, None(q, x)
      PROVE  n[2] # x /\ None(p, x)
  BY <1>2, <1>3, <1>4, <1>5, <1>9 DEF None
<1>10. ASSUME NEW x, NEW c, Only(q, x, c)
       PROVE  /\ n[2] = x => n = <<c, x>> /\ None(p, x)
              /\ n[2] # x => Only(p, x, c)
  <2>1. PICK i \in 1 .. k + 1 : q[i] = <<c, x>> /\ \A j \in 1 .. k + 1 : j # i => q[j][2] # x
    BY <1>2, <1>10 DEF Only
  <2>2. ASSUME n[2] = x
        PROVE  n = <<c, x>> /\ None(p, x)
    <3>1. i = 1
      BY <1>3, <1>4, <2>1, <2>2
    <3>2. None(p, x)
      BY <1>3, <1>5, <2>1, <3>1 DEF None
    <3> QED
      BY <1>3, <2>1, <3>1, <3>2
  <2>3. ASSUME n[2] # x
        PROVE  Only(p, x, c)
    <3>1. <<c, x>>[2] = x
      OBVIOUS
    <3>2. i # 1
      BY <1>3, <2>1, <2>3, <3>1
    <3>3. PICK h \in 1 .. k : h + 1 = i
      BY <1>4, <2>1, <3>2
    <3>4. p[h] = <<c, x>>
      BY <1>3, <2>1, <3>3
    <3>5. \A j \in 1 .. k : j # h => p[j][2] # x
      BY <1>3, <1>5, <2>1, <3>3
    <3> QED
      BY <1>3, <3>4, <3>5 DEF Only
  <2> QED
    BY <2>2, <2>3
<1> QED
  BY <1>6, <1>7, <1>8, <1>9, <1>10

\* The first command about x, and the last one.
LEMMA QueueOffers ==
  ASSUME NEW q \in Seq(Nego2), NEW n \in Nego2, NEW p, p = Append(q, n)
  PROVE  \A x : None(q, x) /\ n[2] = x => Only(p, x, n[1])
  BY QueueAppend

\* The first command about an option of which there is one is that one.
LEMMA QueueTakes ==
  ASSUME NEW q \in Seq(Nego2), q # <<>>, NEW n, n = Head(q), NEW p, p = Tail(q)
  PROVE  \A x, c : Only(q, x, c) /\ n[2] = x => n = <<c, x>> /\ None(p, x)
  BY QueueTail

---------------------------------------------------------------------------
(* An option that one side offers and the other consents to: the state the  *)
(* host has of it, the parser's, and the commands about it on their way.    *)

Handshake(st, on, nb, nr, x, offer, withdraw, accept, refuse) ==
  \/ st = "no" /\ ~on /\ None(nb, x) /\ None(nr, x)
  \/ st = "yes" /\ on /\ None(nb, x) /\ None(nr, x)
  \/ st = "wantyes" /\ ~on /\ Only(nb, x, offer) /\ None(nr, x)
  \/ st = "wantyes" /\ on /\ None(nb, x) /\ Only(nr, x, accept)
  \/ st = "wantno" /\ on /\ Only(nb, x, withdraw) /\ None(nr, x)
  \/ st = "wantno" /\ ~on /\ None(nb, x) /\ Only(nr, x, refuse)

\* It is not disturbed by what is said of other options ...
LEMMA HandshakeToBrowser ==
  ASSUME NEW st, NEW on, NEW nb \in Seq(Nego2), NEW nr, NEW x, NEW offer, NEW withdraw, NEW accept, NEW refuse,
         Handshake(st, on, nb, nr, x, offer, withdraw, accept, refuse),
         NEW n \in Nego2, n[2] # x, NEW q, q = Append(nb, n)
  PROVE  Handshake(st, on, q, nr, x, offer, withdraw, accept, refuse)
<1>1. (None(nb, x) => None(q, x)) /\ \A c : Only(nb, x, c) => Only(q, x, c)
  BY QueueAppend
<1> QED
  BY <1>1, Zenon DEF Handshake

\* A command about another option that is sent to the host keeps a handshake.
LEMMA HandshakeToHost ==
  ASSUME NEW st, NEW on, NEW nb, NEW nr \in Seq(Nego2), NEW x, NEW offer, NEW withdraw, NEW accept, NEW refuse,
         Handshake(st, on, nb, nr, x, offer, withdraw, accept, refuse),
         NEW n \in Nego2, n[2] # x, NEW q, q = Append(nr, n)
  PROVE  Handshake(st, on, nb, q, x, offer, withdraw, accept, refuse)
<1>1. (None(nr, x) => None(q, x)) /\ \A c : Only(nr, x, c) => Only(q, x, c)
  BY QueueAppend
<1> QED
  BY <1>1, Zenon DEF Handshake

\* ... and by what is read of them ...
LEMMA HandshakeUnread ==
  ASSUME NEW st, NEW on, NEW nb \in Seq(Nego2), nb # <<>>, NEW nr, NEW x,
         NEW offer, NEW withdraw, NEW accept, NEW refuse,
         Handshake(st, on, nb, nr, x, offer, withdraw, accept, refuse),
         NEW n, n = Head(nb), n[2] # x, NEW q, q = Tail(nb)
  PROVE  Handshake(st, on, q, nr, x, offer, withdraw, accept, refuse)
<1>1. (None(nb, x) => None(q, x)) /\ \A c : Only(nb, x, c) => Only(q, x, c)
  BY QueueTail
<1> QED
  BY <1>1, Zenon DEF Handshake

\* A command about another option that the host has heard keeps a handshake.
LEMMA HandshakeUnheard ==
  ASSUME NEW st, NEW on, NEW nb, NEW nr \in Seq(Nego2), nr # <<>>, NEW x,
         NEW offer, NEW withdraw, NEW accept, NEW refuse,
         Handshake(st, on, nb, nr, x, offer, withdraw, accept, refuse),
         NEW n, n = Head(nr), n[2] # x, NEW q, q = Tail(nr)
  PROVE  Handshake(st, on, nb, q, x, offer, withdraw, accept, refuse)
<1>1. (None(nr, x) => None(q, x)) /\ \A c : Only(nr, x, c) => Only(q, x, c)
  BY QueueTail
<1> QED
  BY <1>1, Zenon DEF Handshake

\* ... and goes on with what is said of this one: the host offers it or withdraws it,
LEMMA HandshakeProposed ==
  ASSUME NEW st, NEW on, NEW nb \in Seq(Nego2), NEW nr, NEW x, NEW offer \in Nat, NEW withdraw \in Nat,
         NEW accept, NEW refuse, x \in Nat,
         Handshake(st, on, nb, nr, x, offer, withdraw, accept, refuse)
  PROVE  /\ st = "no" => Handshake("wantyes", on, Append(nb, <<offer, x>>), nr, x, offer, withdraw, accept, refuse)
         /\ st = "yes" => Handshake("wantno", on, Append(nb, <<withdraw, x>>), nr, x, offer, withdraw, accept, refuse)
<1>1. PICK m, n : m = <<offer, x>> /\ n = <<withdraw, x>>
  OBVIOUS
<1>2. m \in Nego2 /\ n \in Nego2
  BY <1>1 DEF Nego2
<1>3. PICK p, q : p = Append(nb, m) /\ q = Append(nb, n)
  OBVIOUS
<1>10. ASSUME NEW v \in Nego2, NEW w, w = Append(nb, v)
       PROVE  \A y : None(nb, y) /\ v[2] = y => Only(w, y, v[1])
  BY <1>10, QueueOffers
<1>11. m[1] = offer /\ m[2] = x /\ n[1] = withdraw /\ n[2] = x
  BY <1>1
<1>4. None(nb, x) => Only(p, x, offer)
  BY <1>2, <1>3, <1>10, <1>11, Zenon
<1>5. None(nb, x) => Only(q, x, withdraw)
  BY <1>2, <1>3, <1>10, <1>11, Zenon
<1>6. st = "no" => ~on /\ None(nb, x) /\ None(nr, x)
  BY DEF Handshake
<1>7. st = "yes" => on /\ None(nb, x) /\ None(nr, x)
  BY DEF Handshake
<1>8. st = "no" => Handshake("wantyes", on, p, nr, x, offer, withdraw, accept, refuse)
  BY <1>4, <1>6, Zenon DEF Handshake
<1>9. st = "yes" => Handshake("wantno", on, q, nr, x, offer, withdraw, accept, refuse)
  BY <1>5, <1>7, Zenon DEF Handshake
<1> QED
  BY <1>1, <1>3, <1>8, <1>9, Zenon

\* the parser consents, to the offer or to its end, and says so,
Consented(n, st, on, nb, nr, x, offer, withdraw, accept, refuse) ==
  \/ /\ n[1] = offer /\ ~on
     /\ Handshake(st, TRUE, nb, Append(nr, <<accept, x>>), x, offer, withdraw, accept, refuse)
  \/ /\ n[1] = withdraw /\ on
     /\ Handshake(st, FALSE, nb, Append(nr, <<refuse, x>>), x, offer, withdraw, accept, refuse)

\* The browser reads a command about the option: it can only be what the host sent.
LEMMA HandshakeRead ==
  ASSUME NEW st, NEW on, NEW nb \in Seq(Nego2), nb # <<>>, NEW nr \in Seq(Nego2), NEW x,
         NEW offer \in Nat, NEW withdraw \in Nat, NEW accept \in Nat, NEW refuse \in Nat, x \in Nat,
         Handshake(st, on, nb, nr, x, offer, withdraw, accept, refuse),
         NEW n, n = Head(nb), n[2] = x, NEW q, q = Tail(nb)
  PROVE  Consented(n, st, on, q, nr, x, offer, withdraw, accept, refuse)
<1>1. PICK m, l : m = <<accept, x>> /\ l = <<refuse, x>>
  OBVIOUS
<1>2. m \in Nego2 /\ l \in Nego2
  BY <1>1 DEF Nego2
<1>3. PICK p, r : p = Append(nr, m) /\ r = Append(nr, l)
  OBVIOUS
<1>10. ASSUME NEW v \in Nego2, NEW w, w = Append(nr, v)
       PROVE  \A y : None(nr, y) /\ v[2] = y => Only(w, y, v[1])
  BY <1>10, QueueOffers
<1>11. m[1] = accept /\ m[2] = x /\ l[1] = refuse /\ l[2] = x
  BY <1>1
<1>4. None(nr, x) => Only(p, x, accept)
  BY <1>2, <1>3, <1>10, <1>11, Zenon
<1>5. None(nr, x) => Only(r, x, refuse)
  BY <1>2, <1>3, <1>10, <1>11, Zenon
<1>6. ~None(nb, x)
  BY QueueTail
<1>7. \A c : Only(nb, x, c) => n = <<c, x>> /\ None(q, x)
  <2>1. \A y, c : Only(nb, y, c) /\ n[2] = y => n = <<c, y>> /\ None(q, y)
    BY QueueTakes
  <2> QED
    BY <2>1, Zenon
<1>8. CASE st = "wantyes" /\ ~on /\ Only(nb, x, offer) /\ None(nr, x)
  <2>1. Handshake(st, TRUE, q, p, x, offer, withdraw, accept, refuse)
    BY <1>4, <1>7, <1>8, Zenon DEF Handshake
  <2>2. n = <<offer, x>>
    BY <1>7, <1>8, Zenon
  <2>3. n[1] = offer
    BY <2>2
  <2> QED
    BY <1>1, <1>3, <1>8, <2>1, <2>3, Zenon DEF Consented
<1>9. CASE st = "wantno" /\ on /\ Only(nb, x, withdraw) /\ None(nr, x)
  <2>1. Handshake(st, FALSE, q, r, x, offer, withdraw, accept, refuse)
    BY <1>5, <1>7, <1>9, Zenon DEF Handshake
  <2>2. n = <<withdraw, x>>
    BY <1>7, <1>9, Zenon
  <2>3. n[1] = withdraw
    BY <2>2
  <2> QED
    BY <1>1, <1>3, <1>9, <2>1, <2>3, Zenon DEF Consented
<1> QED
  BY <1>6, <1>8, <1>9, Zenon DEF Handshake

\* and the host hears it.
Concluded(n, st, on, nb, nr, x, offer, withdraw, accept, refuse) ==
  \/ n[1] = accept /\ st = "wantyes" /\ Handshake("yes", on, nb, nr, x, offer, withdraw, accept, refuse)
  \/ n[1] = refuse /\ st = "wantno" /\ Handshake("no", on, nb, nr, x, offer, withdraw, accept, refuse)

\* The host hears a command about the option: it can only be what the browser answered.
LEMMA HandshakeHeard ==
  ASSUME NEW st, NEW on, NEW nb, NEW nr \in Seq(Nego2), nr # <<>>, NEW x,
         NEW offer, NEW withdraw, NEW accept, NEW refuse,
         Handshake(st, on, nb, nr, x, offer, withdraw, accept, refuse),
         NEW n, n = Head(nr), n[2] = x, NEW q, q = Tail(nr)
  PROVE  Concluded(n, st, on, nb, q, x, offer, withdraw, accept, refuse)
<1>1. ~None(nr, x)
  BY QueueTail
<1>2. \A c : Only(nr, x, c) => n = <<c, x>> /\ None(q, x)
  <2>1. \A y, c : Only(nr, y, c) /\ n[2] = y => n = <<c, y>> /\ None(q, y)
    BY QueueTakes
  <2> QED
    BY <2>1, Zenon
<1>3. CASE st = "wantyes" /\ on /\ None(nb, x) /\ Only(nr, x, accept)
  <2>1. Handshake("yes", on, nb, q, x, offer, withdraw, accept, refuse)
    BY <1>2, <1>3, Zenon DEF Handshake
  <2>2. n = <<accept, x>>
    BY <1>2, <1>3, Zenon
  <2>3. n[1] = accept
    BY <2>2
  <2> QED
    BY <1>3, <2>1, <2>3, Zenon DEF Concluded
<1>4. CASE st = "wantno" /\ ~on /\ None(nb, x) /\ Only(nr, x, refuse)
  <2>1. Handshake("no", on, nb, q, x, offer, withdraw, accept, refuse)
    BY <1>2, <1>4, Zenon DEF Handshake
  <2>2. n = <<refuse, x>>
    BY <1>2, <1>4, Zenon
  <2>3. n[1] = refuse
    BY <2>2
  <2> QED
    BY <1>4, <2>1, <2>3, Zenon DEF Concluded
<1> QED
  BY <1>1, <1>3, <1>4, Zenon DEF Handshake

---------------------------------------------------------------------------
(* The agreement of both ends about all options.                            *)

\* The host waits for nothing that is not on its way.
Waits(us, him, nb, nr) ==
  \A o \in Options \ {Echo, SuppressGoAhead} :
    /\ us[o] = "wantyes" => Has(nb, <<WILL, o>>) \/ Has(nr, <<DO, o>>) \/ Has(nr, <<DONT, o>>)
    /\ him[o] = "wantyes" => Has(nb, <<DO, o>>) \/ Has(nr, <<WILL, o>>) \/ Has(nr, <<WONT, o>>)

Asked(him) == \A o \in Options : him[o] = "wantyes" => o \in ClientOptions

\* Who does the option: the host, or the browser.
ByHost(st, on, nb, nr, x) == Handshake(st, on, nb, nr, x, WILL, WONT, DO, DONT)
ByBrowser(st, on, nb, nr, x) == Handshake(st, on, nb, nr, x, DO, DONT, WILL, WONT)

Echoes(us, him, k, l, nb, nr) == ByHost(us[Echo], k, nb, nr, Echo) /\ him[Echo] = "no" /\ l = ~k

GoesAhead(us, him, g, nb, nr) ==
  IF SuppressGoAhead \in ClientOptions
    THEN ByBrowser(him[SuppressGoAhead], g, nb, nr, SuppressGoAhead) /\ us[SuppressGoAhead] = "no"
    ELSE ByHost(us[SuppressGoAhead], g, nb, nr, SuppressGoAhead) /\ him[SuppressGoAhead] = "no"

\* What the parser takes as accepted, the host knows, or will.
Sized(him, n, nr) ==
  /\ ~Has(nr, <<WONT, NAWS>>) /\ him[NAWS] # "wantno"
  /\ n /\ NAWS \in ClientOptions => him[NAWS] = "yes" \/ Has(nr, <<WILL, NAWS>>)

States == {"no", "yes", "wantyes", "wantno"}

Agreement(us, him, k, g, n, l, nb, nr) ==
  /\ Waits(us, him, nb, nr) /\ Asked(him)
  /\ Echoes(us, him, k, l, nb, nr) /\ GoesAhead(us, him, g, nb, nr)
  /\ Sized(him, n, nr)

\* The codes and the options are not the same.
LEMMA Codes ==
  /\ WILL # WONT /\ WILL # DO /\ WILL # DONT /\ WONT # DO /\ WONT # DONT /\ DO # DONT
  /\ WILL # 0 /\ WONT # 0 /\ DO # 0 /\ DONT # 0
  /\ WILL \in Nat /\ WONT \in Nat /\ DO \in Nat /\ DONT \in Nat
  BY DEF WILL, WONT, DO, DONT

\* The four options are four different numbers, three of them negotiated by the host.
LEMMA OptionCodes ==
  /\ Echo # SuppressGoAhead /\ Echo # NAWS /\ Echo # TerminalType /\ SuppressGoAhead # NAWS
  /\ SuppressGoAhead # TerminalType /\ NAWS # TerminalType
  /\ Echo \in Nat /\ SuppressGoAhead \in Nat /\ NAWS \in Nat /\ TerminalType \in Nat
  /\ Echo \in Options /\ SuppressGoAhead \in Options /\ NAWS \in Options
  BY DEF Echo, SuppressGoAhead, NAWS, TerminalType, Options

\* What is on its way, and more: it is waited for as before.
LEMMA WaitsOn ==
  ASSUME NEW us, NEW him, NEW nb, NEW nr, Waits(us, him, nb, nr), NEW nb2, NEW nr2,
         \A m : Has(nb, m) => Has(nb2, m), \A m : Has(nr, m) => Has(nr2, m)
  PROVE  Waits(us, him, nb2, nr2)
  BY Zenon DEF Waits

\* A command that goes to the host about another option.
LEMMA ToHostAgrees ==
  ASSUME NEW us, NEW him, NEW k, NEW g, NEW l, NEW nb, NEW nr \in Seq(Nego2),
         NEW m \in Nego2, NEW q, q = Append(nr, m)
  PROVE  /\ m[2] # Echo /\ Echoes(us, him, k, l, nb, nr) => Echoes(us, him, k, l, nb, q)
         /\ m[2] # SuppressGoAhead /\ GoesAhead(us, him, g, nb, nr) => GoesAhead(us, him, g, nb, q)
<1>1. ASSUME NEW st, NEW on, NEW x, m[2] # x
      PROVE  /\ ByHost(st, on, nb, nr, x) => ByHost(st, on, nb, q, x)
             /\ ByBrowser(st, on, nb, nr, x) => ByBrowser(st, on, nb, q, x)
  <2>2. ByHost(st, on, nb, nr, x) => ByHost(st, on, nb, q, x)
    BY <1>1, HandshakeToHost DEF ByHost
  <2>3. ByBrowser(st, on, nb, nr, x) => ByBrowser(st, on, nb, q, x)
    BY <1>1, HandshakeToHost DEF ByBrowser
  <2> QED
    BY <2>2, <2>3
<1>3. m[2] # Echo /\ Echoes(us, him, k, l, nb, nr) => Echoes(us, him, k, l, nb, q)
  BY <1>1, Zenon DEF Echoes
<1>4. m[2] # SuppressGoAhead /\ GoesAhead(us, him, g, nb, nr) => GoesAhead(us, him, g, nb, q)
  BY <1>1, Zenon DEF GoesAhead
<1> QED
  BY <1>3, <1>4

\* The same to the browser.
LEMMA ToBrowserAgrees ==
  ASSUME NEW us, NEW him, NEW k, NEW g, NEW l, NEW nb \in Seq(Nego2), NEW nr,
         NEW m \in Nego2, NEW q, q = Append(nb, m)
  PROVE  /\ m[2] # Echo /\ Echoes(us, him, k, l, nb, nr) => Echoes(us, him, k, l, q, nr)
         /\ m[2] # SuppressGoAhead /\ GoesAhead(us, him, g, nb, nr) => GoesAhead(us, him, g, q, nr)
<1>1. ASSUME NEW st, NEW on, NEW x, m[2] # x
      PROVE  /\ ByHost(st, on, nb, nr, x) => ByHost(st, on, q, nr, x)
             /\ ByBrowser(st, on, nb, nr, x) => ByBrowser(st, on, q, nr, x)
  <2>2. ByHost(st, on, nb, nr, x) => ByHost(st, on, q, nr, x)
    BY <1>1, HandshakeToBrowser DEF ByHost
  <2>3. ByBrowser(st, on, nb, nr, x) => ByBrowser(st, on, q, nr, x)
    BY <1>1, HandshakeToBrowser DEF ByBrowser
  <2> QED
    BY <2>2, <2>3
<1>3. m[2] # Echo /\ Echoes(us, him, k, l, nb, nr) => Echoes(us, him, k, l, q, nr)
  BY <1>1, Zenon DEF Echoes
<1>4. m[2] # SuppressGoAhead /\ GoesAhead(us, him, g, nb, nr) => GoesAhead(us, him, g, q, nr)
  BY <1>1, Zenon DEF GoesAhead
<1> QED
  BY <1>3, <1>4

\* The terminal's size is offered.
LEMMA ResizeAgrees ==
  ASSUME NEW us, NEW him, NEW k, NEW g, NEW n, NEW l, NEW nb, NEW nr \in Seq(Nego2),
         Agreement(us, him, k, g, n, l, nb, nr), NEW yes
  PROVE  Agreement(us, him, k, g, yes, l, nb, Append(nr, <<WILL, NAWS>>))
<1>1. PICK m : m = <<WILL, NAWS>>
  OBVIOUS
<1>2. m \in Nego2 /\ m[2] # Echo /\ m[2] # SuppressGoAhead /\ m # <<WONT, NAWS>>
  BY <1>1, Codes, OptionCodes DEF Nego2
<1>3. PICK q : q = Append(nr, m)
  OBVIOUS
<1>4. \A i : Has(nr, i) => Has(q, i)
  BY <1>2, <1>3, QueueAppend
<1>5. Has(q, m)
  BY <1>2, <1>3, QueueAppend
<1>6. \A i : Has(q, i) /\ i # m => Has(nr, i)
  BY <1>2, <1>3, QueueAppend
<1>7. Waits(us, him, nb, q)
  BY <1>4, WaitsOn DEF Agreement
<1>8. Echoes(us, him, k, l, nb, q) /\ GoesAhead(us, him, g, nb, q)
  BY <1>2, <1>3, ToHostAgrees DEF Agreement
<1>9. Sized(him, yes, q)
  BY <1>1, <1>2, <1>5, <1>6, Zenon DEF Sized, Agreement
<1>10. Agreement(us, him, k, g, yes, l, nb, q)
  BY <1>7, <1>8, <1>9, Zenon DEF Agreement
<1> QED
  BY <1>1, <1>3, <1>10, Zenon

\* Options are bytes; no option is both the host's and the browser's where there is one
\* state of it.
LEMMA OptionFacts ==
  ASSUME OptionsOfOneSide
  PROVE  /\ ServerOptions \subseteq Options /\ ClientOptions \subseteq Options
         /\ \A o \in Options : o \in Nat
         /\ Echo \notin ClientOptions
         /\ SuppressGoAhead \in ServerOptions => SuppressGoAhead \notin ClientOptions
         /\ NAWS \notin Withdrawn
  BY TelnetAssumption DEF Options, OptionsOfOneSide, Echo, SuppressGoAhead, NAWS, TerminalType

\* An option of its own is offered by the host, or withdrawn.
LEMMA OffersAgree ==
  ASSUME OptionsOfOneSide, NEW us \in [Options -> States], NEW him, NEW k, NEW g, NEW n, NEW l,
         NEW nb \in Seq(Nego2), NEW nr \in Seq(Nego2), Agreement(us, him, k, g, n, l, nb, nr),
         NEW o \in ServerOptions, NEW c \in Nat, NEW v,
         (us[o] = "no" /\ v = "wantyes" /\ c = WILL) \/ (us[o] = "yes" /\ v = "wantno" /\ c = WONT)
  PROVE  Agreement([us EXCEPT ![o] = v], him, k, g, n, l, Append(nb, <<c, o>>), nr)
<1>1. PICK m : m = <<c, o>>
  OBVIOUS
<1>2. o \in Nat /\ o \in Options
  BY OptionFacts
<1>3. m \in Nego2 /\ m[2] = o
  BY <1>1, <1>2 DEF Nego2
<1>4. PICK q : q = Append(nb, m)
  OBVIOUS
<1>5. (\A i : Has(nb, i) => Has(q, i)) /\ Has(q, m)
  BY <1>3, <1>4, QueueAppend
<1>6. PICK u : u = [us EXCEPT ![o] = v]
  OBVIOUS
<1>7. u[o] = v /\ \A x \in Options : x # o => u[x] = us[x]
  BY <1>2, <1>6
<1>8. Waits(u, him, q, nr)
  <2>1. Waits(us, him, q, nr)
    <3>1. \A i : Has(nr, i) => Has(nr, i)
      OBVIOUS
    <3> QED
      BY <1>5, <3>1, WaitsOn DEF Agreement
  <2>2. u[o] = "wantyes" => Has(q, <<WILL, o>>)
    <3>1. "wantno" # "wantyes"
      OBVIOUS
    <3> QED
      BY <1>1, <1>5, <1>7, <3>1, Zenon
  <2> QED
    BY <1>7, <2>1, <2>2, Zenon DEF Waits
<1>9. Handshake(us[o], k, nb, nr, o, WILL, WONT, DO, DONT) => Handshake(v, k, q, nr, o, WILL, WONT, DO, DONT)
  <2>1. /\ Handshake(us[o], k, nb, nr, o, WILL, WONT, DO, DONT) /\ us[o] = "no" =>
             Handshake("wantyes", k, Append(nb, <<WILL, o>>), nr, o, WILL, WONT, DO, DONT)
        /\ Handshake(us[o], k, nb, nr, o, WILL, WONT, DO, DONT) /\ us[o] = "yes" =>
             Handshake("wantno", k, Append(nb, <<WONT, o>>), nr, o, WILL, WONT, DO, DONT)
    BY <1>2, Codes, HandshakeProposed
  <2> QED
    BY <1>1, <1>4, <2>1, Zenon
<1>10. Handshake(us[o], g, nb, nr, o, WILL, WONT, DO, DONT) => Handshake(v, g, q, nr, o, WILL, WONT, DO, DONT)
  <2>1. /\ Handshake(us[o], g, nb, nr, o, WILL, WONT, DO, DONT) /\ us[o] = "no" =>
             Handshake("wantyes", g, Append(nb, <<WILL, o>>), nr, o, WILL, WONT, DO, DONT)
        /\ Handshake(us[o], g, nb, nr, o, WILL, WONT, DO, DONT) /\ us[o] = "yes" =>
             Handshake("wantno", g, Append(nb, <<WONT, o>>), nr, o, WILL, WONT, DO, DONT)
    BY <1>2, Codes, HandshakeProposed
  <2> QED
    BY <1>1, <1>4, <2>1, Zenon
<1>11. /\ Echoes(us, him, k, l, nb, nr) /\ o # Echo => Echoes(us, him, k, l, q, nr)
       /\ GoesAhead(us, him, g, nb, nr) /\ o # SuppressGoAhead => GoesAhead(us, him, g, q, nr)
  BY <1>3, <1>4, ToBrowserAgrees
<1>12. Echoes(u, him, k, l, q, nr)
  <2>1. CASE o = Echo
    BY <1>7, <1>9, <2>1, Zenon DEF Echoes, ByHost, Agreement
  <2>2. CASE o # Echo
    BY <1>7, <1>11, <2>2, OptionCodes, Zenon DEF Echoes, Agreement
  <2> QED
    BY <2>1, <2>2
<1>13. GoesAhead(u, him, g, q, nr)
  <2>1. CASE o = SuppressGoAhead
    <3>1. SuppressGoAhead \notin ClientOptions
      BY <2>1, OptionFacts
    <3> QED
      BY <1>7, <1>10, <2>1, <3>1, Zenon DEF GoesAhead, ByHost, Agreement
  <2>2. CASE o # SuppressGoAhead
    BY <1>7, <1>11, <2>2, OptionCodes, Zenon DEF GoesAhead, Agreement
  <2> QED
    BY <2>1, <2>2
<1>14. Agreement(u, him, k, g, n, l, q, nr)
  BY <1>8, <1>12, <1>13, Zenon DEF Agreement
<1> QED
  BY <1>1, <1>4, <1>6, <1>14, Zenon

\* An option of the browser is asked for, or not wanted any more.
LEMMA DemandsAgree ==
  ASSUME OptionsOfOneSide, NEW us, NEW him \in [Options -> States], NEW k, NEW g, NEW n, NEW l,
         NEW nb \in Seq(Nego2), NEW nr \in Seq(Nego2), Agreement(us, him, k, g, n, l, nb, nr),
         NEW o \in ClientOptions, NEW c \in Nat, NEW v,
         \/ him[o] = "no" /\ v = "wantyes" /\ c = DO
         \/ him[o] = "yes" /\ v = "wantno" /\ c = DONT /\ o \in Withdrawn
  PROVE  Agreement(us, [him EXCEPT ![o] = v], k, g, n, l, Append(nb, <<c, o>>), nr)
<1>1. PICK m : m = <<c, o>>
  OBVIOUS
<1>2. o \in Nat /\ o \in Options /\ o # Echo
  BY OptionFacts
<1>3. m \in Nego2 /\ m[2] = o
  BY <1>1, <1>2 DEF Nego2
<1>4. PICK q : q = Append(nb, m)
  OBVIOUS
<1>5. (\A i : Has(nb, i) => Has(q, i)) /\ Has(q, m)
  BY <1>3, <1>4, QueueAppend
<1>6. PICK h : h = [him EXCEPT ![o] = v]
  OBVIOUS
<1>7. h[o] = v /\ \A x \in Options : x # o => h[x] = him[x]
  BY <1>2, <1>6
<1>8. Waits(us, h, q, nr)
  <2>1. Waits(us, him, q, nr)
    <3>1. \A i : Has(nr, i) => Has(nr, i)
      OBVIOUS
    <3> QED
      BY <1>5, <3>1, WaitsOn DEF Agreement
  <2>2. h[o] = "wantyes" => Has(q, <<DO, o>>)
    <3>1. "wantno" # "wantyes"
      OBVIOUS
    <3> QED
      BY <1>1, <1>5, <1>7, <3>1, Zenon
  <2> QED
    BY <1>7, <2>1, <2>2, Zenon DEF Waits
<1>9. Asked(h)
  BY <1>7, Zenon DEF Asked, Agreement
<1>10. Handshake(him[o], g, nb, nr, o, DO, DONT, WILL, WONT) => Handshake(v, g, q, nr, o, DO, DONT, WILL, WONT)
  <2>1. /\ Handshake(him[o], g, nb, nr, o, DO, DONT, WILL, WONT) /\ him[o] = "no" =>
             Handshake("wantyes", g, Append(nb, <<DO, o>>), nr, o, DO, DONT, WILL, WONT)
        /\ Handshake(him[o], g, nb, nr, o, DO, DONT, WILL, WONT) /\ him[o] = "yes" =>
             Handshake("wantno", g, Append(nb, <<DONT, o>>), nr, o, DO, DONT, WILL, WONT)
    BY <1>2, Codes, HandshakeProposed
  <2> QED
    BY <1>1, <1>4, <2>1, Zenon
<1>11. /\ Echoes(us, him, k, l, nb, nr) => Echoes(us, him, k, l, q, nr)
       /\ GoesAhead(us, him, g, nb, nr) /\ o # SuppressGoAhead => GoesAhead(us, him, g, q, nr)
  BY <1>2, <1>3, <1>4, ToBrowserAgrees
<1>12. Echoes(us, h, k, l, q, nr)
  BY <1>2, <1>7, <1>11, OptionCodes, Zenon DEF Echoes, Agreement
<1>13. GoesAhead(us, h, g, q, nr)
  <2>1. CASE o = SuppressGoAhead
    BY <1>7, <1>10, <2>1, Zenon DEF GoesAhead, ByBrowser, Agreement
  <2>2. CASE o # SuppressGoAhead
    BY <1>7, <1>11, <2>2, OptionCodes, Zenon DEF GoesAhead, Agreement
  <2> QED
    BY <2>1, <2>2
<1>14. Sized(h, n, nr)
  <2>1. Sized(him, n, nr)
    BY DEF Agreement
  <2>2. CASE o = NAWS
    <3>1. him[o] = "no" /\ v = "wantyes"
      BY <2>2, OptionFacts
    <3> QED
      BY <1>7, <2>1, <2>2, <3>1 DEF Sized
  <2>3. CASE o # NAWS
    <3>1. h[NAWS] = him[NAWS]
      BY <1>7, <2>3, OptionCodes
    <3> QED
      BY <2>1, <3>1, Zenon DEF Sized
  <2> QED
    BY <2>2, <2>3
<1>15. Agreement(us, h, k, g, n, l, q, nr)
  BY <1>8, <1>9, <1>12, <1>13, <1>14, Zenon DEF Agreement
<1> QED
  BY <1>1, <1>4, <1>6, <1>15, Zenon

\* A command that is read, by the browser or by the host, and that is about another option.
LEMMA UnreadAgrees ==
  ASSUME NEW us, NEW him, NEW k, NEW g, NEW l, NEW nb \in Seq(Nego2), nb # <<>>, NEW nr,
         NEW m, m = Head(nb), NEW q, q = Tail(nb)
  PROVE  /\ m[2] # Echo /\ Echoes(us, him, k, l, nb, nr) => Echoes(us, him, k, l, q, nr)
         /\ m[2] # SuppressGoAhead /\ GoesAhead(us, him, g, nb, nr) => GoesAhead(us, him, g, q, nr)
<1>1. ASSUME NEW st, NEW on, NEW x, m[2] # x
      PROVE  /\ ByHost(st, on, nb, nr, x) => ByHost(st, on, q, nr, x)
             /\ ByBrowser(st, on, nb, nr, x) => ByBrowser(st, on, q, nr, x)
  <2>2. ByHost(st, on, nb, nr, x) => ByHost(st, on, q, nr, x)
    BY <1>1, HandshakeUnread DEF ByHost
  <2>3. ByBrowser(st, on, nb, nr, x) => ByBrowser(st, on, q, nr, x)
    BY <1>1, HandshakeUnread DEF ByBrowser
  <2> QED
    BY <2>2, <2>3
<1>2. m[2] # Echo /\ Echoes(us, him, k, l, nb, nr) => Echoes(us, him, k, l, q, nr)
  BY <1>1, Zenon DEF Echoes
<1>3. m[2] # SuppressGoAhead /\ GoesAhead(us, him, g, nb, nr) => GoesAhead(us, him, g, q, nr)
  BY <1>1, Zenon DEF GoesAhead
<1> QED
  BY <1>2, <1>3

\* What the host hears of another option leaves the agreement on echo and go-ahead alone.
LEMMA UnheardAgrees ==
  ASSUME NEW us, NEW him, NEW k, NEW g, NEW l, NEW nb, NEW nr \in Seq(Nego2), nr # <<>>,
         NEW m, m = Head(nr), NEW q, q = Tail(nr)
  PROVE  /\ m[2] # Echo /\ Echoes(us, him, k, l, nb, nr) => Echoes(us, him, k, l, nb, q)
         /\ m[2] # SuppressGoAhead /\ GoesAhead(us, him, g, nb, nr) => GoesAhead(us, him, g, nb, q)
<1>1. ASSUME NEW st, NEW on, NEW x, m[2] # x
      PROVE  /\ ByHost(st, on, nb, nr, x) => ByHost(st, on, nb, q, x)
             /\ ByBrowser(st, on, nb, nr, x) => ByBrowser(st, on, nb, q, x)
  <2>2. ByHost(st, on, nb, nr, x) => ByHost(st, on, nb, q, x)
    BY <1>1, HandshakeUnheard DEF ByHost
  <2>3. ByBrowser(st, on, nb, nr, x) => ByBrowser(st, on, nb, q, x)
    BY <1>1, HandshakeUnheard DEF ByBrowser
  <2> QED
    BY <2>2, <2>3
<1>2. m[2] # Echo /\ Echoes(us, him, k, l, nb, nr) => Echoes(us, him, k, l, nb, q)
  BY <1>1, Zenon DEF Echoes
<1>3. m[2] # SuppressGoAhead /\ GoesAhead(us, him, g, nb, nr) => GoesAhead(us, him, g, nb, q)
  BY <1>1, Zenon DEF GoesAhead
<1> QED
  BY <1>2, <1>3

\* The parser's answers.
LEMMA Answers ==
  ASSUME NEW c \in Verbs, NEW o, NEW k, NEW g, NEW n, NEW a, a = Answer(c, o, k, g, n)
  PROVE  /\ a \in Nat
         /\ o \notin {Echo, SuppressGoAhead} /\ c = WILL => a = DONT
         /\ o \notin {Echo, SuppressGoAhead} /\ c = DO /\ ~(o = NAWS /\ n) => a \in {WILL, WONT}
         /\ o = NAWS /\ c = DO /\ ~n => a = WILL
         /\ o = NAWS /\ c = DO /\ n => a = 0
         /\ a = WONT => o # NAWS
<1>1. c \in {WILL, WONT, DO, DONT}
  BY DEF Verbs
<1>2. \A x, on : Toggled(x, on) \in {0, WILL, WONT, DO, DONT}
  BY DEF Toggled
<1>3. a \in {0, WILL, WONT, DO, DONT}
  BY <1>2 DEF Answer
<1>4. a \in Nat
  BY <1>3, Codes
<1>5. o \notin {Echo, SuppressGoAhead} /\ c = WILL => a = DONT
  BY Codes DEF Answer
<1>6. o \notin {Echo, SuppressGoAhead} /\ c = DO /\ ~(o = NAWS /\ n) => a \in {WILL, WONT}
  BY Codes DEF Answer
<1>7. o = NAWS /\ c = DO => a = IF n THEN 0 ELSE WILL
  BY Codes, OptionCodes DEF Answer
<1>8. o = NAWS /\ c # DO => a \in {DONT, 0}
  BY <1>1, Codes, OptionCodes DEF Answer
<1>9. a = WONT => o # NAWS
  BY <1>7, <1>8, Codes
<1> QED
  BY <1>4, <1>5, <1>6, <1>7, <1>9

\* What the parser sends when it has read c about o, and the host may wait for.
Answering(him, c, o, before, after) ==
  /\ \A i : Has(before, i) => Has(after, i)
  /\ o \notin {Echo, SuppressGoAhead} /\ c = WILL => Has(after, <<DONT, o>>)
  /\ o \in Options \ {Echo, SuppressGoAhead} /\ c = DO /\ him[o] = "wantyes" =>
       Has(after, <<WILL, o>>) \/ Has(after, <<WONT, o>>)

\* What was waited for was read, and is answered.
LEMMA WaitsRead ==
  ASSUME NEW us, NEW him, NEW nb \in Seq(Nego2), nb # <<>>, NEW nr, Waits(us, him, nb, nr),
         NEW c, NEW o, NEW m, m = Head(nb), m[1] = c, m[2] = o, NEW q, q = Tail(nb), NEW p,
         Answering(him, c, o, nr, p)
  PROVE  Waits(us, him, q, p)
<1>1. \A i : Has(nb, i) => m = i \/ Has(q, i)
  <2>1. \A i : Has(nb, i) => Head(nb) = i \/ Has(q, i)
    BY QueueTail
  <2> QED
    BY <2>1
<1>2. ASSUME NEW x \in Options \ {Echo, SuppressGoAhead}
      PROVE  /\ us[x] = "wantyes" => Has(q, <<WILL, x>>) \/ Has(p, <<DO, x>>) \/ Has(p, <<DONT, x>>)
             /\ him[x] = "wantyes" => Has(q, <<DO, x>>) \/ Has(p, <<WILL, x>>) \/ Has(p, <<WONT, x>>)
  <2>3. /\ us[x] = "wantyes" => Has(nb, <<WILL, x>>) \/ Has(nr, <<DO, x>>) \/ Has(nr, <<DONT, x>>)
        /\ him[x] = "wantyes" => Has(nb, <<DO, x>>) \/ Has(nr, <<WILL, x>>) \/ Has(nr, <<WONT, x>>)
    BY Zenon DEF Waits
  <2>4. \A d : m = <<d, x>> => c = d /\ o = x
    OBVIOUS
  <2>5. x \notin {Echo, SuppressGoAhead}
    OBVIOUS
  <2>6. us[x] = "wantyes" => Has(q, <<WILL, x>>) \/ Has(p, <<DO, x>>) \/ Has(p, <<DONT, x>>)
    BY <1>1, <2>3, <2>4, <2>5, Zenon DEF Answering
  <2>7. him[x] = "wantyes" => Has(q, <<DO, x>>) \/ Has(p, <<WILL, x>>) \/ Has(p, <<WONT, x>>)
    BY <1>1, <2>3, <2>4, Zenon DEF Answering
  <2> QED
    BY <2>6, <2>7, Zenon
<1> QED
  BY <1>2, Zenon DEF Waits

\* Agreement with the options as they are when the command has been read.
AgreesRead(us, him, k, g, n, l, c, o, q, p) ==
  Agreement(us, him, IF o = Echo THEN c \in {WILL, DO} ELSE k,
            IF o = SuppressGoAhead THEN c \in {WILL, DO} ELSE g,
            IF o = NAWS /\ c = DO THEN TRUE ELSE n,
            IF o = Echo THEN c \in {WONT, DO} ELSE l, q, p)

\* The parser reads a command about an option and answers it.
LEMMA ReadAgrees ==
  ASSUME OptionsOfOneSide, NEW us, NEW him, NEW k, NEW g, NEW n, NEW l,
         NEW nb \in Seq(Nego2), nb # <<>>, NEW nr \in Seq(Nego2), Agreement(us, him, k, g, n, l, nb, nr),
         NEW c \in Verbs, NEW o \in Nat, Head(nb) = <<c, o>>, NEW q, q = Tail(nb),
         NEW a, a = Answer(c, o, k, g, n), NEW p, p = IF a = 0 THEN nr ELSE Append(nr, <<a, o>>)
  PROVE  AgreesRead(us, him, k, g, n, l, c, o, q, p)
<1>1. PICK m : m = Head(nb)
  OBVIOUS
<1>2. m = <<c, o>> /\ m[1] = c /\ m[2] = o
  BY <1>1
<1>3. PICK r : r = <<a, o>>
  OBVIOUS
<1>4. a \in Nat
  BY Answers
<1>5. r \in Nego2 /\ r[1] = a /\ r[2] = o
  BY <1>3, <1>4 DEF Nego2
<1>6. PICK s : s = Append(nr, r)
  OBVIOUS
<1>7. p = IF a = 0 THEN nr ELSE s
  BY <1>3, <1>6, Zenon
<1>8. (\A i : Has(nr, i) => Has(s, i)) /\ Has(s, r)
  BY <1>5, <1>6, QueueAppend
<1>9. \A i : Has(s, i) /\ i # r => Has(nr, i)
  BY <1>5, <1>6, QueueAppend
<1>10. /\ \A i : Has(nr, i) => Has(p, i)
       /\ a # 0 => Has(p, r)
       /\ \A i : Has(p, i) /\ (a # 0 => i # r) => Has(nr, i)
  BY <1>7, <1>8, <1>9, Zenon
<1>11. /\ o # Echo => Echoes(us, him, k, l, q, p)
       /\ o # SuppressGoAhead => GoesAhead(us, him, g, q, p)
  <2>1. /\ o # Echo => Echoes(us, him, k, l, q, nr)
        /\ o # SuppressGoAhead => GoesAhead(us, him, g, q, nr)
    BY <1>1, <1>2, UnreadAgrees DEF Agreement
  <2>2. /\ o # Echo /\ Echoes(us, him, k, l, q, nr) => Echoes(us, him, k, l, q, s)
        /\ o # SuppressGoAhead /\ GoesAhead(us, him, g, q, nr) => GoesAhead(us, him, g, q, s)
    BY <1>5, <1>6, ToHostAgrees
  <2> QED
    BY <1>7, <2>1, <2>2, Zenon
<1>12. Waits(us, him, q, p)
  <2>1. o \notin {Echo, SuppressGoAhead} /\ c = WILL => Has(p, <<DONT, o>>)
    <3>1. o \notin {Echo, SuppressGoAhead} /\ c = WILL => a = DONT
      BY Answers
    <3> QED
      BY <1>3, <1>10, <3>1, Codes, Zenon
  <2>2. ASSUME o \in Options \ {Echo, SuppressGoAhead}, c = DO, him[o] = "wantyes"
        PROVE  Has(p, <<WILL, o>>) \/ Has(p, <<WONT, o>>)
    <3>1. CASE o = NAWS /\ n
      <4>1. NAWS \in ClientOptions
        BY <2>2, <3>1 DEF Agreement, Asked
      <4>2. him[NAWS] = "yes" \/ Has(nr, <<WILL, NAWS>>)
        BY <3>1, <4>1, Zenon DEF Agreement, Sized
      <4>3. "yes" # "wantyes"
        OBVIOUS
      <4> QED
        BY <1>10, <2>2, <3>1, <4>2, <4>3, Zenon
    <3>2. CASE ~(o = NAWS /\ n)
      <4>2. o \notin {Echo, SuppressGoAhead} /\ c = DO /\ ~(o = NAWS /\ n) => a \in {WILL, WONT}
        BY Answers
      <4>1. a \in {WILL, WONT}
        BY <2>2, <3>2, <4>2
      <4> QED
        BY <1>3, <1>10, <4>1, Codes, Zenon
    <3> QED
      BY <3>1, <3>2
  <2>3. Waits(us, him, nb, nr)
    BY DEF Agreement
  <2>4. Answering(him, c, o, nr, p)
    BY <1>10, <2>1, <2>2, Zenon DEF Answering
  <2>5. m[1] = c /\ m[2] = o
    BY <1>2
  <2> QED
    BY <1>1, <2>3, <2>4, <2>5, WaitsRead, Zenon
<1>13. PICK n2 : n2 = (IF o = NAWS /\ c = DO THEN TRUE ELSE n)
  OBVIOUS
<1>14. Sized(him, n2, p)
  <2>1. Sized(him, n, nr)
    BY DEF Agreement
  <2>2. ~Has(p, <<WONT, NAWS>>)
    <3>1. a = WONT => o # NAWS
      BY Answers
    <3>2. r # <<WONT, NAWS>>
      BY <1>3, <3>1
    <3> QED
      BY <1>10, <2>1, <3>2, Zenon DEF Sized
  <2>3. CASE o = NAWS /\ c = DO /\ ~n
    <3>1. a = WILL
      BY <2>3, Answers
    <3>2. Has(p, <<WILL, NAWS>>)
      BY <1>3, <1>10, <2>3, <3>1, Codes, Zenon
    <3> QED
      BY <2>1, <2>2, <3>2, Zenon DEF Sized
  <2>4. CASE ~(o = NAWS /\ c = DO /\ ~n)
    <3>1. n2 => n
      BY <1>13, <2>4
    <3> QED
      BY <1>10, <2>1, <2>2, <3>1, Zenon DEF Sized
  <2> QED
    BY <2>3, <2>4
<1>15. PICK k2, l2, g2 : /\ k2 = (IF o = Echo THEN c \in {WILL, DO} ELSE k)
                         /\ l2 = (IF o = Echo THEN c \in {WONT, DO} ELSE l)
                         /\ g2 = (IF o = SuppressGoAhead THEN c \in {WILL, DO} ELSE g)
  OBVIOUS
<1>19. /\ c \in {WILL, DO} => (c \in {WILL, DO}) = TRUE /\ (c \in {WONT, DONT}) = FALSE
       /\ c \in {WONT, DONT} => (c \in {WILL, DO}) = FALSE /\ (c \in {WILL, DO}) = FALSE
       /\ c = WILL => (c \in {WONT, DO}) = FALSE
       /\ c = WONT => (c \in {WONT, DO}) = TRUE
  BY Codes
<1>20. /\ c = WILL \/ c = DO => c \in {WILL, DO}
       /\ c = WONT \/ c = DONT => c \in {WONT, DONT}
       /\ o = Echo => k2 = (c \in {WILL, DO}) /\ l2 = (c \in {WONT, DO})
       /\ o = SuppressGoAhead => g2 = (c \in {WILL, DO})
  BY <1>15, Zenon
<1>16. Echoes(us, him, k2, l2, q, p)
  <2>1. CASE o = Echo
    <3>1. Handshake(us[Echo], k, nb, nr, o, WILL, WONT, DO, DONT) /\ him[Echo] = "no"
      BY <2>1, Zenon DEF Agreement, Echoes, ByHost
    <3>2. a = Toggled(c, k)
      BY <2>1 DEF Answer
    <3>3. Consented(m, us[Echo], k, q, nr, o, WILL, WONT, DO, DONT)
      BY <1>1, <1>2, <3>1, Codes, HandshakeRead
    <3>4. CASE c = WILL /\ ~k
      <4>2. a = DO /\ a # 0
        BY <3>2, <3>4, Codes DEF Toggled
      <4>3. k2 = TRUE
        BY <1>19, <1>20, <2>1, <3>4, Zenon
      <4>5. l2 = FALSE
        BY <1>19, <1>20, <2>1, <3>4, Zenon
      <4>4. Handshake(us[Echo], TRUE, q, s, o, WILL, WONT, DO, DONT)
        <5>1. c # WONT
          BY <3>4, Codes
        <5> QED
          BY <1>2, <1>3, <1>6, <3>3, <4>2, <5>1, Zenon DEF Consented
      <4>6. p = s
        BY <1>7, <4>2, Zenon
      <4>7. Handshake(us[Echo], k2, q, p, o, WILL, WONT, DO, DONT)
        BY <4>3, <4>4, <4>6, Zenon
      <4>8. l2 = ~k2
        BY <4>3, <4>5
      <4> QED
        BY <2>1, <3>1, <4>7, <4>8, Zenon DEF Echoes, ByHost
    <3>5. CASE c = WONT /\ k
      <4>2. a = DONT /\ a # 0
        BY <3>2, <3>5, Codes DEF Toggled
      <4>3. k2 = FALSE
        BY <1>19, <1>20, <2>1, <3>5, Zenon
      <4>5. l2 = TRUE
        BY <1>19, <1>20, <2>1, <3>5, Zenon
      <4>4. Handshake(us[Echo], FALSE, q, s, o, WILL, WONT, DO, DONT)
        <5>1. c # WILL
          BY <3>5, Codes
        <5> QED
          BY <1>2, <1>3, <1>6, <3>3, <4>2, <5>1, Zenon DEF Consented
      <4>6. p = s
        BY <1>7, <4>2, Zenon
      <4>7. Handshake(us[Echo], k2, q, p, o, WILL, WONT, DO, DONT)
        BY <4>3, <4>4, <4>6, Zenon
      <4>8. l2 = ~k2
        BY <4>3, <4>5
      <4> QED
        BY <2>1, <3>1, <4>7, <4>8, Zenon DEF Echoes, ByHost
    <3> QED
      BY <1>2, <3>3, <3>4, <3>5, Zenon DEF Consented
  <2>2. CASE o # Echo
    BY <1>11, <1>15, <2>2, Zenon
  <2> QED
    BY <2>1, <2>2
<1>17. GoesAhead(us, him, g2, q, p)
  <2>1. CASE o = SuppressGoAhead
    <3>1. a = Toggled(c, g)
      BY <2>1, OptionCodes DEF Answer
    <3>2. ASSUME NEW st, NEW offer \in {WILL, DO}, NEW withdraw \in {WONT, DONT}, NEW accept, NEW refuse,
                 accept = (IF offer = WILL THEN DO ELSE WILL),
                 refuse = (IF withdraw = WONT THEN DONT ELSE WONT),
                 Handshake(st, g, nb, nr, o, offer, withdraw, accept, refuse)
          PROVE  Handshake(st, g2, q, p, o, offer, withdraw, accept, refuse)
      <4>1. offer \in Nat /\ withdraw \in Nat /\ accept \in Nat /\ refuse \in Nat /\ accept # 0 /\ refuse # 0
        BY <3>2, Codes
      <4>2. Consented(m, st, g, q, nr, o, offer, withdraw, accept, refuse)
        BY <1>1, <1>2, <3>2, <4>1, HandshakeRead
      <4>3. CASE /\ m[1] = offer /\ ~g
                 /\ Handshake(st, TRUE, q, Append(nr, <<accept, o>>), o, offer, withdraw, accept, refuse)
        <5>1. c = offer
          BY <1>2, <4>3
        <5>2. a = accept
          BY <3>1, <3>2, <4>3, <5>1, Codes DEF Toggled
        <5>3. g2 = TRUE
          BY <1>19, <1>20, <2>1, <3>2, <5>1, Zenon
        <5> QED
          BY <1>3, <1>6, <1>7, <4>1, <4>3, <5>2, <5>3, Zenon
      <4>4. CASE /\ m[1] = withdraw /\ g
                 /\ Handshake(st, FALSE, q, Append(nr, <<refuse, o>>), o, offer, withdraw, accept, refuse)
        <5>1. c = withdraw
          BY <1>2, <4>4
        <5>2. a = refuse
          BY <3>1, <3>2, <4>4, <5>1, Codes DEF Toggled
        <5>3. g2 = FALSE
          BY <1>19, <1>20, <2>1, <3>2, <5>1, Zenon
        <5> QED
          BY <1>3, <1>6, <1>7, <4>1, <4>4, <5>2, <5>3, Zenon
      <4> QED
        BY <4>2, <4>3, <4>4, Zenon DEF Consented
    <3>3. ASSUME NEW st, ByHost(st, g, nb, nr, o)
          PROVE  ByHost(st, g2, q, p, o)
      <4>1. /\ WILL \in {WILL, DO} /\ WONT \in {WONT, DONT} /\ DO = (IF WILL = WILL THEN DO ELSE WILL)
            /\ DONT = (IF WONT = WONT THEN DONT ELSE WONT)
        OBVIOUS
      <4> QED
        BY <3>2, <3>3, <4>1, Zenon DEF ByHost
    <3>4. ASSUME NEW st, ByBrowser(st, g, nb, nr, o)
          PROVE  ByBrowser(st, g2, q, p, o)
      <4>1. /\ DO \in {WILL, DO} /\ DONT \in {WONT, DONT} /\ WILL = (IF DO = WILL THEN DO ELSE WILL)
            /\ WONT = (IF DONT = WONT THEN DONT ELSE WONT)
        BY Codes
      <4> QED
        BY <3>2, <3>4, <4>1, Zenon DEF ByBrowser
    <3> QED
      BY <2>1, <3>3, <3>4, Zenon DEF GoesAhead, Agreement
  <2>2. CASE o # SuppressGoAhead
    BY <1>11, <1>15, <2>2, Zenon
  <2> QED
    BY <2>1, <2>2
<1>18. Agreement(us, him, k2, g2, n2, l2, q, p)
  BY <1>12, <1>14, <1>16, <1>17, Zenon DEF Agreement
<1> QED
  BY <1>13, <1>15, <1>18, Zenon DEF AgreesRead

\* What the host has of an option that it hears about, and of the others.
LEMMA HostTakes ==
  ASSUME NEW us \in [Options -> States], NEW him \in [Options -> States], NEW c \in Verbs, NEW o,
         NEW u, u = UsAfter(us, c, o), NEW h, h = HimAfter(him, c, o)
  PROVE  /\ \A x \in Options : x # o => u[x] = us[x] /\ h[x] = him[x]
         /\ o \in Options /\ c \in {DO, DONT} =>
              u[o] = Taken(us[o], c = DO, o \in ServerOptions) /\ u[o] \in {"no", "yes"} /\ h[o] = him[o]
         /\ o \in Options /\ c \in {WILL, WONT} =>
              h[o] = Taken(him[o], c = WILL, o \in ClientOptions) /\ h[o] \in {"no", "yes"} /\ u[o] = us[o]
         /\ u \in [Options -> States] /\ h \in [Options -> States]
<1>1. \A st, for, supported : Taken(st, for, supported) \in {"no", "yes"}
  BY DEF Taken
<1>2. c \in {DO, DONT} => c \notin {WILL, WONT}
  BY Codes
<1>3. c \in {DO, DONT} \/ c \in {WILL, WONT}
  BY DEF Verbs
<1>4. PICK v, w : v = Taken(us[o], c = DO, o \in ServerOptions) /\ w = Taken(him[o], c = WILL, o \in ClientOptions)
  OBVIOUS
<1>5. v \in {"no", "yes"} /\ w \in {"no", "yes"}
  BY <1>1, <1>4, Zenon
<1>6. CASE c \in {DO, DONT}
  <2>1. h = him
    BY <1>2, <1>6, Zenon DEF HimAfter
  <2>2. u = [us EXCEPT ![o] = v]
    BY <1>4, <1>6, Zenon DEF UsAfter
  <2>3. \A x \in Options : x # o => u[x] = us[x]
    BY <2>2
  <2>4. o \in Options => u[o] = v
    BY <2>2
  <2>5. u \in [Options -> States]
    BY <1>5, <2>2 DEF States
  <2> QED
    BY <1>2, <1>4, <1>5, <1>6, <2>1, <2>3, <2>4, <2>5, Zenon
<1>7. CASE c \in {WILL, WONT}
  <2>1. u = us
    BY <1>2, <1>7, Zenon DEF UsAfter
  <2>2. h = [him EXCEPT ![o] = w]
    BY <1>4, <1>7, Zenon DEF HimAfter
  <2>3. \A x \in Options : x # o => h[x] = him[x]
    BY <2>2
  <2>4. o \in Options => h[o] = w
    BY <2>2
  <2>5. h \in [Options -> States]
    BY <1>5, <2>2 DEF States
  <2> QED
    BY <1>2, <1>4, <1>5, <1>7, <2>1, <2>3, <2>4, <2>5, Zenon
<1> QED
  BY <1>3, <1>6, <1>7

\* The host hears a command about an option and answers it.
LEMMA HearAgrees ==
  ASSUME OptionsOfOneSide, NEW us \in [Options -> States], NEW him \in [Options -> States],
         NEW k, NEW g, NEW n, NEW l, NEW nb \in Seq(Nego2), NEW nr \in Seq(Nego2), nr # <<>>,
         Agreement(us, him, k, g, n, l, nb, nr),
         NEW c \in Verbs, NEW o \in Nat, Head(nr) = <<c, o>>, NEW q, q = Tail(nr),
         NEW a \in Nat, a = ReplyTo(us, him, c, o), NEW p, p = IF a = 0 THEN nb ELSE Append(nb, <<a, o>>)
  PROVE  Agreement(UsAfter(us, c, o), HimAfter(him, c, o), k, g, n, l, p, q)
<1>1. PICK m : m = Head(nr)
  OBVIOUS
<1>2. m = <<c, o>> /\ m[1] = c /\ m[2] = o
  BY <1>1
<1>3. PICK r : r = <<a, o>>
  OBVIOUS
<1>4. r \in Nego2 /\ r[2] = o
  BY <1>3 DEF Nego2
<1>5. PICK s : s = Append(nb, r)
  OBVIOUS
<1>6. p = IF a = 0 THEN nb ELSE s
  BY <1>3, <1>5, Zenon
<1>7. \A i : Has(nb, i) => Has(p, i)
  <2>1. \A i : Has(nb, i) => Has(s, i)
    BY <1>4, <1>5, QueueAppend
  <2> QED
    BY <1>6, <2>1, Zenon
<1>8. /\ \A i : Has(nr, i) => m = i \/ Has(q, i)
      /\ \A i : Has(q, i) => Has(nr, i)
      /\ Has(nr, m)
  <2>1. /\ \A i : Has(nr, i) => Head(nr) = i \/ Has(q, i)
        /\ \A i : Has(q, i) => Has(nr, i)
        /\ Has(nr, Head(nr))
    BY QueueTail
  <2> QED
    BY <1>1, <2>1, Zenon
<1>9. PICK u, h : u = UsAfter(us, c, o) /\ h = HimAfter(him, c, o)
  OBVIOUS
<1>10. /\ \A x \in Options : x # o => u[x] = us[x] /\ h[x] = him[x]
       /\ o \in Options /\ c \in {DO, DONT} =>
              u[o] = Taken(us[o], c = DO, o \in ServerOptions) /\ u[o] \in {"no", "yes"} /\ h[o] = him[o]
       /\ o \in Options /\ c \in {WILL, WONT} =>
              h[o] = Taken(him[o], c = WILL, o \in ClientOptions) /\ h[o] \in {"no", "yes"} /\ u[o] = us[o]
  BY <1>9, HostTakes
<1>11. /\ "wantyes" \notin {"no", "yes"} /\ "wantno" \notin {"no", "yes"}
       /\ c \in {DO, DONT} \/ c \in {WILL, WONT}
  BY DEF Verbs
<1>12. \A d, x : m = <<d, x>> => c = d /\ o = x
  BY <1>2
<1>13. Waits(u, h, p, q)
  <2>1. ASSUME NEW x \in Options \ {Echo, SuppressGoAhead}
        PROVE  /\ u[x] = "wantyes" => Has(p, <<WILL, x>>) \/ Has(q, <<DO, x>>) \/ Has(q, <<DONT, x>>)
               /\ h[x] = "wantyes" => Has(p, <<DO, x>>) \/ Has(q, <<WILL, x>>) \/ Has(q, <<WONT, x>>)
    <3>1. /\ us[x] = "wantyes" => Has(p, <<WILL, x>>) \/ Has(nr, <<DO, x>>) \/ Has(nr, <<DONT, x>>)
          /\ him[x] = "wantyes" => Has(p, <<DO, x>>) \/ Has(nr, <<WILL, x>>) \/ Has(nr, <<WONT, x>>)
      BY <1>7, Zenon DEF Agreement, Waits
    <3>2. x \in Options
      OBVIOUS
    <3>3. CASE x # o
      <4>1. \A d : Has(nr, <<d, x>>) => Has(q, <<d, x>>)
        BY <1>8, <1>12, <3>3, Zenon
      <4>2. u[x] = us[x] /\ h[x] = him[x]
        BY <1>10, <3>2, <3>3, Zenon
      <4> QED
        BY <3>1, <4>1, <4>2, Zenon
    <3>4. CASE x = o /\ c \in {DO, DONT}
      <4>1. c # WILL /\ c # WONT
        BY <3>4, Codes
      <4>2. u[x] # "wantyes" /\ h[x] = him[x]
        BY <1>10, <1>11, <3>2, <3>4, Zenon
      <4> QED
        BY <1>8, <1>12, <3>1, <4>1, <4>2, Zenon
    <3>5. CASE x = o /\ c \in {WILL, WONT}
      <4>1. c # DO /\ c # DONT
        BY <3>5, Codes
      <4>2. h[x] # "wantyes" /\ u[x] = us[x]
        BY <1>10, <1>11, <3>2, <3>5, Zenon
      <4> QED
        BY <1>8, <1>12, <3>1, <4>1, <4>2, Zenon
    <3> QED
      BY <1>11, <3>3, <3>4, <3>5, Zenon
  <2> QED
    BY <2>1, Zenon DEF Waits
<1>14. Asked(h)
  <2>1. ASSUME NEW x \in Options, h[x] = "wantyes"
        PROVE  x \in ClientOptions
    <3>1. him[x] = "wantyes"
      BY <1>10, <1>11, <2>1, Zenon
    <3> QED
      BY <3>1, Zenon DEF Agreement, Asked
  <2> QED
    BY <2>1, Zenon DEF Asked
<1>15. Sized(h, n, q)
  <2>1. Sized(him, n, nr)
    BY Zenon DEF Agreement
  <2>2. ~Has(q, <<WONT, NAWS>>) /\ ~Has(nr, <<WONT, NAWS>>)
    BY <1>8, <2>1, Zenon DEF Sized
  <2>3. h[NAWS] # "wantno"
    BY <1>10, <1>11, <2>1, OptionCodes, Zenon DEF Sized
  <2>4. ASSUME n, NAWS \in ClientOptions
        PROVE  h[NAWS] = "yes" \/ Has(q, <<WILL, NAWS>>)
    <3>1. him[NAWS] = "yes" \/ Has(nr, <<WILL, NAWS>>)
      BY <2>1, <2>4, Zenon DEF Sized
    <3>2. CASE o # NAWS
      <4>1. \A d : Has(nr, <<d, NAWS>>) => Has(q, <<d, NAWS>>)
        BY <1>8, <1>12, <3>2, Zenon
      <4>2. h[NAWS] = him[NAWS]
        BY <1>10, <3>2, OptionCodes, Zenon
      <4> QED
        BY <3>1, <4>1, <4>2, Zenon
    <3>3. CASE o = NAWS /\ c \in {DO, DONT}
      <4>1. c # WILL
        BY <3>3, Codes
      <4>2. h[NAWS] = him[NAWS]
        BY <1>10, <3>3, OptionCodes, Zenon
      <4> QED
        BY <1>8, <1>12, <3>1, <4>1, <4>2, Zenon
    <3>4. CASE o = NAWS /\ c = WONT
      BY <1>2, <1>8, <2>2, <3>4, Zenon
    <3>5. CASE o = NAWS /\ c = WILL
      <4>1. h[NAWS] = Taken(him[NAWS], c = WILL, NAWS \in ClientOptions)
        BY <1>10, <3>5, OptionCodes
      <4>2. him[NAWS] \in {"no", "yes", "wantyes"}
        BY <2>1, OptionCodes DEF Sized, States
      <4>3. h[NAWS] = "yes"
        BY <2>4, <3>5, <4>1, <4>2 DEF Taken
      <4> QED
        BY <4>3
    <3> QED
      BY <1>11, <3>2, <3>3, <3>4, <3>5, Zenon
  <2> QED
    BY <2>2, <2>3, <2>4, Zenon DEF Sized
<1>16. /\ o # Echo => Echoes(u, h, k, l, p, q)
       /\ o # SuppressGoAhead => GoesAhead(u, h, g, p, q)
  <2>1. /\ o # Echo => Echoes(us, him, k, l, nb, q)
        /\ o # SuppressGoAhead => GoesAhead(us, him, g, nb, q)
    BY <1>1, <1>2, UnheardAgrees DEF Agreement
  <2>2. /\ o # Echo => Echoes(us, him, k, l, s, q)
        /\ o # SuppressGoAhead => GoesAhead(us, him, g, s, q)
    BY <1>4, <1>5, <2>1, ToBrowserAgrees
  <2>3. /\ o # Echo => Echoes(us, him, k, l, p, q)
        /\ o # SuppressGoAhead => GoesAhead(us, him, g, p, q)
    BY <1>6, <2>1, <2>2, Zenon
  <2>4. /\ o # Echo => u[Echo] = us[Echo] /\ h[Echo] = him[Echo]
        /\ o # SuppressGoAhead => u[SuppressGoAhead] = us[SuppressGoAhead] /\ h[SuppressGoAhead] = him[SuppressGoAhead]
    BY <1>10, OptionCodes, Zenon
  <2> QED
    BY <2>3, <2>4, Zenon DEF Echoes, GoesAhead
<1>17. ASSUME NEW on, o \in Options, ByHost(us[o], on, nb, nr, o)
       PROVE  ByHost(u[o], on, p, q, o) /\ h[o] = him[o]
  <2>1. Concluded(m, us[o], on, nb, q, o, WILL, WONT, DO, DONT)
    BY <1>1, <1>2, <1>17, HandshakeHeard DEF ByHost
  <2>2. CASE c = DO /\ us[o] = "wantyes" /\ Handshake("yes", on, nb, q, o, WILL, WONT, DO, DONT)
    <3>4. c \in {DO, DONT}
      BY <2>2
    <3>1. u[o] = "yes"
      <4>1. u[o] = Taken(us[o], c = DO, o \in ServerOptions)
        BY <1>10, <1>17, <3>4, Zenon
      <4> QED
        BY <2>2, <4>1 DEF Taken
    <3>2. a = 0
      <4>1. a = Replied(us[o], c = DO, o \in ServerOptions, WILL, WONT)
        BY <3>4, Zenon DEF ReplyTo
      <4> QED
        BY <2>2, <4>1 DEF Replied
    <3>3. h[o] = him[o]
      BY <1>10, <1>17, <2>2
    <3> QED
      BY <1>6, <2>2, <3>1, <3>2, <3>3, Zenon DEF ByHost
  <2>3. CASE c = DONT /\ us[o] = "wantno" /\ Handshake("no", on, nb, q, o, WILL, WONT, DO, DONT)
    <3>4. (c = DO) = FALSE
      BY <2>3, Codes
    <3>1. u[o] = "no"
      BY <1>10, <1>17, <2>3, <3>4 DEF Taken
    <3>2. a = 0
      BY <2>3, <3>4 DEF ReplyTo, Replied
    <3>3. h[o] = him[o]
      BY <1>10, <1>17, <2>3
    <3> QED
      BY <1>6, <2>3, <3>1, <3>2, <3>3, Zenon DEF ByHost
  <2> QED
    BY <1>2, <2>1, <2>2, <2>3, Zenon DEF Concluded
<1>18. ASSUME NEW on, o \in Options, ByBrowser(him[o], on, nb, nr, o)
       PROVE  ByBrowser(h[o], on, p, q, o) /\ u[o] = us[o]
  <2>1. Concluded(m, him[o], on, nb, q, o, DO, DONT, WILL, WONT)
    BY <1>1, <1>2, <1>18, HandshakeHeard DEF ByBrowser
  <2>2. CASE c = WILL /\ him[o] = "wantyes" /\ Handshake("yes", on, nb, q, o, DO, DONT, WILL, WONT)
    <3>4. c \notin {DO, DONT} /\ c \in {WILL, WONT}
      BY <2>2, Codes
    <3>1. h[o] = "yes"
      <4>1. h[o] = Taken(him[o], c = WILL, o \in ClientOptions)
        BY <1>10, <1>18, <3>4, Zenon
      <4> QED
        BY <2>2, <4>1 DEF Taken
    <3>2. a = 0
      <4>1. a = Replied(him[o], c = WILL, o \in ClientOptions, DO, DONT)
        BY <3>4, Zenon DEF ReplyTo
      <4> QED
        BY <2>2, <4>1 DEF Replied
    <3>3. u[o] = us[o]
      BY <1>10, <1>18, <2>2
    <3> QED
      BY <1>6, <2>2, <3>1, <3>2, <3>3, Zenon DEF ByBrowser
  <2>3. CASE c = WONT /\ him[o] = "wantno" /\ Handshake("no", on, nb, q, o, DO, DONT, WILL, WONT)
    <3>4. c \notin {DO, DONT} /\ (c = WILL) = FALSE
      BY <2>3, Codes
    <3>1. h[o] = "no"
      BY <1>10, <1>18, <2>3, <3>4 DEF Taken
    <3>2. a = 0
      BY <2>3, <3>4 DEF ReplyTo, Replied
    <3>3. u[o] = us[o]
      BY <1>10, <1>18, <2>3
    <3> QED
      BY <1>6, <2>3, <3>1, <3>2, <3>3, Zenon DEF ByBrowser
  <2> QED
    BY <1>2, <2>1, <2>2, <2>3, Zenon DEF Concluded
<1>19. Echoes(u, h, k, l, p, q)
  <2>1. Echoes(us, him, k, l, nb, nr)
    BY Zenon DEF Agreement
  <2>2. CASE o = Echo
    BY <1>17, <2>1, <2>2, OptionCodes, Zenon DEF Echoes
  <2> QED
    BY <1>16, <2>2, Zenon
<1>20. GoesAhead(u, h, g, p, q)
  <2>1. GoesAhead(us, him, g, nb, nr)
    BY Zenon DEF Agreement
  <2>2. CASE o = SuppressGoAhead /\ SuppressGoAhead \in ClientOptions
    BY <1>18, <2>1, <2>2, OptionCodes, Zenon DEF GoesAhead
  <2>3. CASE o = SuppressGoAhead /\ SuppressGoAhead \notin ClientOptions
    BY <1>17, <2>1, <2>3, OptionCodes, Zenon DEF GoesAhead
  <2> QED
    BY <1>16, <2>2, <2>3, Zenon
<1>21. Agreement(u, h, k, g, n, l, p, q)
  BY <1>13, <1>14, <1>15, <1>19, <1>20, Zenon DEF Agreement
<1> QED
  BY <1>9, <1>21, Zenon

---------------------------------------------------------------------------
(* What is sent, as its reader has it before him.                           *)

\* The bytes of a command, and the commands they are.
LEMMA NegoBytes ==
  ASSUME NEW c \in Nat, NEW o \in Nat
  PROVE  Nego(c, o) \in Seq(Nat) /\ <<c, o>> \in Nego2
<1>1. IAC \in Nat
  BY DEF IAC
<1>2. <<IAC, c, o>> \in Seq(Nat)
  BY <1>1, ThreeBytes
<1> QED
  BY <1>2 DEF Nego, Nego2

\* The four commands are bytes.
LEMMA VerbsAreBytes == Verbs \subseteq Nat
  BY DEF Verbs, WILL, WONT, DO, DONT

\* The parser's answer, and the host's reply, is a command or none.
LEMMA AnswerIs ==
  ASSUME NEW c, NEW o, NEW k, NEW g, NEW n
  PROVE  Answer(c, o, k, g, n) \in {0} \cup Verbs
<1>1. \A on : Toggled(c, on) \in {0} \cup Verbs
  BY DEF Toggled, Verbs
<1>2. {WILL, WONT, DO, DONT, 0} \subseteq {0} \cup Verbs
  BY DEF Verbs
<1> QED
  BY <1>1, <1>2 DEF Answer

\* The host replies with a verb or not at all.
LEMMA ReplyIs ==
  ASSUME NEW c, NEW o, NEW u, NEW h
  PROVE  ReplyTo(u, h, c, o) \in {0} \cup Verbs
<1>1. \A st, for, supported : /\ Replied(st, for, supported, WILL, WONT) \in {0} \cup Verbs
                              /\ Replied(st, for, supported, DO, DONT) \in {0} \cup Verbs
  BY DEF Replied, Verbs
<1> QED
  BY <1>1 DEF ReplyTo

\* A command that is sent, or none.
Said(x, o) == IF x = 0 THEN <<>> ELSE Nego(x, o)
With(negos, x, o) == IF x = 0 THEN negos ELSE Append(negos, <<x, o>>)

\* What is said of an option is one more to come, or none.
LEMMA AheadSaid ==
  ASSUME NEW known \in BOOLEAN, NEW bytes \in Seq(Nat), NEW mode, NEW cmd, NEW text, NEW whole,
         NEW negos \in Seq(Nego2), Ahead(known, bytes, mode, cmd, text, whole, negos),
         NEW x \in {0} \cup Verbs, NEW o \in Nat
  PROVE  /\ Ahead(known, bytes \o Said(x, o), mode, cmd, text, whole, With(negos, x, o))
         /\ bytes \o Said(x, o) \in Seq(Nat) /\ With(negos, x, o) \in Seq(Nego2)
<1>1. CASE x = 0
  <2>1. Said(x, o) = <<>> /\ With(negos, x, o) = negos
    BY <1>1 DEF Said, With
  <2>2. bytes \o <<>> = bytes
    BY ConcatEmptySeq
  <2> QED
    BY <2>1, <2>2
<1>2. CASE x # 0
  <2>1. Said(x, o) = Nego(x, o) /\ With(negos, x, o) = Append(negos, <<x, o>>)
    BY <1>2 DEF Said, With
  <2>2. x \in Verbs /\ x \in Nat
    BY <1>2, VerbsAreBytes
  <2>3. Nego(x, o) \in Seq(Nat) /\ <<x, o>> \in Nego2
    BY <2>2, NegoBytes
  <2>4. Ahead(known, bytes \o Nego(x, o), mode, cmd, text, whole, Append(negos, <<x, o>>))
    BY <2>2, AheadNego
  <2>5. bytes \o Nego(x, o) \in Seq(Nat)
    BY <2>3, BytesConcat
  <2>6. Append(negos, <<x, o>>) \in Seq(Nego2)
    BY <2>3, AppendProperties
  <2> QED
    BY <2>1, <2>4, <2>5, <2>6, Zenon
<1> QED
  BY <1>1, <1>2

\* A size that is reported.
LEMMA AheadSize ==
  ASSUME SizesWithoutIAC, windowDim \in Sizes,
         NEW bytes \in Seq(Nat), NEW mode, NEW cmd, NEW text, NEW whole, NEW negos,
         Ahead(FALSE, bytes, mode, cmd, text, whole, negos)
  PROVE  /\ Ahead(FALSE, bytes \o SubNego(DimBytes, NAWS), mode, cmd, text, whole, negos)
         /\ bytes \o SubNego(DimBytes, NAWS) \in Seq(Nat) /\ SubNego(DimBytes, NAWS) \in Seq(Nat)
<1>1. PICK d : d = windowDim
  OBVIOUS
<1>2. DimBytes = SizeBytes(d) /\ d \in Sizes
  BY <1>1 DEF DimBytes, SizeBytes
<1>3. PICK s \in Seq(Nego2) :
        Leads(FALSE, bytes, [mode |-> mode, cmd |-> cmd, text |-> text, negos |-> s], "text", 0, whole, s \o negos)
  BY DEF Ahead
<1>4. PICK a : a = [mode |-> mode, cmd |-> cmd, text |-> text, negos |-> s]
  OBVIOUS
<1>5. PICK n : n = s \o negos
  OBVIOUS
<1>6. Leads(FALSE, bytes, a, "text", 0, whole, n)
  BY <1>3, <1>4, <1>5, Zenon
<1>7. /\ Leads(FALSE, bytes \o SubNego(SizeBytes(d), NAWS), a, "text", 0, whole, n)
      /\ SubNego(SizeBytes(d), NAWS) \in Seq(Nat)
  BY <1>2, <1>6, LeadsSize
<1>8. Ahead(FALSE, bytes \o SubNego(SizeBytes(d), NAWS), mode, cmd, text, whole, negos)
  BY <1>4, <1>5, <1>7, Zenon DEF Ahead
<1>9. bytes \o SubNego(SizeBytes(d), NAWS) \in Seq(Nat)
  BY <1>7, BytesConcat
<1> QED
  BY <1>2, <1>7, <1>8, <1>9, Zenon

\* The answer to a command about an option, with the size if it is asked for.
LEMMA AheadAnswered ==
  ASSUME SizesWithoutIAC, windowDim \in Sizes,
         NEW bytes \in Seq(Nat), NEW mode, NEW cmd, NEW text, NEW whole, NEW negos \in Seq(Nego2),
         Ahead(FALSE, bytes, mode, cmd, text, whole, negos),
         NEW c \in Verbs, NEW o \in Nat, NEW k, NEW g, NEW n, NEW a, a = Answer(c, o, k, g, n)
  PROVE  /\ Ahead(FALSE, bytes \o Answered(c, o, k, g, n), mode, cmd, text, whole, With(negos, a, o))
         /\ bytes \o Answered(c, o, k, g, n) \in Seq(Nat) /\ With(negos, a, o) \in Seq(Nego2)
<1>1. a \in {0} \cup Verbs
  BY AnswerIs
<1>2. /\ Ahead(FALSE, bytes \o Said(a, o), mode, cmd, text, whole, With(negos, a, o))
      /\ bytes \o Said(a, o) \in Seq(Nat) /\ With(negos, a, o) \in Seq(Nego2)
  BY <1>1, AheadSaid
<1>3. CASE ~(c = DO /\ o = NAWS)
  <2>1. Answered(c, o, k, g, n) = Said(a, o)
    BY <1>3, Zenon DEF Answered, Said
  <2> QED
    BY <1>2, <2>1, Zenon
<1>4. CASE c = DO /\ o = NAWS
  <2>1. a = IF n THEN 0 ELSE WILL
    BY <1>4, OptionCodes DEF Answer
  <2>2. PICK b : b = bytes \o Said(a, o)
    OBVIOUS
  <2>3. PICK w : w = With(negos, a, o)
    OBVIOUS
  <2>4. b \in Seq(Nat) /\ Ahead(FALSE, b, mode, cmd, text, whole, w) /\ w \in Seq(Nego2)
    BY <1>2, <2>2, <2>3, Zenon
  <2>5. PICK z : z = SubNego(DimBytes, NAWS)
    OBVIOUS
  <2>6. Ahead(FALSE, b \o z, mode, cmd, text, whole, w) /\ b \o z \in Seq(Nat) /\ z \in Seq(Nat)
    BY <2>4, <2>5, AheadSize
  <2>7. b \o z = bytes \o Answered(c, o, k, g, n)
    <3>1. CASE n
      <4>1. Answered(c, o, k, g, n) = z
        BY <1>4, <2>5, <3>1, Zenon DEF Answered
      <4>2. Said(a, o) = <<>>
        BY <2>1, <3>1 DEF Said
      <4>3. b = bytes
        BY <2>2, <4>2, ConcatEmptySeq
      <4> QED
        BY <4>1, <4>3
    <3>2. CASE ~n
      <4>1. Answered(c, o, k, g, n) = Nego(WILL, NAWS) \o z
        BY <1>4, <2>5, <3>2, Zenon DEF Answered, WillSubNego
      <4>2. a = WILL /\ a # 0
        BY <2>1, <3>2, Codes
      <4>3. Said(a, o) = Nego(WILL, NAWS)
        BY <1>4, <4>2, Zenon DEF Said
      <4>4. Nego(WILL, NAWS) \in Seq(Nat)
        BY Codes, OptionCodes, NegoBytes
      <4>5. (bytes \o Nego(WILL, NAWS)) \o z = bytes \o (Nego(WILL, NAWS) \o z)
        BY <2>6, <4>4, BytesJoined
      <4> QED
        BY <2>2, <4>1, <4>3, <4>5, Zenon
    <3> QED
      BY <3>1, <3>2
  <2> QED
    BY <2>3, <2>4, <2>6, <2>7, Zenon
<1> QED
  BY <1>3, <1>4

\* The name of the terminal, and the question for it.
LEMMA AheadType ==
  ASSUME NEW bytes \in Seq(Nat), NEW mode, NEW cmd, NEW text, NEW whole, NEW negos
  PROVE  /\ Ahead(FALSE, bytes, mode, cmd, text, whole, negos) =>
              Ahead(FALSE, bytes \o SubNego(TypeName, TerminalType), mode, cmd, text, whole, negos)
         /\ Ahead(TRUE, bytes, mode, cmd, text, whole, negos) =>
              Ahead(TRUE, bytes \o SubNego(<<TypeSend>>, TerminalType), mode, cmd, text, whole, negos)
         /\ bytes \o SubNego(TypeName, TerminalType) \in Seq(Nat)
         /\ bytes \o SubNego(<<TypeSend>>, TerminalType) \in Seq(Nat)
<1>1. \A a, t, n : /\ Leads(FALSE, bytes, a, "text", 0, t, n) =>
                        Leads(FALSE, bytes \o SubNego(TypeName, TerminalType), a, "text", 0, t, n)
                   /\ Leads(TRUE, bytes, a, "text", 0, t, n) =>
                        Leads(TRUE, bytes \o SubNego(<<TypeSend>>, TerminalType), a, "text", 0, t, n)
  BY LeadsType
<1>2. SubNego(TypeName, TerminalType) \in Seq(Nat) /\ SubNego(<<TypeSend>>, TerminalType) \in Seq(Nat)
  BY LeadsType
<1>3. /\ bytes \o SubNego(TypeName, TerminalType) \in Seq(Nat)
      /\ bytes \o SubNego(<<TypeSend>>, TerminalType) \in Seq(Nat)
  BY <1>2, BytesConcat
<1> QED
  BY <1>1, <1>3, Zenon DEF Ahead

\* A command without an option.
LEMMA AheadPlain ==
  ASSUME NEW bytes \in Seq(Nat), NEW mode, NEW cmd, NEW text, NEW whole, NEW negos,
         Ahead(TRUE, bytes, mode, cmd, text, whole, negos), NEW c \in 241 .. 249
  PROVE  /\ Ahead(TRUE, bytes \o <<IAC, c>>, mode, cmd, text, whole, negos)
         /\ bytes \o <<IAC, c>> \in Seq(Nat)
<1>1. PICK s \in Seq(Nego2) :
        Leads(TRUE, bytes, [mode |-> mode, cmd |-> cmd, text |-> text, negos |-> s], "text", 0, whole, s \o negos)
  BY DEF Ahead
<1>2. Leads(TRUE, bytes \o <<IAC, c>>, [mode |-> mode, cmd |-> cmd, text |-> text, negos |-> s],
            "text", 0, whole, s \o negos)
      /\ bytes \o <<IAC, c>> \in Seq(Nat)
  BY <1>1, LeadsPlain
<1> QED
  BY <1>2 DEF Ahead

---------------------------------------------------------------------------
(* The invariant.                                                           *)

\* Between two bytes the parser has nothing to hand on, nor has the host.
IsParser(p) ==
  /\ p = Pars(p.mode, p.cmd, p.endExec, p.echoEnabled, p.suppressGoAhead, p.nawsAccepted, p.localEcho, <<>>, <<>>)
  /\ p.mode \in Modes \cup {"dead"} /\ p.cmd \in Nat
  /\ p.endExec \in BOOLEAN /\ p.echoEnabled \in BOOLEAN /\ p.suppressGoAhead \in BOOLEAN
  /\ p.nawsAccepted \in BOOLEAN /\ p.localEcho \in BOOLEAN
  /\ p.mode = "option" => p.cmd \in Verbs

IsHost(h) ==
  /\ h = Hos(h.mode, h.cmd, h.payload, h.text, h.us, h.him, h.size, <<>>)
  /\ h.mode \in Modes \ {"type"} /\ h.cmd \in Nat /\ h.text \in Seq(Nat)
  /\ h.us \in [Options -> States] /\ h.him \in [Options -> States]
  /\ h.mode = "option" => h.cmd \in Verbs

Types ==
  /\ toBrowser \in Seq(Nat) /\ toRemote \in Seq(Nat)
  /\ shown \in Seq(Nat) /\ said \in Seq(Nat) /\ typed \in Seq(Nat)
  /\ chunk \in Nat /\ chunk <= Len(toBrowser) /\ ticking \in BOOLEAN
  /\ windowDim \in Sizes /\ dim \in Sizes
  /\ senderClosed \in BOOLEAN /\ closed \in BOOLEAN
  /\ IsParser(parser) /\ IsHost(remote)
  /\ closed => senderClosed /\ toRemote = <<>> /\ parser.mode = "dead"

Texts == Begins(shown, said) /\ Begins(remote.text, typed)

\* Run has ended; what comes is read; both ends are there, and nothing was lost on the way
\* to the browser.
Dead == parser.mode = "dead"
Listening == ~Dead /\ (chunk > 0 \/ ticking \/ ~senderClosed)
Live == ~senderClosed /\ (Dead => toBrowser = <<>>)

ToHost(nr) ==
  nr \in Seq(Nego2) /\ (~closed => Ahead(FALSE, toRemote, remote.mode, remote.cmd, remote.text, typed, nr))

ToTerminal(nb) ==
  /\ nb \in Seq(Nego2)
  /\ Listening => Ahead(TRUE, toBrowser, parser.mode, parser.cmd, shown, said, nb)
  /\ Dead => nb = <<>>

Agreed(nb, nr) ==
  OptionsOfOneSide /\ Live =>
    Agreement(remote.us, remote.him, parser.echoEnabled, parser.suppressGoAhead, parser.nawsAccepted,
              parser.localEcho, nb, nr)

\* There are commands on their way, in both directions, that the bytes bring and both ends
\* agree with.
IInv ==
  /\ Types /\ Texts
  /\ \E nb, nr : ToHost(nr) /\ ToTerminal(nb) /\ Agreed(nb, nr)

\* A parser, and a host, from its fields.
LEMMA ParserIs ==
  ASSUME NEW m \in Modes \cup {"dead"}, NEW c \in Nat, NEW e \in BOOLEAN, NEW k \in BOOLEAN, NEW g \in BOOLEAN,
         NEW n \in BOOLEAN, NEW l \in BOOLEAN, m = "option" => c \in Verbs,
         NEW p, p = Pars(m, c, e, k, g, n, l, <<>>, <<>>)
  PROVE  IsParser(p)
<1>1. /\ p.mode = m /\ p.cmd = c /\ p.endExec = e /\ p.echoEnabled = k /\ p.suppressGoAhead = g
      /\ p.nawsAccepted = n /\ p.localEcho = l
  BY ParsIs
<1> QED
  BY <1>1, Zenon DEF IsParser

\* A host that is not at the end of a request for the terminal's type is one of IsHost.
LEMMA HostIs ==
  ASSUME NEW m \in Modes \ {"type"}, NEW c \in Nat, NEW p, NEW t \in Seq(Nat), NEW u \in [Options -> States],
         NEW h \in [Options -> States], NEW z, m = "option" => c \in Verbs,
         NEW x, x = Hos(m, c, p, t, u, h, z, <<>>)
  PROVE  IsHost(x)
<1>1. x.mode = m /\ x.cmd = c /\ x.payload = p /\ x.text = t /\ x.us = u /\ x.him = h /\ x.size = z
  BY HosIs
<1> QED
  BY <1>1, Zenon DEF IsHost

\* More text is a beginning of more.
LEMMA BeginsOn ==
  ASSUME NEW s \in Seq(Nat), NEW t \in Seq(Nat), Begins(s, t), NEW b \in Nat
  PROVE  Begins(s, Append(t, b))
<1>1. PICK more \in Seq(Nat) : t = s \o more
  BY DEF Begins
<1>2. s \o Append(more, b) = Append(s \o more, b) /\ Append(more, b) \in Seq(Nat)
  BY ByteByByte
<1>3. Append(t, b) = s \o Append(more, b)
  BY <1>1, <1>2
<1> QED
  BY <1>2, <1>3 DEF Begins

\* A step after which the same commands are on their way.
LEMMA Stutters ==
  ASSUME IInv, UNCHANGED vars
  PROVE  IInv'
<1>1. /\ toBrowser' = toBrowser /\ chunk' = chunk /\ ticking' = ticking /\ parser' = parser
      /\ windowDim' = windowDim /\ dim' = dim /\ shown' = shown /\ senderClosed' = senderClosed
      /\ closed' = closed /\ toRemote' = toRemote /\ remote' = remote /\ said' = said /\ typed' = typed
  BY DEF vars, windowVars, hostVars
<1> QED
  BY <1>1, Zenon DEF IInv, Types, Texts, Dead, Listening, Live, ToHost, ToTerminal, Agreed

\* A frame begins, or goes on.
LEMMA TickKeeps ==
  ASSUME IInv, Tick
  PROVE  IInv'
<1>1. /\ toBrowser' = toBrowser /\ parser' = parser
      /\ windowDim' = windowDim /\ dim' = dim /\ shown' = shown /\ senderClosed' = senderClosed
      /\ closed' = closed /\ toRemote' = toRemote /\ remote' = remote /\ said' = said /\ typed' = typed
      /\ parser.mode # "dead" /\ (ticking \/ ~senderClosed)
      /\ chunk' \in 1 .. Len(toBrowser)
  BY DEF Tick, windowVars, hostVars, At
<1>7. ticking' \in BOOLEAN
  <2>1. ticking' \in {FALSE, chunk' < Len(toBrowser)}
    BY Zenon DEF Tick
  <2>2. (chunk' < Len(toBrowser)) \in BOOLEAN /\ FALSE \in BOOLEAN
    BY DEF IInv, Types
  <2> QED
    BY <2>1, <2>2, Zenon
<1>2. chunk' \in Nat /\ chunk' <= Len(toBrowser)
  BY <1>1 DEF IInv, Types
<1>3. Types' /\ Texts'
  BY <1>1, <1>2, <1>7, Zenon DEF IInv, Types, Texts
<1>4. Dead' = Dead /\ (Listening' => Listening) /\ Live' = Live
  BY <1>1, Zenon DEF Dead, Listening, Live
<1>5. PICK nb, nr : ToHost(nr) /\ ToTerminal(nb) /\ Agreed(nb, nr)
  BY DEF IInv
<1>6. ToHost(nr)' /\ ToTerminal(nb)' /\ Agreed(nb, nr)'
  BY <1>1, <1>4, <1>5, Zenon DEF ToHost, ToTerminal, Agreed
<1> QED
  BY <1>3, <1>6, Zenon DEF IInv

\* What is on its way to a tab that is closing is dropped.
LEMMA DropKeeps ==
  ASSUME IInv, Drop
  PROVE  IInv'
<1>1. /\ chunk' = chunk /\ ticking' = ticking /\ parser' = parser
      /\ windowDim' = windowDim /\ dim' = dim /\ shown' = shown /\ senderClosed' = senderClosed
      /\ closed' = closed /\ toRemote' = toRemote /\ remote' = remote /\ said' = said /\ typed' = typed
      /\ toBrowser' = <<>> /\ chunk = 0 /\ ~ticking /\ senderClosed
  BY DEF Drop, windowVars, hostVars
<1>2. toBrowser' \in Seq(Nat) /\ chunk' <= Len(toBrowser')
  BY <1>1, EmptySeq
<1>3. Types' /\ Texts'
  BY <1>1, <1>2, Zenon DEF IInv, Types, Texts
<1>4. Dead' = Dead /\ ~Listening' /\ ~Live'
  <2>1. ~(chunk > 0)
    BY <1>1
  <2> QED
    BY <1>1, <2>1, Zenon DEF Dead, Listening, Live
<1>5. PICK nb, nr : ToHost(nr) /\ ToTerminal(nb) /\ Agreed(nb, nr)
  BY DEF IInv
<1>6. ToHost(nr)' /\ ToTerminal(nb)' /\ Agreed(nb, nr)'
  BY <1>1, <1>4, <1>5, Zenon DEF ToHost, ToTerminal, Agreed
<1> QED
  BY <1>3, <1>6, Zenon DEF IInv

\* A key: its byte goes to the host as text.
LEMMA TypeKeeps ==
  ASSUME IInv, NEW b \in Text, Type(b)
  PROVE  IInv'
<1>1. /\ toBrowser' = toBrowser /\ chunk' = chunk /\ ticking' = ticking /\ parser' = parser
      /\ windowDim' = windowDim /\ dim' = dim /\ shown' = shown /\ senderClosed' = senderClosed
      /\ closed' = closed /\ remote' = remote /\ said' = said
      /\ typed' = Append(typed, b) /\ toRemote' = toRemote \o SendSeg(b) /\ ~senderClosed
  BY DEF Type, windowVars, hostVars
<1>2. b \in Nat
  BY TelnetAssumption
<1>3. SendSeg(b) \in Seq(Nat)
  BY <1>2 DEF SendSeg, IAC
<1>4. toRemote' \in Seq(Nat) /\ typed' \in Seq(Nat)
  BY <1>1, <1>2, <1>3, BytesConcat, AppendProperties DEF IInv, Types
<1>5. ~closed
  BY <1>1 DEF IInv, Types
<1>6. Types'
  BY <1>1, <1>4, <1>5, Zenon DEF IInv, Types
<1>7. Texts'
  <2>1. remote.text \in Seq(Nat) /\ typed \in Seq(Nat) /\ Begins(remote.text, typed) /\ Begins(shown, said)
    BY Zenon DEF IInv, Types, Texts, IsHost
  <2>2. Begins(remote.text, Append(typed, b))
    BY <1>2, <2>1, BeginsOn
  <2> QED
    BY <1>1, <2>1, <2>2, Zenon DEF Texts
<1>8. Dead' = Dead /\ Listening' = Listening /\ Live' = Live
  BY <1>1, Zenon DEF Dead, Listening, Live
<1>9. PICK nb, nr : ToHost(nr) /\ ToTerminal(nb) /\ Agreed(nb, nr)
  BY DEF IInv
<1>10. ToTerminal(nb)' /\ Agreed(nb, nr)'
  BY <1>1, <1>8, <1>9, Zenon DEF ToTerminal, Agreed
<1>11. ToHost(nr)'
  <2>1. nr \in Seq(Nego2) /\ Ahead(FALSE, toRemote, remote.mode, remote.cmd, remote.text, typed, nr)
    BY <1>5, <1>9 DEF ToHost
  <2>2. toRemote \in Seq(Nat) /\ FALSE \in BOOLEAN
    BY DEF IInv, Types
  <2>3. Ahead(FALSE, toRemote \o SendSeg(b), remote.mode, remote.cmd, remote.text, Append(typed, b), nr)
    BY <1>2, <2>1, <2>2, AheadText
  <2> QED
    BY <1>1, <2>1, <2>3, Zenon DEF ToHost
<1> QED
  BY <1>6, <1>7, <1>10, <1>11, Zenon DEF IInv

\* The terminal has another size, which is not reported yet.
LEMMA ResizeTerminalKeeps ==
  ASSUME IInv, ResizeTerminal
  PROVE  IInv'
<1>1. /\ toBrowser' = toBrowser /\ chunk' = chunk /\ ticking' = ticking /\ parser' = parser
      /\ windowDim' = windowDim /\ shown' = shown /\ senderClosed' = senderClosed
      /\ closed' = closed /\ toRemote' = toRemote /\ remote' = remote /\ said' = said /\ typed' = typed
      /\ dim' \in [cols : Cols, rows : Rows]
  BY DEF ResizeTerminal, hostVars
<1>2. dim' \in Sizes
  BY <1>1, Zenon DEF Sizes
<1>3. Types' /\ Texts'
  BY <1>1, <1>2, Zenon DEF IInv, Types, Texts
<1>4. Dead' = Dead /\ Listening' = Listening /\ Live' = Live
  BY <1>1, Zenon DEF Dead, Listening, Live
<1>5. PICK nb, nr : ToHost(nr) /\ ToTerminal(nb) /\ Agreed(nb, nr)
  BY DEF IInv
<1>6. ToHost(nr)' /\ ToTerminal(nb)' /\ Agreed(nb, nr)'
  BY <1>1, <1>4, <1>5, Zenon DEF ToHost, ToTerminal, Agreed
<1> QED
  BY <1>3, <1>6, Zenon DEF IInv

\* The tab is closed: nothing more has to be agreed.
LEMMA CloseKeeps ==
  ASSUME IInv, Close
  PROVE  IInv'
<1>1. /\ toBrowser' = toBrowser /\ chunk' = chunk /\ ticking' = ticking /\ parser' = parser
      /\ windowDim' = windowDim /\ dim' = dim /\ shown' = shown /\ senderClosed' = TRUE
      /\ closed' = closed /\ toRemote' = toRemote /\ remote' = remote /\ said' = said /\ typed' = typed
      /\ ~senderClosed
  BY DEF Close, windowVars, hostVars
<1>2. senderClosed' \in BOOLEAN /\ senderClosed'
  BY <1>1
<1>3. Types' /\ Texts'
  BY <1>1, <1>2, Zenon DEF IInv, Types, Texts
<1>4. Dead' = Dead /\ (Listening' => Listening) /\ ~Live'
  BY <1>1, <1>2, Zenon DEF Dead, Listening, Live
<1>5. PICK nb, nr : ToHost(nr) /\ ToTerminal(nb) /\ Agreed(nb, nr)
  BY DEF IInv
<1>6. ToHost(nr)' /\ ToTerminal(nb)' /\ Agreed(nb, nr)'
  BY <1>1, <1>4, <1>5, Zenon DEF ToHost, ToTerminal, Agreed
<1> QED
  BY <1>3, <1>6, Zenon DEF IInv

\* The session has ended: nothing is on its way any more.
LEMMA CompletedKeeps ==
  ASSUME IInv, Completed
  PROVE  IInv'
<1>1. /\ windowDim' = windowDim /\ dim' = dim /\ shown' = shown
      /\ remote' = remote /\ said' = said /\ typed' = typed
      /\ closed' = TRUE /\ senderClosed' = TRUE /\ parser' = Goto(parser, "dead")
      /\ toBrowser' = <<>> /\ chunk' = 0 /\ ticking' = FALSE /\ toRemote' = <<>>
  BY DEF Completed, windowVars, hostVars
<1>2. PICK c, e, k, g, n, l : c = parser.cmd /\ e = parser.endExec /\ k = parser.echoEnabled
        /\ g = parser.suppressGoAhead /\ n = parser.nawsAccepted /\ l = parser.localEcho
  OBVIOUS
<1>3. /\ parser = Pars(parser.mode, c, e, k, g, n, l, <<>>, <<>>) /\ c \in Nat
      /\ e \in BOOLEAN /\ k \in BOOLEAN /\ g \in BOOLEAN /\ n \in BOOLEAN /\ l \in BOOLEAN
  BY <1>2, Zenon DEF IInv, Types, IsParser
<1>4. Goto(parser, "dead") = Pars("dead", c, e, k, g, n, l, <<>>, <<>>)
  BY <1>3, ParsGoto
<1>5. parser' = Pars("dead", c, e, k, g, n, l, <<>>, <<>>)
  BY <1>1, <1>4, Zenon
<1>6. IsParser(parser') /\ parser'.mode = "dead"
  <2>1. PICK p : p = parser'
    OBVIOUS
  <2>2. p = Pars("dead", c, e, k, g, n, l, <<>>, <<>>)
    BY <1>5, <2>1, Zenon
  <2>3. "dead" \in Modes \cup {"dead"} /\ "dead" # "option"
    OBVIOUS
  <2>4. IsParser(p)
    BY <1>3, <2>2, <2>3, ParserIs
  <2>5. p.mode = "dead"
    BY <2>2, ParsIs
  <2> QED
    BY <2>1, <2>4, <2>5, Zenon
<1>11. <<>> \in Seq(Nat) /\ <<>> \in Seq(Nego2) /\ Len(<<>>) = 0
  BY EmptySeq
<1>7. /\ chunk' \in Nat /\ chunk' <= Len(toBrowser') /\ ticking' \in BOOLEAN
      /\ senderClosed' \in BOOLEAN /\ closed' \in BOOLEAN /\ senderClosed' /\ closed'
  <2>1. 0 \in Nat /\ 0 <= 0 /\ FALSE \in BOOLEAN /\ TRUE \in BOOLEAN
    OBVIOUS
  <2> QED
    BY <1>1, <1>11, <2>1, Zenon
<1>8. Types' /\ Texts'
  BY <1>1, <1>6, <1>7, <1>11, Zenon DEF IInv, Types, Texts
<1>9. Dead' /\ ~Listening' /\ ~Live'
  BY <1>6, <1>7, Zenon DEF Dead, Listening, Live
<1>10. ToHost(<<>>)' /\ ToTerminal(<<>>)' /\ Agreed(<<>>, <<>>)'
  BY <1>7, <1>9, <1>11, Zenon DEF ToHost, ToTerminal, Agreed
<1> QED
  BY <1>8, <1>10, Zenon DEF IInv

\* The size is reported.
LEMMA ResizeKeeps ==
  ASSUME IInv, Resize
  PROVE  IInv'
<1>1. /\ toBrowser' = toBrowser /\ chunk' = chunk /\ ticking' = ticking
      /\ dim' = dim /\ shown' = shown /\ senderClosed' = senderClosed
      /\ closed' = closed /\ remote' = remote /\ said' = said /\ typed' = typed
      /\ IF closed THEN windowDim' = windowDim /\ parser' = parser /\ toRemote' = toRemote
         ELSE /\ windowDim' = dim
              /\ parser' = [parser EXCEPT !.nawsAccepted = TRUE]
              /\ toRemote' = IF senderClosed THEN toRemote ELSE toRemote \o Nego(WILL, NAWS)
  BY DEF Resize, hostVars
<1>2. PICK nb, nr : ToHost(nr) /\ ToTerminal(nb) /\ Agreed(nb, nr)
  BY DEF IInv
<1>3. CASE closed
  <2>1. Types' /\ Texts'
    BY <1>1, <1>3, Zenon DEF IInv, Types, Texts
  <2>2. Dead' = Dead /\ Listening' = Listening /\ Live' = Live
    BY <1>1, <1>3, Zenon DEF Dead, Listening, Live
  <2>3. ToHost(nr)' /\ ToTerminal(nb)' /\ Agreed(nb, nr)'
    BY <1>1, <1>2, <1>3, <2>2, Zenon DEF ToHost, ToTerminal, Agreed
  <2> QED
    BY <2>1, <2>3, Zenon DEF IInv
<1>4. CASE ~closed
  <2>1. PICK m, c, e, k, g, n, l : m = parser.mode /\ c = parser.cmd /\ e = parser.endExec
          /\ k = parser.echoEnabled /\ g = parser.suppressGoAhead /\ n = parser.nawsAccepted
          /\ l = parser.localEcho
    OBVIOUS
  <2>2. /\ parser = Pars(m, c, e, k, g, n, l, <<>>, <<>>) /\ m \in Modes \cup {"dead"} /\ c \in Nat
        /\ e \in BOOLEAN /\ k \in BOOLEAN /\ g \in BOOLEAN /\ n \in BOOLEAN /\ l \in BOOLEAN
        /\ m = "option" => c \in Verbs
    BY <2>1, Zenon DEF IInv, Types, IsParser
  <2>3. PICK p, yes : p = parser' /\ yes = TRUE
    OBVIOUS
  <2>14. yes \in BOOLEAN
    BY <2>3
  <2>4. p = Pars(m, c, e, k, g, yes, l, <<>>, <<>>)
    <3>1. p = [parser EXCEPT !.nawsAccepted = yes]
      BY <1>1, <1>4, <2>3, Zenon
    <3> QED
      BY <2>2, <3>1 DEF Pars
  <2>5. IsParser(p)
    BY <2>2, <2>4, <2>14, ParserIs
  <2>6. p.nawsAccepted = yes /\ p.mode = m /\ p.cmd = c /\ p.echoEnabled = k /\ p.suppressGoAhead = g /\ p.localEcho = l
    BY <2>4, ParsIs
  <2>7. Dead' = Dead /\ Listening' = Listening /\ Live' = Live
    BY <1>1, <2>1, <2>3, <2>6, Zenon DEF Dead, Listening, Live
  <2>8. ToTerminal(nb)'
    BY <1>1, <1>2, <2>1, <2>3, <2>6, <2>7, Zenon DEF ToTerminal
  <2>9. Texts'
    BY <1>1, Zenon DEF IInv, Texts
  <2>10. toRemote \in Seq(Nat) /\ dim \in Sizes /\ nr \in Seq(Nego2) /\ FALSE \in BOOLEAN /\ WILL \in Verbs
    BY <1>2 DEF IInv, Types, ToHost, Verbs
  <2>11. ASSUME toRemote' \in Seq(Nat)
         PROVE  Types'
    BY <1>1, <1>4, <2>3, <2>5, <2>10, <2>11, Zenon DEF IInv, Types
  <2>12. CASE senderClosed
    <3>1. toRemote' = toRemote
      BY <1>1, <1>4, <2>12, Zenon
    <3>2. ~Live'
      BY <1>1, <2>12, Zenon DEF Live
    <3>3. ToHost(nr)' /\ Agreed(nb, nr)'
      BY <1>1, <1>2, <3>1, <3>2, Zenon DEF ToHost, Agreed
    <3> QED
      BY <2>8, <2>9, <2>10, <2>11, <3>1, <3>3, Zenon DEF IInv
  <2>13. CASE ~senderClosed
    <3>1. PICK i : i = <<WILL, NAWS>>
      OBVIOUS
    <3>2. i \in Nego2 /\ Nego(WILL, NAWS) \in Seq(Nat)
      BY <3>1, NegoBytes, Codes, OptionCodes
    <3>3. PICK q : q = Append(nr, i)
      OBVIOUS
    <3>4. q \in Seq(Nego2)
      BY <2>10, <3>2, <3>3, AppendProperties
    <3>5. toRemote' = toRemote \o Nego(WILL, NAWS)
      BY <1>1, <1>4, <2>13, Zenon
    <3>6. toRemote' \in Seq(Nat)
      BY <2>10, <3>2, <3>5, BytesConcat
    <3>7. Ahead(FALSE, toRemote, remote.mode, remote.cmd, remote.text, typed, nr)
      BY <1>2, <1>4 DEF ToHost
    <3>8. Ahead(FALSE, toRemote \o Nego(WILL, NAWS), remote.mode, remote.cmd, remote.text, typed,
                Append(nr, <<WILL, NAWS>>))
      BY <2>10, <3>7, OptionCodes, AheadNego
    <3>9. ToHost(q)'
      BY <1>1, <3>1, <3>3, <3>4, <3>5, <3>8, Zenon DEF ToHost
    <3>10. Agreed(nb, q)'
      <4>1. ASSUME OptionsOfOneSide, Live
            PROVE  Agreement(remote.us, remote.him, k, g, yes, l, nb, q)
        <5>1. Agreement(remote.us, remote.him, k, g, n, l, nb, nr)
          BY <1>2, <2>1, <4>1, Zenon DEF Agreed
        <5>2. Agreement(remote.us, remote.him, k, g, yes, l, nb, Append(nr, <<WILL, NAWS>>))
          BY <2>10, <5>1, ResizeAgrees
        <5> QED
          BY <3>1, <3>3, <5>2, Zenon
      <4> QED
        BY <1>1, <2>3, <2>6, <2>7, <4>1, Zenon DEF Agreed
    <3> QED
      BY <2>8, <2>9, <2>11, <3>6, <3>9, <3>10, Zenon DEF IInv
  <2> QED
    BY <2>12, <2>13
<1> QED
  BY <1>3, <1>4

\* The host sends something: what it said, the commands on their way and its options go
\* with the bytes.
LEMMA UttersKeeps ==
  ASSUME IInv, NEW bytes \in Seq(Nat), bytes # <<>>, Utters(bytes), NEW nr, ToHost(nr),
         IsHost(remote'), remote'.mode = remote.mode, remote'.cmd = remote.cmd, remote'.text = remote.text,
         said' \in Seq(Nat), Begins(shown, said'), NEW nb \in Seq(Nego2),
         Listening => Ahead(TRUE, toBrowser \o bytes, parser.mode, parser.cmd, shown, said', nb),
         OptionsOfOneSide /\ Live /\ ~Dead =>
           Agreement(remote'.us, remote'.him, parser.echoEnabled, parser.suppressGoAhead, parser.nawsAccepted,
                     parser.localEcho, nb, nr)
  PROVE  IInv'
<1>1. /\ chunk' = chunk /\ ticking' = ticking /\ parser' = parser
      /\ windowDim' = windowDim /\ dim' = dim /\ shown' = shown /\ senderClosed' = senderClosed
      /\ closed' = closed /\ toRemote' = toRemote /\ typed' = typed
      /\ toBrowser' = toBrowser \o bytes /\ ~closed
  BY DEF Utters, windowVars
<1>2. /\ toBrowser' \in Seq(Nat) /\ toBrowser' # <<>> /\ Len(toBrowser) <= Len(toBrowser')
      /\ Len(toBrowser) \in Nat /\ Len(toBrowser') \in Nat
  <2>1. toBrowser \in Seq(Nat)
    BY DEF IInv, Types
  <2>2. Len(toBrowser \o bytes) = Len(toBrowser) + Len(bytes) /\ toBrowser \o bytes \in Seq(Nat)
    BY <2>1, ConcatProperties
  <2>3. Len(bytes) \in Nat /\ Len(bytes) # 0 /\ Len(toBrowser) \in Nat /\ Len(<<>>) = 0
    BY <2>1, EmptySeq, LenProperties
  <2>4. Len(toBrowser) + Len(bytes) # 0 /\ Len(toBrowser) <= Len(toBrowser) + Len(bytes)
        /\ Len(toBrowser) + Len(bytes) \in Nat
    BY <2>3
  <2>5. toBrowser \o bytes # <<>>
    BY <2>2, <2>3, <2>4
  <2> QED
    BY <1>1, <2>2, <2>3, <2>4, <2>5, Zenon
<1>3. chunk' <= Len(toBrowser')
  <2>1. chunk \in Nat /\ chunk <= Len(toBrowser)
    BY DEF IInv, Types
  <2> QED
    BY <1>1, <1>2, <2>1
<1>4. Types'
  BY <1>1, <1>2, <1>3, Zenon DEF IInv, Types
<1>5. Texts'
  BY <1>1, Zenon DEF IInv, Texts
<1>6. Dead' = Dead /\ Listening' = Listening /\ (Live' => Live /\ ~Dead)
  BY <1>1, <1>2, Zenon DEF Dead, Listening, Live
<1>7. ToHost(nr)'
  BY <1>1, Zenon DEF ToHost
<1>8. CASE Dead
  <2>1. <<>> \in Seq(Nego2) /\ ~Listening
    BY <1>8, EmptySeq DEF Listening
  <2>2. ToTerminal(<<>>)' /\ Agreed(<<>>, nr)'
    BY <1>6, <1>8, <2>1, Zenon DEF ToTerminal, Agreed
  <2> QED
    BY <1>4, <1>5, <1>7, <2>2, Zenon DEF IInv
<1>9. CASE ~Dead
  <2>1. ToTerminal(nb)'
    BY <1>1, <1>6, <1>9, Zenon DEF ToTerminal
  <2>2. Agreed(nb, nr)'
    BY <1>1, <1>6, <1>9, Zenon DEF Agreed
  <2> QED
    BY <1>4, <1>5, <1>7, <2>1, <2>2, Zenon DEF IInv
<1> QED
  BY <1>8, <1>9

\* Text of the host.
LEMMA SaysKeeps ==
  ASSUME IInv, Says
  PROVE  IInv'
<1>1. PICK b \in Text : /\ Utters(IF b = IAC THEN <<IAC, IAC>> ELSE <<b>>)
                        /\ said' = Append(said, b) /\ remote' = remote
  BY DEF Says
<1>2. b \in Nat
  BY TelnetAssumption
<1>3. PICK bytes : bytes = SendSeg(b)
  OBVIOUS
<1>4. Utters(bytes)
  BY <1>1, <1>3, Zenon DEF SendSeg
<1>5. bytes \in Seq(Nat) /\ bytes # <<>>
  BY <1>2, <1>3 DEF SendSeg, IAC
<1>6. PICK nb, nr : ToHost(nr) /\ ToTerminal(nb) /\ Agreed(nb, nr)
  BY DEF IInv
<1>7. /\ IsHost(remote) /\ said \in Seq(Nat) /\ shown \in Seq(Nat) /\ toBrowser \in Seq(Nat)
      /\ Begins(shown, said) /\ nb \in Seq(Nego2) /\ TRUE \in BOOLEAN
  BY <1>6, Zenon DEF IInv, Types, Texts, ToTerminal
<1>8. said' \in Seq(Nat)
  BY <1>1, <1>2, <1>7, AppendProperties
<1>9. Begins(shown, said')
  BY <1>1, <1>2, <1>7, BeginsOn
<1>10. ASSUME Listening
       PROVE  Ahead(TRUE, toBrowser \o bytes, parser.mode, parser.cmd, shown, said', nb)
  <2>1. Ahead(TRUE, toBrowser, parser.mode, parser.cmd, shown, said, nb)
    BY <1>6, <1>10 DEF ToTerminal
  <2>2. Ahead(TRUE, toBrowser \o SendSeg(b), parser.mode, parser.cmd, shown, Append(said, b), nb)
    BY <1>2, <1>7, <2>1, AheadText
  <2> QED
    BY <1>1, <1>3, <2>2, Zenon
<1>11. OptionsOfOneSide /\ Live /\ ~Dead =>
           Agreement(remote'.us, remote'.him, parser.echoEnabled, parser.suppressGoAhead, parser.nawsAccepted,
                     parser.localEcho, nb, nr)
  BY <1>1, <1>6, Zenon DEF Agreed
<1>12. IsHost(remote') /\ remote'.mode = remote.mode /\ remote'.cmd = remote.cmd /\ remote'.text = remote.text
  BY <1>1, <1>7, Zenon
<1> QED
  BY <1>4, <1>5, <1>6, <1>7, <1>8, <1>9, <1>10, <1>11, <1>12, UttersKeeps

\* What it sends beside text and offers: the options stay what they are.
LEMMA QuietKeeps ==
  ASSUME IInv, NEW bytes \in Seq(Nat), bytes # <<>>, Utters(bytes), remote' = remote, said' = said,
         \A nb : Ahead(TRUE, toBrowser, parser.mode, parser.cmd, shown, said, nb) =>
                 Ahead(TRUE, toBrowser \o bytes, parser.mode, parser.cmd, shown, said, nb)
  PROVE  IInv'
<1>6. PICK nb, nr : ToHost(nr) /\ ToTerminal(nb) /\ Agreed(nb, nr)
  BY DEF IInv
<1>7. IsHost(remote) /\ said \in Seq(Nat) /\ Begins(shown, said) /\ nb \in Seq(Nego2)
  BY <1>6, Zenon DEF IInv, Types, Texts, ToTerminal
<1>10. Listening => Ahead(TRUE, toBrowser \o bytes, parser.mode, parser.cmd, shown, said', nb)
  BY <1>6, Zenon DEF ToTerminal
<1>11. OptionsOfOneSide /\ Live /\ ~Dead =>
           Agreement(remote'.us, remote'.him, parser.echoEnabled, parser.suppressGoAhead, parser.nawsAccepted,
                     parser.localEcho, nb, nr)
  BY <1>6, Zenon DEF Agreed
<1>12. /\ IsHost(remote') /\ remote'.mode = remote.mode /\ remote'.cmd = remote.cmd /\ remote'.text = remote.text
       /\ said' \in Seq(Nat) /\ Begins(shown, said')
  BY <1>7, Zenon
<1> QED
  BY <1>6, <1>7, <1>10, <1>11, <1>12, UttersKeeps

\* The host asks for the type of the terminal, which is no command about an option.
LEMMA AsksTypeKeeps ==
  ASSUME IInv, AsksType
  PROVE  IInv'
<1>1. PICK bytes : bytes = SubNego(<<TypeSend>>, TerminalType)
  OBVIOUS
<1>2. Utters(bytes) /\ remote' = remote /\ said' = said
  BY <1>1, Zenon DEF AsksType
<1>3. bytes \in Seq(Nat) /\ bytes # <<>>
  <2>1. bytes # <<>>
    BY <1>1 DEF SubNego, TypeSend, TerminalType, IAC, SB, SE
  <2>2. SubNego(<<TypeSend>>, TerminalType) \in Seq(Nat)
    BY DEF SubNego, TypeSend, TerminalType, IAC, SB, SE
  <2> QED
    BY <1>1, <2>1, <2>2, Zenon
<1>4. toBrowser \in Seq(Nat)
  BY DEF IInv, Types
<1>5. \A nb : Ahead(TRUE, toBrowser, parser.mode, parser.cmd, shown, said, nb) =>
              Ahead(TRUE, toBrowser \o bytes, parser.mode, parser.cmd, shown, said, nb)
  BY <1>1, <1>4, AheadType
<1> QED
  BY <1>2, <1>3, <1>5, QuietKeeps

\* The host sends a command without an option.
LEMMA CommandsKeeps ==
  ASSUME IInv, Commands
  PROVE  IInv'
<1>1. PICK c \in PlainCommands : Utters(<<IAC, c>>) /\ remote' = remote /\ said' = said
  BY DEF Commands
<1>2. c \in 241 .. 249 /\ c \in Nat /\ IAC \in Nat
  BY TelnetAssumption DEF IAC
<1>3. PICK bytes : bytes = <<IAC, c>>
  OBVIOUS
<1>4. bytes \in Seq(Nat) /\ bytes # <<>> /\ Utters(bytes)
  BY <1>1, <1>2, <1>3
<1>5. toBrowser \in Seq(Nat)
  BY DEF IInv, Types
<1>6. \A nb : Ahead(TRUE, toBrowser, parser.mode, parser.cmd, shown, said, nb) =>
              Ahead(TRUE, toBrowser \o bytes, parser.mode, parser.cmd, shown, said, nb)
  BY <1>2, <1>3, <1>5, AheadPlain
<1> QED
  BY <1>1, <1>4, <1>6, QuietKeeps

\* A host of which only the options are others.
Changed(x, g, us, him) ==
  /\ IsHost(x) /\ x.mode = g.mode /\ x.cmd = g.cmd /\ x.text = g.text
  /\ x.us = us /\ x.him = him

\* A function of which one value is another.
LEMMA OneOther ==
  ASSUME NEW S, NEW T, NEW f \in [S -> T], NEW o, NEW v \in T
  PROVE  [f EXCEPT ![o] = v] \in [S -> T]
OBVIOUS

\* The host sets its state of an option, on its own side and on the other.
LEMMA HostChanges ==
  ASSUME NEW g, IsHost(g), NEW o, NEW v \in States
  PROVE  /\ Changed([g EXCEPT !.us[o] = v], g, [g.us EXCEPT ![o] = v], g.him)
         /\ Changed([g EXCEPT !.him[o] = v], g, g.us, [g.him EXCEPT ![o] = v])
<1>1. PICK m, d, p, t, u, h, z : m = g.mode /\ d = g.cmd /\ p = g.payload /\ t = g.text /\ u = g.us
        /\ h = g.him /\ z = g.size
  OBVIOUS
<1>2. /\ g = Hos(m, d, p, t, u, h, z, <<>>) /\ m \in Modes \ {"type"} /\ d \in Nat /\ t \in Seq(Nat)
      /\ u \in [Options -> States] /\ h \in [Options -> States] /\ (m = "option" => d \in Verbs)
  BY <1>1, Zenon DEF IsHost
<1>3. PICK u2, h2 : u2 = [u EXCEPT ![o] = v] /\ h2 = [h EXCEPT ![o] = v]
  OBVIOUS
<1>4. u2 \in [Options -> States] /\ h2 \in [Options -> States]
  <2>1. [u EXCEPT ![o] = v] \in [Options -> States]
    BY <1>2, OneOther
  <2>2. [h EXCEPT ![o] = v] \in [Options -> States]
    BY <1>2, OneOther
  <2> QED
    BY <1>3, <2>1, <2>2, Zenon
<1>5. PICK x : x = [g EXCEPT !.us = u2]
  OBVIOUS
<1>6. PICK y : y = [g EXCEPT !.him = h2]
  OBVIOUS
<1>7. x = Hos(m, d, p, t, u2, h, z, <<>>)
  BY <1>2, <1>5 DEF Hos
<1>8. y = Hos(m, d, p, t, u, h2, z, <<>>)
  BY <1>2, <1>6 DEF Hos
<1>9. IsHost(x) /\ x.mode = m /\ x.cmd = d /\ x.text = t /\ x.us = u2 /\ x.him = h
  <2>1. x.mode = m /\ x.cmd = d /\ x.text = t /\ x.us = u2 /\ x.him = h
    BY <1>7, HosIs
  <2>2. IsHost(Hos(m, d, p, t, u2, h, z, <<>>))
    BY <1>2, <1>4, HostIs
  <2> QED
    BY <1>7, <2>1, <2>2
<1>10. IsHost(y) /\ y.mode = m /\ y.cmd = d /\ y.text = t /\ y.us = u /\ y.him = h2
  <2>1. y.mode = m /\ y.cmd = d /\ y.text = t /\ y.us = u /\ y.him = h2
    BY <1>8, HosIs
  <2>2. IsHost(Hos(m, d, p, t, u, h2, z, <<>>))
    BY <1>2, <1>4, HostIs
  <2> QED
    BY <1>8, <2>1, <2>2
<1>11. [g EXCEPT !.us[o] = v] = x
  BY <1>1, <1>3, <1>5, Zenon
<1>12. [g EXCEPT !.him[o] = v] = y
  BY <1>1, <1>3, <1>6, Zenon
<1>13. Changed([g EXCEPT !.us[o] = v], g, [g.us EXCEPT ![o] = v], g.him)
  BY <1>1, <1>3, <1>9, <1>11, Zenon DEF Changed
<1>14. Changed([g EXCEPT !.him[o] = v], g, g.us, [g.him EXCEPT ![o] = v])
  BY <1>1, <1>3, <1>10, <1>12, Zenon DEF Changed
<1> QED
  BY <1>13, <1>14

\* What the host sends of an option, and the state it has of it then.
Offers(state, v, c) ==
  \/ state = "no" /\ v = "wantyes" /\ c = WILL
  \/ state = "yes" /\ v = "wantno" /\ c = WONT

Demands(state, v, c, o) ==
  \/ state = "no" /\ v = "wantyes" /\ c = DO
  \/ state = "yes" /\ v = "wantno" /\ c = DONT /\ o \in Withdrawn

\* The host offers an option, or withdraws it.
LEMMA OfferKeeps ==
  ASSUME IInv, NEW o \in ServerOptions, NEW c \in Verbs, NEW v, Offers(remote.us[o], v, c), NEW u, u = [remote.us EXCEPT ![o] = v],
         Changed(remote', remote, u, remote.him), said' = said, Utters(Nego(c, o))
  PROVE  IInv'
<1>1. c \in Nat /\ o \in Nat
  BY VerbsAreBytes, TelnetAssumption
<1>2. PICK bytes : bytes = Nego(c, o)
  OBVIOUS
<1>3. bytes \in Seq(Nat) /\ bytes # <<>> /\ Utters(bytes)
  <2>1. <<IAC, c, o>> # <<>>
    OBVIOUS
  <2>2. bytes \in Seq(Nat)
    BY <1>1, <1>2, NegoBytes
  <2> QED
    BY <1>2, <2>1, <2>2, Zenon DEF Nego
<1>4. PICK nb, nr : ToHost(nr) /\ ToTerminal(nb) /\ Agreed(nb, nr)
  BY DEF IInv
<1>5. /\ IsHost(remote) /\ said \in Seq(Nat) /\ Begins(shown, said) /\ nb \in Seq(Nego2) /\ nr \in Seq(Nego2)
      /\ toBrowser \in Seq(Nat) /\ TRUE \in BOOLEAN
  BY <1>4, Zenon DEF IInv, Types, Texts, ToTerminal, ToHost
<1>6. PICK i : i = <<c, o>>
  OBVIOUS
<1>7. PICK q : q = Append(nb, i)
  OBVIOUS
<1>8. q \in Seq(Nego2)
  <2>1. i \in Nego2
    BY <1>1, <1>6 DEF Nego2
  <2> QED
    BY <1>5, <1>7, <2>1, AppendProperties
<1>9. ASSUME Listening
      PROVE  Ahead(TRUE, toBrowser \o bytes, parser.mode, parser.cmd, shown, said', q)
  <2>1. Ahead(TRUE, toBrowser, parser.mode, parser.cmd, shown, said, nb)
    BY <1>4, <1>9 DEF ToTerminal
  <2>2. Ahead(TRUE, toBrowser \o Nego(c, o), parser.mode, parser.cmd, shown, said, Append(nb, <<c, o>>))
    BY <1>1, <1>5, <2>1, AheadNego
  <2> QED
    BY <1>2, <1>6, <1>7, <2>2, Zenon
<1>10. ASSUME OptionsOfOneSide, Live, ~Dead
       PROVE  Agreement(u, remote.him, parser.echoEnabled, parser.suppressGoAhead, parser.nawsAccepted,
                        parser.localEcho, q, nr)
  <2>1. PICK w, h : w = remote.us /\ h = remote.him
    OBVIOUS
  <2>2. w \in [Options -> States] /\ Offers(w[o], v, c)
    BY <1>5, <2>1, Zenon DEF IsHost
  <2>3. Agreement(w, h, parser.echoEnabled, parser.suppressGoAhead, parser.nawsAccepted,
                  parser.localEcho, nb, nr)
    BY <1>4, <1>10, <2>1, Zenon DEF Agreed
  <2>4. PICK k, g, n, l : k = parser.echoEnabled /\ g = parser.suppressGoAhead /\ n = parser.nawsAccepted
          /\ l = parser.localEcho
    OBVIOUS
  <2>5. Agreement(w, h, k, g, n, l, nb, nr)
    BY <2>3, <2>4, Zenon
  <2>6. Agreement([w EXCEPT ![o] = v], h, k, g, n, l, Append(nb, <<c, o>>), nr)
    BY <1>1, <1>5, <1>10, <2>2, <2>5, OffersAgree DEF Offers
  <2> QED
    BY <1>6, <1>7, <2>1, <2>4, <2>6, Zenon
<1>11. OptionsOfOneSide /\ Live /\ ~Dead =>
         Agreement(remote'.us, remote'.him, parser.echoEnabled, parser.suppressGoAhead, parser.nawsAccepted,
                   parser.localEcho, q, nr)
  BY <1>10, Zenon DEF Changed
<1>12. /\ IsHost(remote') /\ remote'.mode = remote.mode /\ remote'.cmd = remote.cmd /\ remote'.text = remote.text
       /\ said' \in Seq(Nat) /\ Begins(shown, said')
  BY <1>5, Zenon DEF Changed
<1>13. Listening => Ahead(TRUE, toBrowser \o bytes, parser.mode, parser.cmd, shown, said', q)
  BY <1>9
<1> QED
  BY <1>3, <1>4, <1>8, <1>11, <1>12, <1>13, UttersKeeps

\* The host asks for an option of the browser, or wants it no more.
LEMMA DemandKeeps ==
  ASSUME IInv, NEW o \in ClientOptions, NEW c \in Verbs, NEW v, Demands(remote.him[o], v, c, o), NEW u, u = [remote.him EXCEPT ![o] = v],
         Changed(remote', remote, remote.us, u), said' = said, Utters(Nego(c, o))
  PROVE  IInv'
<1>1. c \in Nat /\ o \in Nat
  BY VerbsAreBytes, TelnetAssumption
<1>2. PICK bytes : bytes = Nego(c, o)
  OBVIOUS
<1>3. bytes \in Seq(Nat) /\ bytes # <<>> /\ Utters(bytes)
  <2>1. <<IAC, c, o>> # <<>>
    OBVIOUS
  <2>2. bytes \in Seq(Nat)
    BY <1>1, <1>2, NegoBytes
  <2> QED
    BY <1>2, <2>1, <2>2, Zenon DEF Nego
<1>4. PICK nb, nr : ToHost(nr) /\ ToTerminal(nb) /\ Agreed(nb, nr)
  BY DEF IInv
<1>5. /\ IsHost(remote) /\ said \in Seq(Nat) /\ Begins(shown, said) /\ nb \in Seq(Nego2) /\ nr \in Seq(Nego2)
      /\ toBrowser \in Seq(Nat) /\ TRUE \in BOOLEAN
  BY <1>4, Zenon DEF IInv, Types, Texts, ToTerminal, ToHost
<1>6. PICK i : i = <<c, o>>
  OBVIOUS
<1>7. PICK q : q = Append(nb, i)
  OBVIOUS
<1>8. q \in Seq(Nego2)
  <2>1. i \in Nego2
    BY <1>1, <1>6 DEF Nego2
  <2> QED
    BY <1>5, <1>7, <2>1, AppendProperties
<1>9. ASSUME Listening
      PROVE  Ahead(TRUE, toBrowser \o bytes, parser.mode, parser.cmd, shown, said', q)
  <2>1. Ahead(TRUE, toBrowser, parser.mode, parser.cmd, shown, said, nb)
    BY <1>4, <1>9 DEF ToTerminal
  <2>2. Ahead(TRUE, toBrowser \o Nego(c, o), parser.mode, parser.cmd, shown, said, Append(nb, <<c, o>>))
    BY <1>1, <1>5, <2>1, AheadNego
  <2> QED
    BY <1>2, <1>6, <1>7, <2>2, Zenon
<1>10. ASSUME OptionsOfOneSide, Live, ~Dead
       PROVE  Agreement(remote.us, u, parser.echoEnabled, parser.suppressGoAhead, parser.nawsAccepted,
                        parser.localEcho, q, nr)
  <2>1. PICK w, h : w = remote.him /\ h = remote.us
    OBVIOUS
  <2>2. w \in [Options -> States] /\ Demands(w[o], v, c, o)
    BY <1>5, <2>1, Zenon DEF IsHost
  <2>3. Agreement(h, w, parser.echoEnabled, parser.suppressGoAhead, parser.nawsAccepted,
                  parser.localEcho, nb, nr)
    BY <1>4, <1>10, <2>1, Zenon DEF Agreed
  <2>4. PICK k, g, n, l : k = parser.echoEnabled /\ g = parser.suppressGoAhead /\ n = parser.nawsAccepted
          /\ l = parser.localEcho
    OBVIOUS
  <2>5. Agreement(h, w, k, g, n, l, nb, nr)
    BY <2>3, <2>4, Zenon
  <2>6. Agreement(h, [w EXCEPT ![o] = v], k, g, n, l, Append(nb, <<c, o>>), nr)
    BY <1>1, <1>5, <1>10, <2>2, <2>5, DemandsAgree DEF Demands
  <2> QED
    BY <1>6, <1>7, <2>1, <2>4, <2>6, Zenon
<1>11. OptionsOfOneSide /\ Live /\ ~Dead =>
         Agreement(remote'.us, remote'.him, parser.echoEnabled, parser.suppressGoAhead, parser.nawsAccepted,
                   parser.localEcho, q, nr)
  BY <1>10, Zenon DEF Changed
<1>12. /\ IsHost(remote') /\ remote'.mode = remote.mode /\ remote'.cmd = remote.cmd /\ remote'.text = remote.text
       /\ said' \in Seq(Nat) /\ Begins(shown, said')
  BY <1>5, Zenon DEF Changed
<1>13. Listening => Ahead(TRUE, toBrowser \o bytes, parser.mode, parser.cmd, shown, said', q)
  BY <1>9
<1> QED
  BY <1>3, <1>4, <1>8, <1>11, <1>12, <1>13, UttersKeeps

\* Each of the four proposals is an offer or a demand.
LEMMA ProposesKeeps ==
  ASSUME IInv, Proposes
  PROVE  IInv'
<1>1. /\ "wantyes" \in States /\ "wantno" \in States
      /\ WILL \in Verbs /\ WONT \in Verbs /\ DO \in Verbs /\ DONT \in Verbs
  BY DEF States, Verbs
<1>2. said' = said /\ IsHost(remote)
  BY DEF Proposes, IInv, Types
<1>3. ASSUME NEW o \in ServerOptions, NEW c \in Verbs, NEW v \in States, Offers(remote.us[o], v, c),
             remote' = [remote EXCEPT !.us[o] = v], Utters(Nego(c, o))
      PROVE  IInv'
  <2>1. Changed([remote EXCEPT !.us[o] = v], remote, [remote.us EXCEPT ![o] = v], remote.him)
    BY <1>2, HostChanges, Zenon
  <2>2. Changed(remote', remote, [remote.us EXCEPT ![o] = v], remote.him)
    BY <1>3, <2>1, Zenon
  <2> QED
    BY <1>2, <1>3, <2>2, OfferKeeps, Zenon
<1>4. ASSUME NEW o \in ClientOptions, NEW c \in Verbs, NEW v \in States, Demands(remote.him[o], v, c, o),
             remote' = [remote EXCEPT !.him[o] = v], Utters(Nego(c, o))
      PROVE  IInv'
  <2>1. Changed([remote EXCEPT !.him[o] = v], remote, remote.us, [remote.him EXCEPT ![o] = v])
    BY <1>2, HostChanges, Zenon
  <2>2. Changed(remote', remote, remote.us, [remote.him EXCEPT ![o] = v])
    BY <1>4, <2>1, Zenon
  <2> QED
    BY <1>2, <1>4, <2>2, DemandKeeps, Zenon
<1>5. CASE \E o \in ServerOptions :
             \/ /\ remote.us[o] = "no" /\ remote' = [remote EXCEPT !.us[o] = "wantyes"]
                /\ Utters(Nego(WILL, o))
             \/ /\ o \in Withdrawn
                /\ remote.us[o] = "yes" /\ remote' = [remote EXCEPT !.us[o] = "wantno"]
                /\ Utters(Nego(WONT, o))
  BY <1>1, <1>3, <1>5, Zenon DEF Offers
<1>6. CASE \E o \in ClientOptions :
             \/ /\ remote.him[o] = "no" /\ remote' = [remote EXCEPT !.him[o] = "wantyes"]
                /\ Utters(Nego(DO, o))
             \/ /\ o \in Withdrawn
                /\ remote.him[o] = "yes" /\ remote' = [remote EXCEPT !.him[o] = "wantno"]
                /\ Utters(Nego(DONT, o))
  BY <1>1, <1>4, <1>6, Zenon DEF Demands
<1> QED
  BY <1>5, <1>6, Zenon DEF Proposes

\* Between two bytes: what the last one gave has been handed on.
ParserHas(p, m, c, e, k, g, n, l) ==
  /\ p = Pars(m, c, e, k, g, n, l, <<>>, <<>>)
  /\ p.mode = m /\ p.cmd = c /\ p.endExec = e /\ p.echoEnabled = k /\ p.suppressGoAhead = g
  /\ p.nawsAccepted = n /\ p.localEcho = l

HostHas(y, m, c, q, t, u, h, z) ==
  /\ y = Hos(m, c, q, t, u, h, z, <<>>)
  /\ y.mode = m /\ y.cmd = c /\ y.payload = q /\ y.text = t /\ y.us = u /\ y.him = h /\ y.size = z

\* What has been handed on is gone from the parser, and from the host.
LEMMA ParsCleared ==
  ASSUME NEW m, NEW c, NEW e, NEW k, NEW g, NEW n, NEW l, NEW t, NEW s,
         NEW x, x = Pars(m, c, e, k, g, n, l, t, s), NEW p, p = [x EXCEPT !.text = <<>>, !.sent = <<>>]
  PROVE  ParserHas(p, m, c, e, k, g, n, l)
<1>1. p = Pars(m, c, e, k, g, n, l, <<>>, <<>>)
  BY DEF Pars
<1>2. /\ p.mode = m /\ p.cmd = c /\ p.endExec = e /\ p.echoEnabled = k /\ p.suppressGoAhead = g
      /\ p.nawsAccepted = n /\ p.localEcho = l
  BY <1>1, ParsIs
<1> QED
  BY <1>1, <1>2 DEF ParserHas

\* A host whose replies have been taken has its other fields.
LEMMA HosCleared ==
  ASSUME NEW m, NEW c, NEW p, NEW t, NEW u, NEW h, NEW z, NEW r, NEW q,
         NEW x, x = Hos(m, c, p, t, u, h, z, r), NEW y, y = [x EXCEPT !.replies = <<>>, !.payload = q]
  PROVE  HostHas(y, m, c, q, t, u, h, z)
<1>1. y = Hos(m, c, q, t, u, h, z, <<>>)
  BY DEF Hos
<1>2. y.mode = m /\ y.cmd = c /\ y.payload = q /\ y.text = t /\ y.us = u /\ y.him = h /\ y.size = z
  BY <1>1, HosIs
<1> QED
  BY <1>1, <1>2 DEF HostHas

\* What a byte gives is shown, and sent.
Gives(m, c, e, k, g, n, l, t, s) ==
  ParserHas(parser', m, c, e, k, g, n, l) /\ shown' = shown \o t /\ toRemote' = toRemote \o s

\* That is what comes of a step of the parser ...
LEMMA ReadGives ==
  ASSUME ReadByte, NEW m, NEW c, NEW e, NEW k, NEW g, NEW n, NEW l, NEW t, NEW s,
         NEW x, x = Read(parser, Head(toBrowser)), x = Pars(m, c, e, k, g, n, l, t, s)
  PROVE  Gives(m, c, e, k, g, n, l, t, s)
<1>1. PICK p : p = [x EXCEPT !.text = <<>>, !.sent = <<>>]
  OBVIOUS
<1>2. ParserHas(p, m, c, e, k, g, n, l)
  BY <1>1, ParsCleared
<1>3. x.text = t /\ x.sent = s
  BY ParsIs
<1>4. parser' = p /\ shown' = shown \o x.text /\ toRemote' = toRemote \o x.sent
  BY <1>1, Zenon DEF ReadByte, Shows
<1> QED
  BY <1>2, <1>3, <1>4, Zenon DEF Gives

\* What is heard is taken, and replied to.
Replies(m, c, t, u, h, z, r) ==
  (\E q : HostHas(remote', m, c, q, t, u, h, z)) /\ toBrowser' = toBrowser \o r

\* ... and of one of the host.
LEMMA HearGives ==
  ASSUME Hears, NEW m, NEW c, NEW p, NEW t, NEW u, NEW h, NEW z, NEW r,
         NEW x, x = Heard(remote, Head(toRemote)), x = Hos(m, c, p, t, u, h, z, r)
  PROVE  Replies(m, c, t, u, h, z, r)
<1>1. PICK q : q = IF x.mode = "text" THEN <<>> ELSE x.payload
  OBVIOUS
<1>2. PICK y : y = [x EXCEPT !.replies = <<>>, !.payload = q]
  OBVIOUS
<1>3. HostHas(y, m, c, q, t, u, h, z)
  BY <1>2, HosCleared
<1>4. x.replies = r
  BY HosIs
<1>5. remote' = y /\ toBrowser' = toBrowser \o x.replies
  BY <1>1, <1>2, Zenon DEF Hears
<1> QED
  BY <1>3, <1>4, <1>5, Zenon DEF Replies

\* What it shows, what it sends and its options go with the bytes.
Proceeds(rest, text, bytes, nb, nr, m, c, e, k, g, n, l) ==
  /\ m \in Modes \cup {"dead"} /\ c \in Nat /\ e \in BOOLEAN /\ k \in BOOLEAN /\ g \in BOOLEAN
  /\ n \in BOOLEAN /\ l \in BOOLEAN /\ (m = "option" => c \in Verbs)
  /\ ParserHas(parser', m, c, e, k, g, n, l) /\ rest = Tail(toBrowser)
  /\ text \in Seq(Nat) /\ shown' = text /\ bytes \in Seq(Nat) /\ toRemote' = bytes
  /\ nb \in Seq(Nego2) /\ nr \in Seq(Nego2)
  /\ Ahead(FALSE, bytes, remote.mode, remote.cmd, remote.text, typed, nr) /\ Begins(text, said)
  /\ (m # "dead" => Ahead(TRUE, rest, m, c, text, said, nb)) /\ (m = "dead" => nb = <<>>)
  /\ (OptionsOfOneSide /\ ~senderClosed /\ (m = "dead" => rest = <<>>) =>
        Agreement(remote.us, remote.him, k, g, n, l, nb, nr))

\* The parser reads a byte.
LEMMA ReadSteps ==
  ASSUME IInv, ReadByte, NEW rest, NEW text, NEW bytes, NEW nb, NEW nr, NEW m, NEW c, NEW e, NEW k, NEW g, NEW n,
         NEW l, Proceeds(rest, text, bytes, nb, nr, m, c, e, k, g, n, l)
  PROVE  IInv'
<1>0. /\ m \in Modes \cup {"dead"} /\ c \in Nat /\ e \in BOOLEAN /\ k \in BOOLEAN /\ g \in BOOLEAN
      /\ n \in BOOLEAN /\ l \in BOOLEAN /\ (m = "option" => c \in Verbs)
      /\ ParserHas(parser', m, c, e, k, g, n, l) /\ rest = Tail(toBrowser)
      /\ text \in Seq(Nat) /\ shown' = text /\ bytes \in Seq(Nat) /\ toRemote' = bytes
      /\ nb \in Seq(Nego2) /\ nr \in Seq(Nego2)
      /\ Ahead(FALSE, bytes, remote.mode, remote.cmd, remote.text, typed, nr) /\ Begins(text, said)
      /\ (m # "dead" => Ahead(TRUE, rest, m, c, text, said, nb)) /\ (m = "dead" => nb = <<>>)
      /\ (OptionsOfOneSide /\ ~senderClosed /\ (m = "dead" => rest = <<>>) =>
            Agreement(remote.us, remote.him, k, g, n, l, nb, nr))
  BY Zenon DEF Proceeds
<1>1. /\ ticking' = ticking /\ windowDim' = windowDim /\ dim' = dim /\ senderClosed' = senderClosed
      /\ closed' = closed /\ remote' = remote /\ said' = said /\ typed' = typed
      /\ chunk > 0 /\ parser.mode # "dead" /\ chunk' = chunk - 1 /\ toBrowser' = rest
  BY <1>0 DEF ReadByte, windowVars, hostVars, At
<1>2. /\ parser' = Pars(m, c, e, k, g, n, l, <<>>, <<>>)
      /\ parser'.mode = m /\ parser'.cmd = c /\ parser'.endExec = e /\ parser'.echoEnabled = k
      /\ parser'.suppressGoAhead = g /\ parser'.nawsAccepted = n /\ parser'.localEcho = l
  BY <1>0, Zenon DEF ParserHas
<1>6. IsParser(parser')
  BY <1>0, <1>2, Zenon DEF IsParser
<1>8. ~closed /\ toBrowser \in Seq(Nat) /\ chunk \in Nat /\ chunk <= Len(toBrowser)
  BY <1>1, Zenon DEF IInv, Types
<1>9. rest \in Seq(Nat) /\ chunk' \in Nat /\ chunk' <= Len(rest)
  <2>1. Len(toBrowser) \in Nat /\ Len(toBrowser) # 0
    BY <1>1, <1>8, LenProperties
  <2>2. toBrowser # <<>>
    BY <2>1, EmptySeq
  <2>3. rest \in Seq(Nat) /\ Len(rest) = Len(toBrowser) - 1
    BY <1>0, <1>8, <2>2, HeadTailProperties
  <2>4. chunk - 1 \in Nat /\ chunk - 1 <= Len(toBrowser) - 1
    BY <1>1, <1>8, <2>1
  <2> QED
    BY <1>1, <2>3, <2>4
<1>10. Types'
  BY <1>0, <1>1, <1>6, <1>8, <1>9, Zenon DEF IInv, Types
<1>11. Texts'
  BY <1>0, <1>1, Zenon DEF IInv, Texts
<1>12. Dead' = (m = "dead") /\ Live' = (~senderClosed /\ (m = "dead" => rest = <<>>))
  BY <1>0, <1>1, <1>2, Zenon DEF Dead, Live
<1>13. ToHost(nr)'
  BY <1>0, <1>1, Zenon DEF ToHost
<1>14. ToTerminal(nb)'
  BY <1>0, <1>1, <1>2, <1>12, Zenon DEF ToTerminal, Listening
<1>15. Agreed(nb, nr)'
  BY <1>0, <1>1, <1>2, <1>12, Zenon DEF Agreed
<1> QED
  BY <1>10, <1>11, <1>13, <1>14, <1>15, Zenon DEF IInv

\* What it reads, what it replies and its options go with the bytes.
Responds(rest, bytes, nb, nr, m, c, q, t, u, h, z) ==
  /\ m \in Modes \ {"type"} /\ c \in Nat /\ t \in Seq(Nat) /\ u \in [Options -> States]
  /\ h \in [Options -> States] /\ (m = "option" => c \in Verbs)
  /\ HostHas(remote', m, c, q, t, u, h, z) /\ rest = Tail(toRemote) /\ rest \in Seq(Nat)
  /\ bytes \in Seq(Nat) /\ toBrowser' = bytes /\ Len(toBrowser) <= Len(bytes)
  /\ nb \in Seq(Nego2) /\ nr \in Seq(Nego2)
  /\ Ahead(FALSE, rest, m, c, t, typed, nr) /\ Begins(t, typed)
  /\ (Listening => Ahead(TRUE, bytes, parser.mode, parser.cmd, shown, said, nb)) /\ (Dead => nb = <<>>)
  /\ (OptionsOfOneSide /\ ~senderClosed /\ (Dead => bytes = <<>>) =>
        Agreement(u, h, parser.echoEnabled, parser.suppressGoAhead, parser.nawsAccepted, parser.localEcho, nb, nr))

\* The host hears a byte.
LEMMA HearSteps ==
  ASSUME IInv, Hears, NEW rest, NEW bytes, NEW nb, NEW nr, NEW m, NEW c, NEW q, NEW t, NEW u, NEW h, NEW z,
         Responds(rest, bytes, nb, nr, m, c, q, t, u, h, z)
  PROVE  IInv'
<1>0. /\ m \in Modes \ {"type"} /\ c \in Nat /\ t \in Seq(Nat) /\ u \in [Options -> States]
      /\ h \in [Options -> States] /\ (m = "option" => c \in Verbs)
      /\ HostHas(remote', m, c, q, t, u, h, z) /\ rest = Tail(toRemote) /\ rest \in Seq(Nat)
      /\ bytes \in Seq(Nat) /\ toBrowser' = bytes /\ Len(toBrowser) <= Len(bytes)
      /\ nb \in Seq(Nego2) /\ nr \in Seq(Nego2)
      /\ Ahead(FALSE, rest, m, c, t, typed, nr) /\ Begins(t, typed)
      /\ (Listening => Ahead(TRUE, bytes, parser.mode, parser.cmd, shown, said, nb)) /\ (Dead => nb = <<>>)
      /\ (OptionsOfOneSide /\ ~senderClosed /\ (Dead => bytes = <<>>) =>
            Agreement(u, h, parser.echoEnabled, parser.suppressGoAhead, parser.nawsAccepted, parser.localEcho, nb, nr))
  BY Zenon DEF Responds
<1>1. /\ ticking' = ticking /\ windowDim' = windowDim /\ dim' = dim /\ senderClosed' = senderClosed
      /\ closed' = closed /\ parser' = parser /\ said' = said /\ typed' = typed /\ shown' = shown
      /\ chunk' = chunk /\ toRemote' = rest /\ toRemote # <<>>
  BY <1>0 DEF Hears, windowVars
<1>6. /\ remote' = Hos(m, c, q, t, u, h, z, <<>>)
      /\ remote'.mode = m /\ remote'.cmd = c /\ remote'.payload = q /\ remote'.text = t /\ remote'.us = u
      /\ remote'.him = h /\ remote'.size = z
  BY <1>0, Zenon DEF HostHas
<1>7. IsHost(remote')
  BY <1>0, <1>6, Zenon DEF IsHost
<1>9. ~closed /\ toBrowser \in Seq(Nat) /\ chunk \in Nat /\ chunk <= Len(toBrowser)
  BY <1>1, Zenon DEF IInv, Types
<1>10. chunk <= Len(bytes)
  <2>1. Len(toBrowser) \in Nat /\ Len(bytes) \in Nat
    BY <1>0, <1>9, LenProperties
  <2> QED
    BY <1>0, <1>9, <2>1
<1>11. Types'
  BY <1>0, <1>1, <1>7, <1>9, <1>10, Zenon DEF IInv, Types
<1>12. Texts'
  BY <1>0, <1>1, <1>6, Zenon DEF IInv, Texts
<1>13. Dead' = Dead /\ Listening' = Listening /\ Live' = (~senderClosed /\ (Dead => bytes = <<>>))
  BY <1>0, <1>1, Zenon DEF Dead, Live, Listening
<1>14. ToHost(nr)'
  BY <1>0, <1>1, <1>6, Zenon DEF ToHost
<1>15. ToTerminal(nb)'
  BY <1>0, <1>1, <1>13, Zenon DEF ToTerminal
<1>16. Agreed(nb, nr)'
  BY <1>0, <1>1, <1>6, <1>13, Zenon DEF Agreed
<1> QED
  BY <1>11, <1>12, <1>14, <1>15, <1>16, Zenon DEF IInv

\* The lemmas above about commands, with what they say under one name.
OptionComes(known, bytes, cmd, text, whole, negos) ==
  /\ negos # <<>> /\ Head(negos) = <<cmd, Head(bytes)>> /\ Tail(negos) \in Seq(Nego2)
  /\ Ahead(known, Tail(bytes), "text", cmd, text, whole, Tail(negos))

\* The first command has come (AheadOption).
LEMMA OptionHasCome ==
  ASSUME NEW known \in BOOLEAN, NEW bytes \in Seq(Nat), bytes # <<>>, NEW mode, mode = "option", NEW cmd \in Nat,
         NEW text \in Seq(Nat), NEW whole, NEW negos \in Seq(Nego2),
         Ahead(known, bytes, mode, cmd, text, whole, negos)
  PROVE  OptionComes(known, bytes, cmd, text, whole, negos)
BY AheadOption DEF OptionComes

AnswerGoes(bytes, mode, cmd, text, whole, negos, c, o, k, g, n) ==
  /\ Ahead(FALSE, bytes \o Answered(c, o, k, g, n), mode, cmd, text, whole, With(negos, Answer(c, o, k, g, n), o))
  /\ bytes \o Answered(c, o, k, g, n) \in Seq(Nat) /\ With(negos, Answer(c, o, k, g, n), o) \in Seq(Nego2)

\* The answer to it has been sent (AheadAnswered).
LEMMA AnswerHasGone ==
  ASSUME SizesWithoutIAC, windowDim \in Sizes, NEW known, known = FALSE,
         NEW bytes \in Seq(Nat), NEW mode, NEW cmd, NEW text, NEW whole, NEW negos \in Seq(Nego2),
         Ahead(known, bytes, mode, cmd, text, whole, negos),
         NEW c \in Verbs, NEW o \in Nat, NEW k, NEW g, NEW n
  PROVE  AnswerGoes(bytes, mode, cmd, text, whole, negos, c, o, k, g, n)
BY AheadAnswered DEF AnswerGoes

\* Both ends agree with it (ReadAgrees).
LEMMA AnswerAgrees ==
  ASSUME OptionsOfOneSide, NEW us, NEW him, NEW k, NEW g, NEW n, NEW l,
         NEW nb \in Seq(Nego2), nb # <<>>, NEW nr \in Seq(Nego2), Agreement(us, him, k, g, n, l, nb, nr),
         NEW c \in Verbs, NEW o \in Nat, Head(nb) = <<c, o>>
  PROVE  AgreesRead(us, him, k, g, n, l, c, o, Tail(nb), With(nr, Answer(c, o, k, g, n), o))
<1>1. PICK q, a, p : q = Tail(nb) /\ a = Answer(c, o, k, g, n) /\ p = IF a = 0 THEN nr ELSE Append(nr, <<a, o>>)
  OBVIOUS
<1>2. AgreesRead(us, him, k, g, n, l, c, o, q, p)
  BY <1>1, ReadAgrees
<1> QED
  BY <1>1, <1>2, Zenon DEF With

\* The options of the parser stay flags.
LEMMA ReadBooleans ==
  ASSUME NEW c, NEW o, NEW k \in BOOLEAN, NEW g \in BOOLEAN, NEW n \in BOOLEAN, NEW l \in BOOLEAN
  PROVE  /\ (IF o = Echo THEN c \in {WILL, DO} ELSE k) \in BOOLEAN
         /\ (IF o = SuppressGoAhead THEN c \in {WILL, DO} ELSE g) \in BOOLEAN
         /\ (IF o = NAWS /\ c = DO THEN TRUE ELSE n) \in BOOLEAN
         /\ (IF o = Echo THEN c \in {WONT, DO} ELSE l) \in BOOLEAN
<1>1. (c \in {WILL, DO}) \in BOOLEAN /\ (c \in {WONT, DO}) \in BOOLEAN
  OBVIOUS
<1>2. TRUE \in BOOLEAN
  OBVIOUS
<1> QED
  BY <1>1, <1>2, Zenon

\* Where nothing is on its way no command is (AheadNothing).
LEMMA NothingComes ==
  ASSUME NEW known \in BOOLEAN, NEW mode \in Modes, NEW cmd \in Nat, NEW text \in Seq(Nat), NEW whole,
         NEW negos \in Seq(Nego2), NEW bytes, bytes = <<>>, Ahead(known, bytes, mode, cmd, text, whole, negos)
  PROVE  negos = <<>>
BY AheadNothing

\* A parser that reads, with what it has before it.
Reading(b, rest, nb, nr, m, c, e, k, g, n, l) ==
  /\ b = Head(toBrowser) /\ rest = Tail(toBrowser) /\ b \in Nat /\ rest \in Seq(Nat)
  /\ toBrowser \in Seq(Nat) /\ toBrowser # <<>> /\ toRemote \in Seq(Nat) /\ shown \in Seq(Nat)
  /\ windowDim \in Sizes /\ nb \in Seq(Nego2) /\ nr \in Seq(Nego2)
  /\ parser = Pars(m, c, e, k, g, n, l, <<>>, <<>>) /\ m \in Modes /\ c \in Nat
  /\ e \in BOOLEAN /\ k \in BOOLEAN /\ g \in BOOLEAN /\ n \in BOOLEAN /\ l \in BOOLEAN
  /\ m = "option" => c \in Verbs
  /\ Begins(shown, said)
  /\ Ahead(TRUE, toBrowser, m, c, shown, said, nb)
  /\ Ahead(FALSE, toRemote, remote.mode, remote.cmd, remote.text, typed, nr)
  /\ OptionsOfOneSide /\ ~senderClosed => Agreement(remote.us, remote.him, k, g, n, l, nb, nr)

\* When a byte is read, that is so.
LEMMA ReadingIs ==
  ASSUME IInv, ReadByte
  PROVE  \E b, rest, nb, nr, m, c, e, k, g, n, l : Reading(b, rest, nb, nr, m, c, e, k, g, n, l)
<1>1. chunk > 0 /\ parser.mode # "dead"
  BY DEF ReadByte, At
<1>2. PICK nb, nr : ToHost(nr) /\ ToTerminal(nb) /\ Agreed(nb, nr)
  BY DEF IInv
<1>3. PICK m, c, e, k, g, n, l : m = parser.mode /\ c = parser.cmd /\ e = parser.endExec
        /\ k = parser.echoEnabled /\ g = parser.suppressGoAhead /\ n = parser.nawsAccepted
        /\ l = parser.localEcho
  OBVIOUS
<1>4. /\ parser = Pars(m, c, e, k, g, n, l, <<>>, <<>>) /\ m \in Modes \cup {"dead"} /\ c \in Nat
      /\ e \in BOOLEAN /\ k \in BOOLEAN /\ g \in BOOLEAN /\ n \in BOOLEAN /\ l \in BOOLEAN
      /\ (m = "option" => c \in Verbs)
  BY <1>3, Zenon DEF IInv, Types, IsParser
<1>5. m \in Modes
  BY <1>1, <1>3, <1>4, Zenon
<1>6. /\ toBrowser \in Seq(Nat) /\ toRemote \in Seq(Nat) /\ shown \in Seq(Nat) /\ windowDim \in Sizes
      /\ chunk \in Nat /\ chunk <= Len(toBrowser) /\ ~closed /\ Begins(shown, said)
  BY <1>1, Zenon DEF IInv, Types, Texts
<1>7. toBrowser # <<>>
  <2>1. Len(toBrowser) \in Nat /\ Len(toBrowser) # 0
    BY <1>1, <1>6, LenProperties
  <2> QED
    BY <2>1, EmptySeq
<1>8. PICK b, rest : b = Head(toBrowser) /\ rest = Tail(toBrowser)
  OBVIOUS
<1>9. b \in Nat /\ rest \in Seq(Nat)
  BY <1>6, <1>7, <1>8, HeadTailProperties
<1>10. /\ nb \in Seq(Nego2) /\ nr \in Seq(Nego2)
       /\ Ahead(TRUE, toBrowser, m, c, shown, said, nb)
       /\ Ahead(FALSE, toRemote, remote.mode, remote.cmd, remote.text, typed, nr)
  BY <1>1, <1>2, <1>3, <1>6, Zenon DEF ToHost, ToTerminal, Listening, Dead
<1>11. OptionsOfOneSide /\ ~senderClosed => Agreement(remote.us, remote.him, k, g, n, l, nb, nr)
  BY <1>1, <1>2, <1>3, Zenon DEF Agreed, Live, Dead
<1>12. Reading(b, rest, nb, nr, m, c, e, k, g, n, l)
  BY <1>4, <1>5, <1>6, <1>7, <1>8, <1>9, <1>10, <1>11, Zenon DEF Reading
<1> QED
  BY <1>12, Zenon

\* It reads the option of a command.
LEMMA ReadsOption ==
  ASSUME SizesWithoutIAC, IInv, ReadByte, NEW b, NEW rest, NEW nb, NEW nr, NEW m, NEW c, NEW e, NEW k, NEW g,
         NEW n, NEW l, Reading(b, rest, nb, nr, m, c, e, k, g, n, l), m = "option"
  PROVE  IInv'
<1>1. /\ b = Head(toBrowser) /\ rest = Tail(toBrowser) /\ b \in Nat /\ rest \in Seq(Nat)
      /\ toBrowser \in Seq(Nat) /\ toBrowser # <<>> /\ toRemote \in Seq(Nat) /\ shown \in Seq(Nat)
      /\ windowDim \in Sizes /\ nb \in Seq(Nego2) /\ nr \in Seq(Nego2) /\ c \in Nat /\ c \in Verbs
      /\ e \in BOOLEAN /\ k \in BOOLEAN /\ g \in BOOLEAN /\ n \in BOOLEAN /\ l \in BOOLEAN
      /\ Begins(shown, said) /\ TRUE \in BOOLEAN
      /\ Ahead(FALSE, toRemote, remote.mode, remote.cmd, remote.text, typed, nr)
      /\ OptionsOfOneSide /\ ~senderClosed => Agreement(remote.us, remote.him, k, g, n, l, nb, nr)
  BY Zenon DEF Reading
<1>2. parser = Pars("option", c, e, k, g, n, l, <<>>, <<>>)
  BY Zenon DEF Reading
<1>3. Ahead(TRUE, toBrowser, "option", c, shown, said, nb)
  BY Zenon DEF Reading
<1>4. /\ nb # <<>> /\ Head(nb) = <<c, b>> /\ Tail(nb) \in Seq(Nego2)
      /\ Ahead(TRUE, rest, "text", c, shown, said, Tail(nb))
  <2>1. PICK yes, mode : yes = TRUE /\ mode = "option"
    OBVIOUS
  <2>2. yes \in BOOLEAN
    BY <2>1
  <2>3. Ahead(yes, toBrowser, mode, c, shown, said, nb)
    BY <1>3, <2>1, Zenon
  <2>4. OptionComes(yes, toBrowser, c, shown, said, nb)
    BY <1>1, <2>1, <2>2, <2>3, OptionHasCome
  <2> QED
    BY <1>1, <2>1, <2>4, Zenon DEF OptionComes
<1>5. PICK x : x = Read(parser, b)
  OBVIOUS
<1>6. Obeys(Read(parser, b), c, b, e, k, g, n, l)
  BY <1>1, <1>2, OptionEffect
<1>7. PICK a : a = Answer(c, b, k, g, n)
  OBVIOUS
<1>8. a \in {0} \cup Verbs
  BY <1>7, AnswerIs
<1>9. PICK q, r : q = Tail(nb) /\ r = With(nr, a, b)
  OBVIOUS
<1>10. shown \o <<>> = shown /\ toRemote \o <<>> = toRemote
  BY <1>1, ConcatEmptySeq
<1>11. CASE senderClosed /\ \E n2 \in {n, TRUE} : x = Pars("dead", c, e, k, g, n2, l, <<>>, <<>>)
  <2>1. PICK n2 \in {n, TRUE} : x = Pars("dead", c, e, k, g, n2, l, <<>>, <<>>)
    BY <1>11
  <2>2. PICK dead : dead = "dead"
    OBVIOUS
  <2>3. x = Pars(dead, c, e, k, g, n2, l, <<>>, <<>>)
    BY <2>1, <2>2, Zenon
  <2>4. ParserHas(parser', dead, c, e, k, g, n2, l) /\ shown' = shown \o <<>> /\ toRemote' = toRemote \o <<>>
    <3>1. x = Read(parser, Head(toBrowser))
      BY <1>1, <1>5, Zenon
    <3>2. Gives(dead, c, e, k, g, n2, l, <<>>, <<>>)
      BY <2>3, <3>1, ReadGives
    <3> QED
      BY <3>2, Zenon DEF Gives
  <2>5. n2 \in BOOLEAN
    BY <1>1, <2>1, Zenon
  <2>6. PICK z : z = <<>>
    OBVIOUS
  <2>7. z \in Seq(Nego2)
    BY <2>6, EmptySeq
  <2>8. Proceeds(rest, shown, toRemote, z, nr, dead, c, e, k, g, n2, l)
    BY <1>1, <1>10, <1>11, <2>2, <2>4, <2>5, <2>6, <2>7, Zenon DEF Proceeds
  <2> QED
    BY <2>8, ReadSteps
<1>12. CASE ~(senderClosed /\ \E n2 \in {n, TRUE} : x = Pars("dead", c, e, k, g, n2, l, <<>>, <<>>))
  <2>1. PICK k2, g2, n2, l2 :
          /\ k2 = IF b = Echo THEN c \in {WILL, DO} ELSE k
          /\ g2 = IF b = SuppressGoAhead THEN c \in {WILL, DO} ELSE g
          /\ n2 = IF b = NAWS /\ c = DO THEN TRUE ELSE n
          /\ l2 = IF b = Echo THEN c \in {WONT, DO} ELSE l
    OBVIOUS
  <2>2. PICK s, mode : s = Answered(c, b, k, g, n) /\ mode = "text"
    OBVIOUS
  <2>3. x = Pars(mode, c, e, k2, g2, n2, l2, <<>>, s)
    BY <1>5, <1>6, <1>12, <2>1, <2>2, Zenon DEF Obeys
  <2>4. k2 \in BOOLEAN /\ g2 \in BOOLEAN /\ n2 \in BOOLEAN /\ l2 \in BOOLEAN
    BY <1>1, <2>1, ReadBooleans, Zenon
  <2>5. ParserHas(parser', mode, c, e, k2, g2, n2, l2) /\ shown' = shown \o <<>> /\ toRemote' = toRemote \o s
    <3>1. x = Read(parser, Head(toBrowser))
      BY <1>1, <1>5, Zenon
    <3>2. Gives(mode, c, e, k2, g2, n2, l2, <<>>, s)
      BY <2>3, <3>1, ReadGives
    <3> QED
      BY <3>2, Zenon DEF Gives
  <2>6. /\ Ahead(FALSE, toRemote \o Answered(c, b, k, g, n), remote.mode, remote.cmd, remote.text, typed,
                 With(nr, a, b))
        /\ toRemote \o Answered(c, b, k, g, n) \in Seq(Nat) /\ With(nr, a, b) \in Seq(Nego2)
    <3>1. PICK no, md, cd, tx : no = FALSE /\ md = remote.mode /\ cd = remote.cmd /\ tx = remote.text
      OBVIOUS
    <3>2. Ahead(no, toRemote, md, cd, tx, typed, nr)
      BY <1>1, <3>1, Zenon
    <3>3. AnswerGoes(toRemote, md, cd, tx, typed, nr, c, b, k, g, n)
      BY <1>1, <3>1, <3>2, AnswerHasGone
    <3> QED
      BY <1>7, <3>1, <3>3, Zenon DEF AnswerGoes
  <2>7. PICK bytes : bytes = toRemote \o s
    OBVIOUS
  <2>8. /\ Ahead(FALSE, bytes, remote.mode, remote.cmd, remote.text, typed, r)
        /\ bytes \in Seq(Nat) /\ r \in Seq(Nego2) /\ q \in Seq(Nego2)
        /\ Ahead(TRUE, rest, mode, c, shown, said, q)
    BY <1>4, <1>9, <2>2, <2>6, <2>7, Zenon
  <2>9. ASSUME OptionsOfOneSide, ~senderClosed
        PROVE  Agreement(remote.us, remote.him, k2, g2, n2, l2, q, r)
    <3>1. PICK us, him : us = remote.us /\ him = remote.him
      OBVIOUS
    <3>2. Agreement(us, him, k, g, n, l, nb, nr)
      BY <1>1, <2>9, <3>1, Zenon
    <3>3. AgreesRead(us, him, k, g, n, l, c, b, Tail(nb), With(nr, Answer(c, b, k, g, n), b))
      BY <1>1, <1>4, <2>9, <3>2, AnswerAgrees
    <3> QED
      BY <1>7, <1>9, <2>1, <3>1, <3>3, Zenon DEF AgreesRead
  <2>10. mode \in Modes \cup {"dead"} /\ mode # "dead" /\ mode # "option"
    BY <2>2 DEF Modes
  <2>11. Proceeds(rest, shown, bytes, q, r, mode, c, e, k2, g2, n2, l2)
    BY <1>1, <1>10, <2>4, <2>5, <2>7, <2>8, <2>9, <2>10, Zenon DEF Proceeds
  <2> QED
    BY <2>11, ReadSteps
<1> QED
  BY <1>11, <1>12

\* It reads any other byte.
LEMMA ReadsOn ==
  ASSUME IInv, ReadByte, NEW b, NEW rest, NEW nb, NEW nr, NEW m, NEW c, NEW e, NEW k, NEW g,
         NEW n, NEW l, Reading(b, rest, nb, nr, m, c, e, k, g, n, l), m # "option"
  PROVE  IInv'
<1>1. /\ b = Head(toBrowser) /\ rest = Tail(toBrowser) /\ b \in Nat /\ rest \in Seq(Nat)
      /\ toBrowser \in Seq(Nat) /\ toBrowser # <<>> /\ toRemote \in Seq(Nat) /\ shown \in Seq(Nat)
      /\ nb \in Seq(Nego2) /\ nr \in Seq(Nego2) /\ m \in Modes /\ c \in Nat
      /\ e \in BOOLEAN /\ k \in BOOLEAN /\ g \in BOOLEAN /\ n \in BOOLEAN /\ l \in BOOLEAN
      /\ Begins(shown, said) /\ TRUE \in BOOLEAN
      /\ Ahead(FALSE, toRemote, remote.mode, remote.cmd, remote.text, typed, nr)
      /\ OptionsOfOneSide /\ ~senderClosed => Agreement(remote.us, remote.him, k, g, n, l, nb, nr)
  BY Zenon DEF Reading
<1>2. parser = Pars(m, c, e, k, g, n, l, <<>>, <<>>) /\ Ahead(TRUE, toBrowser, m, c, shown, said, nb)
  BY Zenon DEF Reading
<1>3. Follows(Read(parser, b), k, g, n, l, shown, rest, said, nb)
  BY <1>1, <1>2, ParserGoes
<1>4. PICK x : x = Read(parser, b)
  OBVIOUS
<1>5. PICK m2 \in Modes \cup {"dead"}, c2 \in Nat, e2 \in BOOLEAN, t \in Seq(Nat) : \E s :
        /\ x = Pars(m2, c2, e2, k, g, n, l, t, s)
        /\ m2 = "option" => c2 \in Verbs
        /\ s = <<>> \/ (s = SubNego(TypeName, TerminalType) /\ ~senderClosed)
        /\ m2 # "dead" => Ahead(TRUE, rest, m2, c2, shown \o t, said, nb)
        /\ m2 = "dead" => t = <<>> /\ (senderClosed \/ Ahead(TRUE, rest, "text", c2, shown, said, nb))
  BY <1>3, <1>4, Zenon DEF Follows
<1>6. PICK s :
        /\ x = Pars(m2, c2, e2, k, g, n, l, t, s)
        /\ m2 = "option" => c2 \in Verbs
        /\ s = <<>> \/ (s = SubNego(TypeName, TerminalType) /\ ~senderClosed)
        /\ m2 # "dead" => Ahead(TRUE, rest, m2, c2, shown \o t, said, nb)
        /\ m2 = "dead" => t = <<>> /\ (senderClosed \/ Ahead(TRUE, rest, "text", c2, shown, said, nb))
  BY <1>5, Zenon
<1>7. ParserHas(parser', m2, c2, e2, k, g, n, l) /\ shown' = shown \o t /\ toRemote' = toRemote \o s
  <2>1. x = Read(parser, Head(toBrowser))
    BY <1>1, <1>4, Zenon
  <2>2. x = Pars(m2, c2, e2, k, g, n, l, t, s)
    BY <1>6
  <2>3. Gives(m2, c2, e2, k, g, n, l, t, s)
    BY <2>1, <2>2, ReadGives
  <2> QED
    BY <2>3, Zenon DEF Gives
<1>8. PICK text, bytes : text = shown \o t /\ bytes = toRemote \o s
  OBVIOUS
<1>9. text \in Seq(Nat)
  BY <1>1, <1>5, <1>8, BytesConcat
<1>10. bytes \in Seq(Nat) /\ Ahead(FALSE, bytes, remote.mode, remote.cmd, remote.text, typed, nr)
  <2>1. CASE s = <<>>
    <3>1. toRemote \o <<>> = toRemote
      BY <1>1, ConcatEmptySeq
    <3> QED
      BY <1>1, <1>8, <2>1, <3>1, Zenon
  <2>2. CASE s = SubNego(TypeName, TerminalType)
    <3>1. /\ Ahead(FALSE, toRemote \o SubNego(TypeName, TerminalType), remote.mode, remote.cmd, remote.text,
                   typed, nr)
          /\ toRemote \o SubNego(TypeName, TerminalType) \in Seq(Nat)
      BY <1>1, AheadType
    <3> QED
      BY <1>8, <2>2, <3>1, Zenon
  <2> QED
    BY <1>6, <2>1, <2>2
<1>11. CASE m2 # "dead"
  <2>1. Ahead(TRUE, rest, m2, c2, text, said, nb)
    BY <1>6, <1>8, <1>11, Zenon
  <2>2. Begins(text, said)
    BY <1>1, <2>1, AheadBegins
  <2>3. Proceeds(rest, text, bytes, nb, nr, m2, c2, e2, k, g, n, l)
    BY <1>1, <1>5, <1>6, <1>7, <1>8, <1>9, <1>10, <1>11, <2>1, <2>2, Zenon DEF Proceeds
  <2> QED
    BY <2>3, ReadSteps
<1>12. CASE m2 = "dead"
  <2>1. text = shown
    <3>1. shown \o <<>> = shown
      BY <1>1, ConcatEmptySeq
    <3> QED
      BY <1>6, <1>8, <1>12, <3>1, Zenon
  <2>2. PICK z : z = <<>>
    OBVIOUS
  <2>3. z \in Seq(Nego2)
    BY <2>2, EmptySeq
  <2>4. ASSUME OptionsOfOneSide, ~senderClosed, rest = <<>>
        PROVE  Agreement(remote.us, remote.him, k, g, n, l, z, nr)
    <3>1. PICK yes, mode : yes = TRUE /\ mode = "text"
      OBVIOUS
    <3>2. mode \in Modes /\ yes \in BOOLEAN
      BY <3>1 DEF Modes
    <3>4. Ahead(yes, rest, mode, c2, shown, said, nb)
      BY <1>6, <1>12, <2>4, <3>1, Zenon
    <3>3. nb = <<>>
      BY <1>1, <1>5, <2>4, <3>2, <3>4, NothingComes
    <3> QED
      BY <1>1, <2>2, <2>4, <3>3, Zenon
  <2>5. Proceeds(rest, text, bytes, z, nr, m2, c2, e2, k, g, n, l)
    BY <1>1, <1>5, <1>6, <1>7, <1>8, <1>9, <1>10, <1>12, <2>1, <2>2, <2>3, <2>4, Zenon DEF Proceeds
  <2> QED
    BY <2>5, ReadSteps
<1> QED
  BY <1>11, <1>12

\* The parser reads a byte, of whatever kind.
LEMMA ReadByteKeeps ==
  ASSUME SizesWithoutIAC, IInv, ReadByte
  PROVE  IInv'
<1>1. PICK b, rest, nb, nr, m, c, e, k, g, n, l : Reading(b, rest, nb, nr, m, c, e, k, g, n, l)
  BY ReadingIs
<1>2. CASE m = "option"
  BY <1>1, <1>2, ReadsOption
<1>3. CASE m # "option"
  BY <1>1, <1>3, ReadsOn
<1> QED
  BY <1>2, <1>3

\* A host that hears, with what it has before it.
Hearing(b, rest, nb, nr, m, c, p, t, u, h, z) ==
  /\ b = Head(toRemote) /\ rest = Tail(toRemote) /\ b \in Nat /\ rest \in Seq(Nat)
  /\ toRemote \in Seq(Nat) /\ toRemote # <<>> /\ toBrowser \in Seq(Nat)
  /\ nb \in Seq(Nego2) /\ nr \in Seq(Nego2)
  /\ remote = Hos(m, c, p, t, u, h, z, <<>>) /\ m \in Modes \ {"type"} /\ c \in Nat /\ t \in Seq(Nat)
  /\ u \in [Options -> States] /\ h \in [Options -> States] /\ (m = "option" => c \in Verbs)
  /\ Ahead(FALSE, toRemote, m, c, t, typed, nr)
  /\ (Listening => Ahead(TRUE, toBrowser, parser.mode, parser.cmd, shown, said, nb)) /\ (Dead => nb = <<>>)
  /\ (OptionsOfOneSide /\ Live =>
        Agreement(u, h, parser.echoEnabled, parser.suppressGoAhead, parser.nawsAccepted, parser.localEcho, nb, nr))

\* When a byte is heard, that is so.
LEMMA HearingIs ==
  ASSUME IInv, Hears
  PROVE  \E b, rest, nb, nr, m, c, p, t, u, h, z : Hearing(b, rest, nb, nr, m, c, p, t, u, h, z)
<1>1. toRemote # <<>>
  BY DEF Hears
<1>2. PICK nb, nr : ToHost(nr) /\ ToTerminal(nb) /\ Agreed(nb, nr)
  BY DEF IInv
<1>3. PICK m, c, p, t, u, h, z : m = remote.mode /\ c = remote.cmd /\ p = remote.payload /\ t = remote.text
        /\ u = remote.us /\ h = remote.him /\ z = remote.size
  OBVIOUS
<1>4. /\ remote = Hos(m, c, p, t, u, h, z, <<>>) /\ m \in Modes \ {"type"} /\ c \in Nat /\ t \in Seq(Nat)
      /\ u \in [Options -> States] /\ h \in [Options -> States] /\ (m = "option" => c \in Verbs)
  BY <1>3, Zenon DEF IInv, Types, IsHost
<1>5. toBrowser \in Seq(Nat) /\ toRemote \in Seq(Nat) /\ ~closed
  BY <1>1, Zenon DEF IInv, Types
<1>6. PICK b, rest : b = Head(toRemote) /\ rest = Tail(toRemote)
  OBVIOUS
<1>7. b \in Nat /\ rest \in Seq(Nat)
  BY <1>1, <1>5, <1>6, HeadTailProperties
<1>8. /\ nb \in Seq(Nego2) /\ nr \in Seq(Nego2) /\ Ahead(FALSE, toRemote, m, c, t, typed, nr)
      /\ (Listening => Ahead(TRUE, toBrowser, parser.mode, parser.cmd, shown, said, nb)) /\ (Dead => nb = <<>>)
  BY <1>2, <1>3, <1>5, Zenon DEF ToHost, ToTerminal
<1>9. OptionsOfOneSide /\ Live =>
        Agreement(u, h, parser.echoEnabled, parser.suppressGoAhead, parser.nawsAccepted, parser.localEcho, nb, nr)
  BY <1>2, <1>3, Zenon DEF Agreed
<1>10. Hearing(b, rest, nb, nr, m, c, p, t, u, h, z)
  BY <1>1, <1>4, <1>5, <1>6, <1>7, <1>8, <1>9, Zenon DEF Hearing
<1> QED
  BY <1>10, Zenon

\* It hears a byte that is not the option of a command.
LEMMA HearsOn ==
  ASSUME IInv, Hears, NEW b, NEW rest, NEW nb, NEW nr, NEW m, NEW c, NEW p, NEW t, NEW u, NEW h, NEW z,
         Hearing(b, rest, nb, nr, m, c, p, t, u, h, z), m # "option"
  PROVE  IInv'
<1>1. /\ b = Head(toRemote) /\ rest = Tail(toRemote) /\ b \in Nat /\ rest \in Seq(Nat)
      /\ toRemote \in Seq(Nat) /\ toRemote # <<>> /\ toBrowser \in Seq(Nat)
      /\ nb \in Seq(Nego2) /\ nr \in Seq(Nego2) /\ m \in Modes \ {"type"} /\ c \in Nat /\ t \in Seq(Nat)
      /\ u \in [Options -> States] /\ h \in [Options -> States]
      /\ (Listening => Ahead(TRUE, toBrowser, parser.mode, parser.cmd, shown, said, nb)) /\ (Dead => nb = <<>>)
      /\ (OptionsOfOneSide /\ Live =>
            Agreement(u, h, parser.echoEnabled, parser.suppressGoAhead, parser.nawsAccepted, parser.localEcho, nb, nr))
  BY Zenon DEF Hearing
<1>2. remote = Hos(m, c, p, t, u, h, z, <<>>) /\ Ahead(FALSE, toRemote, m, c, t, typed, nr)
  BY Zenon DEF Hearing
<1>3. m \in Modes /\ m \notin {"type", "option"}
  BY <1>1, Zenon
<1>4. Heeds(Heard(remote, b), u, h, rest, typed, nr)
  BY <1>1, <1>2, <1>3, HostGoes
<1>5. PICK m2 \in Modes \ {"type"}, c2 \in Nat, t2 \in Seq(Nat) : \E p2, z2 :
        /\ Heard(remote, b) = Hos(m2, c2, p2, t2, u, h, z2, <<>>)
        /\ m2 = "option" => c2 \in Verbs
        /\ Ahead(FALSE, rest, m2, c2, t2, typed, nr)
  BY <1>4, Zenon DEF Heeds
<1>6. PICK p2, z2 :
        /\ Heard(remote, b) = Hos(m2, c2, p2, t2, u, h, z2, <<>>)
        /\ m2 = "option" => c2 \in Verbs
        /\ Ahead(FALSE, rest, m2, c2, t2, typed, nr)
  BY <1>5, Zenon
<1>7. Replies(m2, c2, t2, u, h, z2, <<>>)
  <2>1. PICK x : x = Heard(remote, Head(toRemote))
    OBVIOUS
  <2>2. x = Hos(m2, c2, p2, t2, u, h, z2, <<>>)
    BY <1>1, <1>6, <2>1, Zenon
  <2> QED
    BY <2>1, <2>2, HearGives
<1>8. PICK q : HostHas(remote', m2, c2, q, t2, u, h, z2)
  BY <1>7, Zenon DEF Replies
<1>9. toBrowser' = toBrowser
  <2>1. toBrowser \o <<>> = toBrowser
    BY <1>1, ConcatEmptySeq
  <2> QED
    BY <1>7, <2>1, Zenon DEF Replies
<1>10. Begins(t2, typed)
  <2>1. FALSE \in BOOLEAN
    OBVIOUS
  <2> QED
    BY <1>1, <1>6, <2>1, AheadBegins
<1>11. Len(toBrowser) <= Len(toBrowser)
  <2>1. Len(toBrowser) \in Nat
    BY <1>1, LenProperties
  <2> QED
    BY <2>1
<1>12. OptionsOfOneSide /\ ~senderClosed /\ (Dead => toBrowser = <<>>) =>
         Agreement(u, h, parser.echoEnabled, parser.suppressGoAhead, parser.nawsAccepted, parser.localEcho, nb, nr)
  BY <1>1, Zenon DEF Live
<1>13. Responds(rest, toBrowser, nb, nr, m2, c2, q, t2, u, h, z2)
  BY <1>1, <1>5, <1>6, <1>8, <1>9, <1>10, <1>11, <1>12, Zenon DEF Responds
<1> QED
  BY <1>13, HearSteps

\* What is said of an option, and what the other end has before it then.
LEMMA SaidIs ==
  ASSUME NEW a \in {0} \cup Verbs, NEW o \in Nat, NEW negos \in Seq(Nego2)
  PROVE  Said(a, o) \in Seq(Nat) /\ With(negos, a, o) \in Seq(Nego2) /\ (Said(a, o) = <<>> => a = 0)
<1>1. CASE a = 0
  BY <1>1, EmptySeq DEF Said, With
<1>2. CASE a # 0
  <2>1. a \in Nat
    BY <1>2, VerbsAreBytes
  <2>2. Nego(a, o) \in Seq(Nat)
    BY <2>1, NegoBytes
  <2>3. PICK i : i = <<a, o>>
    OBVIOUS
  <2>4. i \in Nego2
    BY <2>1, <2>3 DEF Nego2
  <2>5. Append(negos, i) \in Seq(Nego2)
    BY <2>4, AppendProperties
  <2>6. <<IAC, a, o>> # <<>>
    OBVIOUS
  <2> QED
    BY <1>2, <2>2, <2>3, <2>5, <2>6, Zenon DEF Said, With, Nego
<1> QED
  BY <1>1, <1>2

\* The states of the host stay states.
LEMMA OptionsTaken ==
  ASSUME NEW us \in [Options -> States], NEW him \in [Options -> States], NEW c \in Verbs, NEW o
  PROVE  UsAfter(us, c, o) \in [Options -> States] /\ HimAfter(him, c, o) \in [Options -> States]
<1>1. PICK u, h : u = UsAfter(us, c, o) /\ h = HimAfter(him, c, o)
  OBVIOUS
<1>2. u \in [Options -> States] /\ h \in [Options -> States]
  BY <1>1, HostTakes
<1> QED
  BY <1>1, <1>2

\* Both ends agree with the reply (HearAgrees).
LEMMA ReplyAgrees ==
  ASSUME OptionsOfOneSide, NEW us \in [Options -> States], NEW him \in [Options -> States],
         NEW k, NEW g, NEW n, NEW l, NEW nb \in Seq(Nego2), NEW nr \in Seq(Nego2), nr # <<>>,
         Agreement(us, him, k, g, n, l, nb, nr), NEW c \in Verbs, NEW o \in Nat, Head(nr) = <<c, o>>
  PROVE  Agreement(UsAfter(us, c, o), HimAfter(him, c, o), k, g, n, l, With(nb, ReplyTo(us, him, c, o), o), Tail(nr))
<1>1. PICK q, a, p : q = Tail(nr) /\ a = ReplyTo(us, him, c, o) /\ p = IF a = 0 THEN nb ELSE Append(nb, <<a, o>>)
  OBVIOUS
<1>2. a \in Nat
  <2>1. a \in {0} \cup Verbs
    BY <1>1, ReplyIs
  <2> QED
    BY <2>1, VerbsAreBytes
<1>3. Agreement(UsAfter(us, c, o), HimAfter(him, c, o), k, g, n, l, p, q)
  BY <1>1, <1>2, HearAgrees
<1> QED
  BY <1>1, <1>3, Zenon DEF With

\* It hears the option of a command.
LEMMA HearsOption ==
  ASSUME IInv, Hears, NEW b, NEW rest, NEW nb, NEW nr, NEW m, NEW c, NEW p, NEW t, NEW u, NEW h, NEW z,
         Hearing(b, rest, nb, nr, m, c, p, t, u, h, z), m = "option"
  PROVE  IInv'
<1>1. /\ b = Head(toRemote) /\ rest = Tail(toRemote) /\ b \in Nat /\ rest \in Seq(Nat)
      /\ toRemote \in Seq(Nat) /\ toRemote # <<>> /\ toBrowser \in Seq(Nat)
      /\ nb \in Seq(Nego2) /\ nr \in Seq(Nego2) /\ c \in Nat /\ c \in Verbs /\ t \in Seq(Nat)
      /\ u \in [Options -> States] /\ h \in [Options -> States]
      /\ (Listening => Ahead(TRUE, toBrowser, parser.mode, parser.cmd, shown, said, nb)) /\ (Dead => nb = <<>>)
      /\ (OptionsOfOneSide /\ Live =>
            Agreement(u, h, parser.echoEnabled, parser.suppressGoAhead, parser.nawsAccepted, parser.localEcho, nb, nr))
  BY Zenon DEF Hearing
<1>2. remote = Hos("option", c, p, t, u, h, z, <<>>)
  BY Zenon DEF Hearing
<1>3. PICK no, mode : no = FALSE /\ mode = "option"
  OBVIOUS
<1>4. no \in BOOLEAN /\ Ahead(no, toRemote, mode, c, t, typed, nr)
  <2>1. no \in BOOLEAN
    BY <1>3
  <2> QED
    BY <1>3, <2>1, Zenon DEF Hearing
<1>5. OptionComes(no, toRemote, c, t, typed, nr)
  BY <1>1, <1>3, <1>4, OptionHasCome
<1>6. /\ nr # <<>> /\ Head(nr) = <<c, b>> /\ Tail(nr) \in Seq(Nego2)
      /\ Ahead(FALSE, rest, "text", c, t, typed, Tail(nr))
  BY <1>1, <1>3, <1>5, Zenon DEF OptionComes
<1>7. PICK a, text, u2, h2, q : /\ a = ReplyTo(u, h, c, b) /\ text = "text" /\ u2 = UsAfter(u, c, b)
                                /\ h2 = HimAfter(h, c, b) /\ q = Tail(nr)
  OBVIOUS
<1>8. a \in {0} \cup Verbs
  BY <1>7, ReplyIs
<1>9. Said(a, b) \in Seq(Nat) /\ With(nb, a, b) \in Seq(Nego2) /\ (Said(a, b) = <<>> => a = 0)
  BY <1>1, <1>8, SaidIs
<1>10. PICK x : x = Heard(remote, Head(toRemote))
  OBVIOUS
<1>11. x = Hos(text, c, p, t, u2, h2, z, Said(a, b))
  <2>1. remote.mode = "option" /\ remote.cmd = c
    BY <1>2, HosIs
  <2>2. Heard(remote, b) = Negotiated(remote, c, b)
    BY <2>1 DEF Heard
  <2>3. Negotiated(remote, c, b)
          = Hos("text", c, p, t, UsAfter(u, c, b), HimAfter(h, c, b), z, RepliesTo(u, h, c, b))
    BY <1>1, <1>2, NegotiatedEffect
  <2>4. RepliesTo(u, h, c, b) = Said(a, b)
    BY <1>7, Zenon DEF RepliesTo, Said
  <2> QED
    BY <1>1, <1>7, <1>10, <2>2, <2>3, <2>4, Zenon
<1>12. Replies(text, c, t, u2, h2, z, Said(a, b))
  BY <1>10, <1>11, HearGives
<1>13. PICK s, bytes : s = Said(a, b) /\ bytes = toBrowser \o s
  OBVIOUS
<1>14. PICK y : HostHas(remote', text, c, y, t, u2, h2, z)
  BY <1>12, Zenon DEF Replies
<1>15. toBrowser' = bytes
  BY <1>12, <1>13, Zenon DEF Replies
<1>16. bytes \in Seq(Nat) /\ Len(bytes) = Len(toBrowser) + Len(s) /\ Len(toBrowser) \in Nat /\ Len(s) \in Nat
  <2>1. s \in Seq(Nat)
    BY <1>9, <1>13, Zenon
  <2> QED
    BY <1>1, <1>13, <2>1, ConcatProperties, LenProperties
<1>17. Len(toBrowser) <= Len(bytes)
  BY <1>16
<1>18. bytes = <<>> => toBrowser = <<>> /\ a = 0
  <2>1. ASSUME bytes = <<>>
        PROVE  toBrowser = <<>> /\ s = <<>>
    <3>1. Len(bytes) = 0
      BY <2>1, EmptySeq
    <3>2. Len(toBrowser) = 0 /\ Len(s) = 0
      BY <1>16, <3>1
    <3>3. s \in Seq(Nat)
      BY <1>9, <1>13, Zenon
    <3> QED
      BY <1>1, <3>2, <3>3, EmptySeq
  <2> QED
    BY <1>9, <1>13, <2>1, Zenon
<1>19. u2 \in [Options -> States] /\ h2 \in [Options -> States]
  BY <1>1, <1>7, OptionsTaken
<1>20. Begins(t, typed)
  <2>1. Ahead(no, toRemote, mode, c, t, typed, nr)
    BY <1>4
  <2> QED
    BY <1>1, <1>4, <2>1, AheadBegins
<1>21. PICK k, g, n, l : k = parser.echoEnabled /\ g = parser.suppressGoAhead /\ n = parser.nawsAccepted
         /\ l = parser.localEcho
  OBVIOUS
<1>22. ASSUME OptionsOfOneSide, Live
       PROVE  Agreement(u2, h2, k, g, n, l, With(nb, a, b), q)
  <2>1. Agreement(u, h, k, g, n, l, nb, nr)
    BY <1>1, <1>21, <1>22, Zenon
  <2>2. Agreement(UsAfter(u, c, b), HimAfter(h, c, b), k, g, n, l, With(nb, ReplyTo(u, h, c, b), b), Tail(nr))
    BY <1>1, <1>6, <1>22, <2>1, ReplyAgrees
  <2> QED
    BY <1>7, <2>2, Zenon
<1>23. text \in Modes \ {"type"} /\ text # "option"
  BY <1>7 DEF Modes
<1>24. CASE ~Dead
  <2>1. PICK w : w = With(nb, a, b)
    OBVIOUS
  <2>2. ASSUME Listening
        PROVE  Ahead(TRUE, bytes, parser.mode, parser.cmd, shown, said, w)
    <3>1. PICK yes, md, cd : yes = TRUE /\ md = parser.mode /\ cd = parser.cmd
      OBVIOUS
    <3>2. yes \in BOOLEAN /\ Ahead(yes, toBrowser, md, cd, shown, said, nb)
      <4>1. yes \in BOOLEAN
        BY <3>1
      <4> QED
        BY <1>1, <2>2, <3>1, <4>1, Zenon
    <3>3. Ahead(yes, toBrowser \o Said(a, b), md, cd, shown, said, With(nb, a, b))
      BY <1>1, <1>8, <3>2, AheadSaid
    <3> QED
      BY <1>13, <2>1, <3>1, <3>3, Zenon
  <2>3. OptionsOfOneSide /\ ~senderClosed /\ (Dead => bytes = <<>>) =>
          Agreement(u2, h2, parser.echoEnabled, parser.suppressGoAhead, parser.nawsAccepted, parser.localEcho, w, q)
    BY <1>21, <1>22, <1>24, <2>1, Zenon DEF Live
  <2>4. Responds(rest, bytes, w, q, text, c, y, t, u2, h2, z)
    BY <1>1, <1>6, <1>7, <1>9, <1>14, <1>15, <1>16, <1>17, <1>19, <1>20, <1>23, <1>24, <2>1, <2>2, <2>3,
       Zenon DEF Responds
  <2> QED
    BY <2>4, HearSteps
<1>25. CASE Dead
  <2>1. nb = <<>> /\ ~Listening
    BY <1>1, <1>25, Zenon DEF Listening
  <2>2. OptionsOfOneSide /\ ~senderClosed /\ (Dead => bytes = <<>>) =>
          Agreement(u2, h2, parser.echoEnabled, parser.suppressGoAhead, parser.nawsAccepted, parser.localEcho, nb, q)
    BY <1>18, <1>21, <1>22, <1>25, Zenon DEF Live, With
  <2>3. Responds(rest, bytes, nb, q, text, c, y, t, u2, h2, z)
    BY <1>1, <1>6, <1>7, <1>14, <1>15, <1>16, <1>17, <1>19, <1>20, <1>23, <1>25, <2>1, <2>2,
       Zenon DEF Responds
  <2> QED
    BY <2>3, HearSteps
<1> QED
  BY <1>24, <1>25

\* The host hears a byte, of whatever kind.
LEMMA HearsKeeps ==
  ASSUME IInv, Hears
  PROVE  IInv'
<1>1. PICK b, rest, nb, nr, m, c, p, t, u, h, z : Hearing(b, rest, nb, nr, m, c, p, t, u, h, z)
  BY HearingIs
<1>2. CASE m = "option"
  BY <1>1, <1>2, HearsOption
<1>3. CASE m # "option"
  BY <1>1, <1>3, HearsOn
<1> QED
  BY <1>2, <1>3

---------------------------------------------------------------------------
(* The theorems.                                                            *)

\* At first nothing is on its way and nothing is negotiated.
LEMMA BeginsWell ==
  ASSUME Init
  PROVE  IInv
<1>1. /\ toBrowser = <<>> /\ chunk = 0 /\ ticking = FALSE /\ parser = NewParser /\ windowDim = NoSize
      /\ dim = windowDim /\ shown = <<>> /\ senderClosed = FALSE /\ closed = FALSE /\ toRemote = <<>>
      /\ said = <<>> /\ typed = <<>>
  BY DEF Init, NoSize
<1>2. PICK us, him : us = [o \in Options |-> "no"] /\ him = us
  OBVIOUS
<1>3. remote = Hos("text", 0, <<>>, <<>>, us, him, <<>>, <<>>)
  BY <1>2 DEF Init, Hos
<1>4. us \in [Options -> States] /\ him \in [Options -> States] /\ \A o \in Options : us[o] = "no" /\ him[o] = "no"
  BY <1>2 DEF States
<1>5. PICK m, c, no, yes, e : m = "text" /\ c = 0 /\ no = FALSE /\ yes = TRUE /\ e = <<>>
  OBVIOUS
<1>6. m \in Modes /\ m \in Modes \cup {"dead"} /\ m \in Modes \ {"type"} /\ m # "option" /\ m # "dead"
      /\ c \in Nat /\ no \in BOOLEAN /\ yes \in BOOLEAN
  BY <1>5 DEF Modes
<1>7. e \in Seq(Nat) /\ e \in Seq(Nego2)
  BY <1>5, EmptySeq
<1>8. NewParser = Pars(m, c, no, no, no, no, yes, <<>>, <<>>)
  BY <1>5 DEF NewParser, Pars
<1>9. IsParser(parser)
  BY <1>1, <1>6, <1>8, ParserIs
<1>10. remote = Hos(m, c, e, e, us, him, e, <<>>)
  BY <1>3, <1>5, Zenon
<1>11. IsHost(remote)
  BY <1>4, <1>6, <1>7, <1>10, HostIs
<1>12. remote.mode = m /\ remote.cmd = c /\ remote.text = e /\ remote.us = us /\ remote.him = him
  BY <1>10, HosIs
<1>13. /\ parser.mode = m /\ parser.cmd = c /\ parser.echoEnabled = no /\ parser.suppressGoAhead = no
       /\ parser.nawsAccepted = no /\ parser.localEcho = yes
  BY <1>1, <1>8, ParsIs
<1>14. Types
  <2>1. chunk \in Nat /\ chunk <= Len(toBrowser)
    <3>1. Len(<<>>) = 0 /\ 0 \in Nat /\ 0 <= 0
      OBVIOUS
    <3> QED
      BY <1>1, <3>1, Zenon
  <2>2. windowDim \in Sizes /\ dim \in Sizes
    BY <1>1 DEF Sizes
  <2>3. ticking \in BOOLEAN /\ senderClosed \in BOOLEAN /\ closed \in BOOLEAN /\ ~closed
    BY <1>1
  <2> QED
    BY <1>1, <1>5, <1>7, <1>9, <1>11, <2>1, <2>2, <2>3, Zenon DEF Types
<1>15. Begins(e, e)
  <2>1. e \o e = e
    BY <1>5, <1>7, ConcatEmptySeq
  <2> QED
    BY <1>7, <2>1, Zenon DEF Begins
<1>16. Texts
  BY <1>1, <1>5, <1>12, <1>15, Zenon DEF Texts
<1>17. \A known \in BOOLEAN : Ahead(known, e, m, c, e, e, e)
  BY <1>5, <1>6, <1>7, AheadNothing
<1>18. ToHost(e) /\ ToTerminal(e)
  <2>1. Ahead(TRUE, e, m, c, e, e, e) /\ Ahead(FALSE, e, m, c, e, e, e)
    BY <1>5, <1>6, <1>17, Zenon
  <2> QED
    BY <1>1, <1>5, <1>6, <1>7, <1>12, <1>13, <2>1, Zenon DEF ToHost, ToTerminal, Dead
<1>19. Agreement(us, him, no, no, no, yes, e, e)
  <2>1. \A x : None(e, x) /\ ~Has(e, x)
    <3>1. Len(e) = 0
      BY <1>5
    <3> QED
      BY <3>1 DEF None, Has
  <2>2. Echo \in Options /\ SuppressGoAhead \in Options /\ NAWS \in Options
    BY DEF Options
  <2>3. "no" # "wantyes" /\ "no" # "wantno"
    OBVIOUS
  <2>4. Waits(us, him, e, e) /\ Asked(him)
    BY <1>4, <2>3, Zenon DEF Waits, Asked
  <2>5. \A x, a, b, c2, d : Handshake("no", no, e, e, x, a, b, c2, d)
    BY <1>5, <2>1, Zenon DEF Handshake
  <2>6. Echoes(us, him, no, yes, e, e)
    BY <1>4, <1>5, <2>2, <2>5, Zenon DEF Echoes, ByHost
  <2>7. GoesAhead(us, him, no, e, e)
    <3>1. us[SuppressGoAhead] = "no" /\ him[SuppressGoAhead] = "no"
      BY <1>4, <2>2
    <3>2. /\ ByBrowser(him[SuppressGoAhead], no, e, e, SuppressGoAhead)
          /\ ByHost(us[SuppressGoAhead], no, e, e, SuppressGoAhead)
      BY <2>5, <3>1, Zenon DEF ByHost, ByBrowser
    <3> QED
      BY <3>1, <3>2, Zenon DEF GoesAhead
  <2>8. Sized(him, no, e)
    BY <1>4, <1>5, <2>1, <2>2, <2>3, Zenon DEF Sized
  <2> QED
    BY <2>4, <2>6, <2>7, <2>8, Zenon DEF Agreement
<1>20. Agreed(e, e)
  BY <1>12, <1>13, <1>19, Zenon DEF Agreed
<1> QED
  BY <1>14, <1>16, <1>18, <1>20, Zenon DEF IInv

\* Every step keeps the invariant.
LEMMA StepKeeps ==
  ASSUME SizesWithoutIAC, IInv, [Next]_vars
  PROVE  IInv'
<1>1. CASE Tick
  BY <1>1, TickKeeps
<1>2. CASE ReadByte
  BY <1>2, ReadByteKeeps
<1>3. CASE Drop
  BY <1>3, DropKeeps
<1>4. CASE Resize
  BY <1>4, ResizeKeeps
<1>5. CASE Hears
  BY <1>5, HearsKeeps
<1>6. CASE UserActs
  <2>1. CASE \E byte \in Text : Type(byte)
    BY <2>1, TypeKeeps
  <2>2. CASE ResizeTerminal
    BY <2>2, ResizeTerminalKeeps
  <2>3. CASE Close
    BY <2>3, CloseKeeps
  <2> QED
    BY <1>6, <2>1, <2>2, <2>3, Zenon DEF UserActs
<1>7. CASE HostActs
  <2>1. CASE Says
    BY <2>1, SaysKeeps
  <2>2. CASE Proposes
    BY <2>2, ProposesKeeps
  <2>3. CASE AsksType
    BY <2>3, AsksTypeKeeps
  <2>4. CASE Commands
    BY <2>4, CommandsKeeps
  <2> QED
    BY <1>7, <2>1, <2>2, <2>3, <2>4, Zenon DEF HostActs
<1>8. CASE Completed
  BY <1>8, CompletedKeeps
<1>9. CASE UNCHANGED vars
  BY <1>9, Stutters
<1> QED
  BY <1>1, <1>2, <1>3, <1>4, <1>5, <1>6, <1>7, <1>8, <1>9, Zenon DEF Next

\* The inductive invariant: whatever the host offers, withdraws, asks and says, wherever its
\* frames are cut, and whenever the user types, resizes and closes, the bytes on their way in
\* each direction are the rest of the text and the commands that both ends go by.
THEOREM Invariance ==
  ASSUME SizesWithoutIAC
  PROVE  Spec => []IInv
<1>1. Init => IInv
  BY BeginsWell
<1>2. IInv /\ [Next]_vars => IInv'
  BY StepKeeps
<1> QED
  BY <1>1, <1>2, PTL DEF Spec

\* A text that begins with another has it as a prefix.
LEMMA BeginsIsPrefix ==
  ASSUME NEW s \in Seq(Nat), NEW t \in Seq(Nat), Begins(s, t)
  PROVE  IsPrefix(s, t)
<1>1. PICK more \in Seq(Nat) : t = s \o more
  BY DEF Begins
<1>2. /\ Len(s) \in Nat /\ Len(more) \in Nat /\ Len(t) = Len(s) + Len(more)
      /\ \A i \in 1 .. Len(s) : t[i] = s[i] /\ s[i] \in Nat
  BY <1>1, ConcatProperties, LenProperties, ElementOfSeq
<1>3. Len(s) <= Len(t)
  BY <1>2
<1>4. SubSeq(s, 1, Len(s)) = s
  BY SubSeqFull
<1>5. SubSeq(t, 1, Len(s)) = s
  <2>1. PICK n \in Nat : n = Len(s)
    BY <1>2
  <2>2. \A i \in 1 .. n : t[i] \in Nat
    BY <1>2, <2>1
  <2>3. PICK u : u = SubSeq(t, 1, n)
    OBVIOUS
  <2>4. u \in Seq(Nat) /\ Len(u) = n /\ \A i \in 1 .. n : u[i] = t[i]
    <3>1. 1 \in Int /\ n \in Int /\ n - 1 + 1 = n
      OBVIOUS
    <3>2. /\ SubSeq(t, 1, n) \in Seq(Nat) /\ Len(SubSeq(t, 1, n)) = (IF 1 <= n THEN n - 1 + 1 ELSE 0)
          /\ \A i \in 1 .. n - 1 + 1 : SubSeq(t, 1, n)[i] = t[1 + i - 1]
      BY <2>2, <3>1, SubSeqProperties
    <3>3. (IF 1 <= n THEN n - 1 + 1 ELSE 0) = n /\ \A i \in 1 .. n : 1 + i - 1 = i
      OBVIOUS
    <3> QED
      BY <2>3, <3>1, <3>2, <3>3
  <2>5. \A i \in 1 .. Len(u) : u[i] = s[i]
    BY <1>2, <2>1, <2>4
  <2>6. u = s
    BY <2>1, <2>4, <2>5, SeqEqual
  <2> QED
    BY <2>1, <2>3, <2>6
<1> QED
  BY <1>3, <1>4, <1>5 DEF IsPrefix

\* Text is text and commands are commands, in both directions, for any text, any options,
\* and any cut of the frames, as long as no size that is reported has IAC in it.
THEOREM TextIsText ==
  ASSUME SizesWithoutIAC
  PROVE  Spec => []TextKeepsItsMeaning
<1>1. IInv => TextKeepsItsMeaning
  <2>1. ASSUME IInv
        PROVE  TextKeepsItsMeaning
    <3>1. /\ shown \in Seq(Nat) /\ said \in Seq(Nat) /\ typed \in Seq(Nat) /\ remote.text \in Seq(Nat)
          /\ Begins(shown, said) /\ Begins(remote.text, typed)
      BY <2>1, Zenon DEF IInv, Types, Texts, IsHost
    <3> QED
      BY <3>1, BeginsIsPrefix DEF TextKeepsItsMeaning
  <2> QED
    BY <2>1
<1> QED
  BY <1>1, Invariance, PTL

\* With nothing on its way an option is enabled at both ends or at none.
LEMMA HandshakeSettled ==
  ASSUME NEW e, e = <<>>, NEW st, NEW on, NEW x, NEW a, NEW b, NEW c, NEW d, Handshake(st, on, e, e, x, a, b, c, d)
  PROVE  (st = "no" /\ ~on) \/ (st = "yes" /\ on)
<1>1. \A y : ~Only(e, x, y)
  BY DEF Only, Has
<1> QED
  BY <1>1, Zenon DEF Handshake

\* So the two ends agree when there is nothing more to come: nobody waits, and one side echoes.
LEMMA AgreementSettled ==
  ASSUME NEW e, e = <<>>, NEW us, NEW him, NEW k \in BOOLEAN, NEW g, NEW n, NEW l,
         Agreement(us, him, k, g, n, l, e, e)
  PROVE  (\A o \in Options : us[o] # "wantyes" /\ him[o] # "wantyes") /\ l = (us[Echo] = "no")
<1>1. \A y : ~Has(e, y)
  BY DEF Has
<1>2. "no" # "wantyes" /\ "yes" # "wantyes" /\ "no" # "yes"
  OBVIOUS
<1>3. \A o \in Options \ {Echo, SuppressGoAhead} : us[o] # "wantyes" /\ him[o] # "wantyes"
  BY <1>1, Zenon DEF Agreement, Waits
<1>4. Handshake(us[Echo], k, e, e, Echo, WILL, WONT, DO, DONT) /\ him[Echo] = "no" /\ l = ~k
  BY Zenon DEF Agreement, Echoes, ByHost
<1>5. (us[Echo] = "no" /\ ~k) \/ (us[Echo] = "yes" /\ k)
  BY <1>4, HandshakeSettled
<1>6. us[Echo] # "wantyes" /\ him[Echo] # "wantyes"
  BY <1>2, <1>4, <1>5, Zenon
<1>7. l = (us[Echo] = "no")
  BY <1>4, <1>5
<1>8. us[SuppressGoAhead] # "wantyes" /\ him[SuppressGoAhead] # "wantyes"
  <2>1. CASE SuppressGoAhead \in ClientOptions
    <3>1. Handshake(him[SuppressGoAhead], g, e, e, SuppressGoAhead, DO, DONT, WILL, WONT)
          /\ us[SuppressGoAhead] = "no"
      BY <2>1, Zenon DEF Agreement, GoesAhead, ByBrowser
    <3>2. him[SuppressGoAhead] = "no" \/ him[SuppressGoAhead] = "yes"
      BY <3>1, HandshakeSettled
    <3> QED
      BY <1>2, <3>1, <3>2, Zenon
  <2>2. CASE SuppressGoAhead \notin ClientOptions
    <3>1. Handshake(us[SuppressGoAhead], g, e, e, SuppressGoAhead, WILL, WONT, DO, DONT)
          /\ him[SuppressGoAhead] = "no"
      BY <2>2, Zenon DEF Agreement, GoesAhead, ByHost
    <3>2. us[SuppressGoAhead] = "no" \/ us[SuppressGoAhead] = "yes"
      BY <3>1, HandshakeSettled
    <3> QED
      BY <1>2, <3>1, <3>2, Zenon
  <2> QED
    BY <2>1, <2>2
<1> QED
  BY <1>3, <1>6, <1>7, <1>8, Zenon

\* When nothing is under way, no offer of the host has remained without an answer, and exactly
\* one of the two sides echoes what is typed, whatever options the host offers, asks for and
\* withdraws: as long as it does each of them on one side only and does not withdraw the size.
THEOREM NegotiationEnds ==
  ASSUME SizesWithoutIAC, OptionsOfOneSide
  PROVE  Spec => []NegotiationSettles
<1>1. ASSUME IInv, Quiet
      PROVE  /\ \A o \in Options : "wantyes" \notin {remote.us[o], remote.him[o]}
             /\ parser.localEcho = (remote.us[Echo] = "no")
  <2>1. toBrowser = <<>> /\ toRemote = <<>> /\ ~senderClosed
    BY <1>1, Zenon DEF Quiet
  <2>2. PICK nb, nr : ToHost(nr) /\ ToTerminal(nb) /\ Agreed(nb, nr)
    BY <1>1 DEF IInv
  <2>3. /\ ~closed /\ shown \in Seq(Nat) /\ IsParser(parser) /\ IsHost(remote)
        /\ nr \in Seq(Nego2) /\ nb \in Seq(Nego2)
    BY <1>1, <2>1, <2>2, Zenon DEF IInv, Types, ToHost, ToTerminal
  <2>4. /\ remote.mode \in Modes /\ remote.cmd \in Nat /\ remote.text \in Seq(Nat)
        /\ parser.mode \in Modes \cup {"dead"} /\ parser.cmd \in Nat /\ parser.echoEnabled \in BOOLEAN
    BY <2>3, Zenon DEF IsParser, IsHost
  <2>5. PICK yes, no, e : yes = TRUE /\ no = FALSE /\ e = <<>>
    OBVIOUS
  <2>6. yes \in BOOLEAN /\ no \in BOOLEAN
    BY <2>5
  <2>7. nr = e
    <3>1. PICK md, cd, tx : md = remote.mode /\ cd = remote.cmd /\ tx = remote.text
      OBVIOUS
    <3>2. Ahead(no, toRemote, md, cd, tx, typed, nr)
      BY <2>2, <2>3, <2>5, <3>1, Zenon DEF ToHost
    <3>3. md \in Modes /\ cd \in Nat /\ tx \in Seq(Nat)
      BY <2>4, <3>1, Zenon
    <3> QED
      BY <2>1, <2>3, <2>5, <2>6, <3>2, <3>3, NothingComes
  <2>8. nb = e
    <3>1. CASE Dead
      BY <2>2, <2>5, <3>1, Zenon DEF ToTerminal
    <3>2. CASE ~Dead
      <4>1. PICK md, cd : md = parser.mode /\ cd = parser.cmd
        OBVIOUS
      <4>2. Ahead(yes, toBrowser, md, cd, shown, said, nb)
        BY <2>1, <2>2, <2>5, <3>2, <4>1, Zenon DEF ToTerminal, Listening
      <4>3. md \in Modes /\ cd \in Nat
        BY <2>4, <3>2, <4>1, Zenon DEF Dead
      <4> QED
        BY <2>1, <2>3, <2>5, <2>6, <4>2, <4>3, NothingComes
    <3> QED
      BY <3>1, <3>2
  <2>9. PICK us, him, k, g, n, l : us = remote.us /\ him = remote.him /\ k = parser.echoEnabled
          /\ g = parser.suppressGoAhead /\ n = parser.nawsAccepted /\ l = parser.localEcho
    OBVIOUS
  <2>10. Agreement(us, him, k, g, n, l, e, e)
    BY <2>1, <2>2, <2>7, <2>8, <2>9, Zenon DEF Agreed, Live
  <2>11. k \in BOOLEAN
    BY <2>4, <2>9, Zenon
  <2>12. (\A o \in Options : us[o] # "wantyes" /\ him[o] # "wantyes") /\ l = (us[Echo] = "no")
    BY <2>5, <2>10, <2>11, AgreementSettled
  <2> QED
    BY <2>9, <2>12, Zenon
<1>2. IInv => NegotiationSettles
  BY <1>1, Zenon DEF NegotiationSettles
<1> QED
  BY <1>2, Invariance, PTL
=============================================================================
