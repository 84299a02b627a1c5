---------------------------- MODULE DisplaysProofs ----------------------------
(***************************************************************************)
(* Proofs about Displays: the parser prints and hands over what the host   *)
(* meant, wherever its output is cut; a timed scenario of the reference    *)
(* application never stalls and its pages are true; the emulator stays     *)
(* inside of its buffers, tells of every change of the screen and cuts     *)
(* wide characters only when it erases.                                    *)
(***************************************************************************)
EXTENDS Displays, Loops

-----------------------------------------------------------------------------
(* The parser.                                                             *)

States == {"ground", "escape", "utf8"} \cup Parser!Strings
PlacesOfHost == {"text", "opening", "closing"} \cup Parser!Strings
Disguised == Parser!Bytes \cup {"FE"}
Text == Seq(Disguised)
Handovers == Seq([kind : Parser!Strings, data : Text])

ParserType == [state : States, data : Text]
HostType ==
  [in : PlacesOfHost, more : 0..3, data : Text, text : Text, strings : Handovers, sent : Nat]

ParserTypes ==
  /\ parser \in ParserType
  /\ continuation \in 0..3
  /\ printed \in Text
  /\ host \in HostType

(* Outside of strings the library follows the host, but for a character    *)
(* that is printed when it is complete.                                    *)
FollowsText ==
  /\ host.in \notin Parser!Strings => continuation = 0 /\ host.data = <<>>
  /\ host.in \in {"opening", "closing"} =>
       host.more = 0 /\ parser.state = "escape" /\ printed = host.text
  /\ host.in = "text" /\ host.more = 0 =>
       parser.state = "ground" /\ printed = host.text
  /\ host.in = "text" /\ host.more > 0 =>
       /\ parser.state = "utf8" /\ Len(parser.data) >= 1 /\ parser.data[1] \in Parser!Leads
       /\ Len(parser.data) + host.more = Parser!Length(parser.data[1]) + 1
       /\ host.text = printed \o parser.data

(* Inside of a string Parser.continuation counts what the character still  *)
(* lacks, and the library collects the disguised bytes.                    *)
FollowsStrings ==
  host.in \in Parser!Strings =>
    /\ parser.state = host.in /\ continuation = host.more /\ printed = host.text
    /\ host.in \in Parser!Delivered => Parser!RestorePlaceholders(parser.data) = host.data

ParserIInv == /\ ParserTypes /\ FollowsText /\ FollowsStrings
              /\ Parser!StringsAreDelivered

(* The names of bytes differ (parsing/parser.go:118-149).                  *)
LEMMA ByteNames ==
  /\ Parser!Leads = {"L2", "L3", "L4"} /\ Parser!Continuations = {"K", "ST"}
  /\ Parser!Strings = {"OSC", "DCS", "SOS"} /\ Parser!Delivered = {"OSC", "DCS"}
  /\ Parser!Bytes = {"A", "BEL", "ESC", "\\", "L2", "L3", "L4", "K", "ST", "OSC", "DCS", "SOS"}
  /\ \A b \in Parser!Leads : Parser!Length(b) \in 1..3
BY DEF Parser!Leads, Parser!Continuations, Parser!Strings, Parser!Delivered, Parser!Bytes,
       Parser!Length

(* The library outside of strings (parsing/parser.go:57-102).              *)
LEMMA AdvanceText ==
  ASSUME NEW b, Parser!Advance(b)
  PROVE  /\ parser.state = "ground" /\ b = "A" =>
              /\ parser' = Parser!Shift("ground", <<>>)
              /\ printed' = Append(printed, b) /\ delivered' = delivered
         /\ parser.state = "ground" /\ b \in Parser!Leads =>
              /\ parser' = Parser!Shift("utf8", <<b>>)
              /\ printed' = printed /\ delivered' = delivered
         /\ parser.state = "ground" /\ b = "ESC" =>
              /\ parser' = Parser!Shift("escape", <<>>)
              /\ printed' = printed /\ delivered' = delivered
         /\ parser.state = "escape" /\ b \in Parser!Strings =>
              /\ parser' = Parser!Shift(b, <<>>)
              /\ printed' = printed /\ delivered' = delivered
         /\ parser.state = "escape" /\ b = "\\" =>
              /\ parser' = Parser!Shift("ground", <<>>)
              /\ printed' = printed /\ delivered' = delivered
BY ByteNames DEF Parser!Advance, Parser!Shift

(* The library inside of a character (parsing/parser.go:57-102).           *)
LEMMA AdvanceCharacter ==
  ASSUME NEW b, Parser!Advance(b), ParserTypes, parser.state = "utf8"
  PROVE  /\ Len(parser.data) < Parser!Length(parser.data[1]) =>
              /\ parser' = Parser!Shift("utf8", Append(parser.data, b))
              /\ printed' = printed /\ delivered' = delivered
         /\ ~(Len(parser.data) < Parser!Length(parser.data[1])) =>
              /\ parser' = Parser!Shift("ground", <<>>)
              /\ printed' = printed \o Append(parser.data, b) /\ delivered' = delivered
BY ByteNames DEF Parser!Advance, Parser!Shift

(* The library inside of a string (parsing/parser.go:57-102).              *)
LEMMA AdvanceString ==
  ASSUME NEW b, Parser!Advance(b), ParserTypes, parser.state \in Parser!Strings
  PROVE  /\ printed' = printed
         /\ ~Parser!Ends(parser.state, b) =>
              /\ parser' = Parser!Shift(parser.state, Append(parser.data, b))
              /\ delivered' = delivered
         /\ Parser!Ends(parser.state, b) =>
              /\ parser' = IF b = "ESC" THEN Parser!Shift("escape", <<>>)
                           ELSE Parser!Shift("ground", <<>>)
              /\ delivered' = Append(delivered, Parser!Handed(parser.state, parser.data))
<1>0. parser.state \notin {"ground", "utf8", "escape"}
  BY ByteNames
<1>1. printed' = printed
  BY <1>0 DEF Parser!Advance
<1>2. delivered' = IF Parser!Ends(parser.state, b)
                   THEN Append(delivered, Parser!Handed(parser.state, parser.data))
                   ELSE delivered
  BY DEF Parser!Advance
<1>e. b = "ESC" => Parser!Ends(parser.state, b)
  BY ByteNames DEF Parser!Ends
<1>3. parser' = IF ~Parser!Ends(parser.state, b)
                THEN Parser!Shift(parser.state, Append(parser.data, b))
                ELSE IF b = "ESC" THEN Parser!Shift("escape", <<>>)
                ELSE Parser!Shift("ground", <<>>)
  <2>1. CASE ~Parser!Ends(parser.state, b)
    BY <1>0, <1>e, <2>1 DEF Parser!Advance
  <2>2. CASE Parser!Ends(parser.state, b)
    BY <1>0, <2>2 DEF Parser!Advance
  <2> QED
    BY <2>1, <2>2
<1> QED
  BY <1>1, <1>2, <1>3

(* A state of the library is of its type (parsing/parser.go:57-102).       *)
LEMMA Shifted ==
  ASSUME NEW state \in States, NEW data \in Text
  PROVE  /\ Parser!Shift(state, data) \in ParserType
         /\ Parser!Shift(state, data).state = state /\ Parser!Shift(state, data).data = data
BY DEF Parser!Shift, ParserType

(* Text and its placeholders (parsing/parser.go:118-156).                  *)
LEMMA TextRestored ==
  ASSUME NEW data \in Seq(Disguised), NEW b \in Disguised
  PROVE  /\ Parser!RestorePlaceholders(data) \in Seq(Disguised)
         /\ Parser!RestorePlaceholders(Append(data, b)) =
              Append(Parser!RestorePlaceholders(data), IF b = "FE" THEN "ST" ELSE b)
<1> DEFINE R(s) == Parser!RestorePlaceholders(s)
           r == IF b = "FE" THEN "ST" ELSE b
<1>0. "ST" \in Disguised /\ r \in Disguised
  BY ByteNames DEF Disguised
<1>1. \A s \in Seq(Disguised) :
        /\ R(s) \in Seq(Disguised) /\ Len(R(s)) = Len(s)
        /\ \A i \in 1..Len(s) : R(s)[i] = IF s[i] = "FE" THEN "ST" ELSE s[i]
  BY <1>0 DEF Parser!RestorePlaceholders
<1>2. Append(data, b) \in Seq(Disguised)
  OBVIOUS
<1>3. /\ Append(R(data), r) \in Seq(Disguised)
      /\ Len(Append(R(data), r)) = Len(R(data)) + 1
      /\ \A i \in 1..(Len(R(data)) + 1) :
           Append(R(data), r)[i] = IF i <= Len(R(data)) THEN R(data)[i] ELSE r
  <2>1. R(data) \in Seq(Disguised)
    BY <1>1
  <2> HIDE DEF R, r
  <2> QED
    BY <1>0, <2>1
<1>4. /\ Len(Append(data, b)) = Len(data) + 1
      /\ \A i \in 1..(Len(data) + 1) :
           Append(data, b)[i] = IF i <= Len(data) THEN data[i] ELSE b
  OBVIOUS
<1>5. R(Append(data, b)) = Append(R(data), r)
  <2>1. Len(R(Append(data, b))) = Len(Append(R(data), r))
    BY <1>1, <1>2, <1>3, <1>4
  <2>2. ASSUME NEW i \in 1..(Len(data) + 1)
        PROVE  R(Append(data, b))[i] = Append(R(data), r)[i]
    <3> HIDE DEF R
    <3>1. R(Append(data, b))[i] = IF Append(data, b)[i] = "FE" THEN "ST" ELSE Append(data, b)[i]
      BY <1>1, <1>2, <1>4
    <3>2. Append(R(data), r)[i] = IF i <= Len(data) THEN R(data)[i] ELSE r
      <4> HIDE DEF r
      <4> QED
        BY <1>1, <1>3
    <3>3. i <= Len(data) => R(data)[i] = IF data[i] = "FE" THEN "ST" ELSE data[i]
      BY <1>1
    <3>4. Append(data, b)[i] = IF i <= Len(data) THEN data[i] ELSE b
      BY <1>4
    <3> QED
      BY <3>1, <3>2, <3>3, <3>4
  <2>3. R(Append(data, b)) \in Seq(Disguised) /\ Append(R(data), r) \in Seq(Disguised)
    BY <1>1, <1>2, <1>3
  <2>4. Len(R(Append(data, b))) = Len(data) + 1
    BY <1>1, <1>2, <1>4
  <2> HIDE DEF R, r
  <2> QED
    BY <2>1, <2>2, <2>3, <2>4, SeqEqual
<1> HIDE DEF R, r
<1>6. R(data) \in Seq(Disguised) /\ R(Append(data, b)) = Append(R(data), r)
  BY <1>1, <1>5
<1> QED
  BY <1>6 DEF R, r

(* Three sequences, and what their concatenations have in common.           *)
Regroups(s, t, u) == (s \o t) \o u = s \o (t \o u)

LEMMA ConcatThree ==
  ASSUME NEW s \in Seq(Disguised), NEW t \in Seq(Disguised), NEW u \in Seq(Disguised)
  PROVE  Regroups(s, t, u)
BY ConcatAssociative DEF Regroups

(* Appending is concatenation (parsing/parser.go:106-111).                 *)
LEMMA AppendConcat ==
  ASSUME NEW S, NEW s \in Seq(S), NEW b \in S
  PROVE  Append(s, b) = s \o <<b>>
<1>1. /\ Append(s, b) \in Seq(S) /\ Len(Append(s, b)) = Len(s) + 1
      /\ \A i \in 1..(Len(s) + 1) : Append(s, b)[i] = IF i <= Len(s) THEN s[i] ELSE b
  OBVIOUS
<1>2. <<b>> \in Seq(S) /\ Len(<<b>>) = 1 /\ <<b>>[1] = b
  OBVIOUS
<1>3. /\ s \o <<b>> \in Seq(S) /\ Len(s \o <<b>>) = Len(s) + 1
      /\ \A i \in 1..(Len(s) + 1) : (s \o <<b>>)[i] = IF i <= Len(s) THEN s[i] ELSE b
  <2> DEFINE u == <<b>>
  <2>1. u \in Seq(S) /\ Len(u) = 1 /\ u[1] = b
    BY <1>2
  <2> HIDE DEF u
  <2>2. /\ s \o u \in Seq(S) /\ Len(s \o u) = Len(s) + 1
        /\ \A i \in 1..(Len(s) + 1) : (s \o u)[i] = IF i <= Len(s) THEN s[i] ELSE u[i - Len(s)]
    BY <2>1, ConcatProperties
  <2>3. \A i \in 1..(Len(s) + 1) : (s \o u)[i] = IF i <= Len(s) THEN s[i] ELSE b
    <3>1. Len(s) \in Nat
      OBVIOUS
    <3>2. \A i \in 1..(Len(s) + 1) : ~(i <= Len(s)) => i - Len(s) = 1
      BY <3>1
    <3> QED
      BY <2>1, <2>2, <3>2
  <2> QED
    BY <2>2, <2>3 DEF u
<1> QED
  BY <1>1, <1>3, SeqEqual

(* The host sends text (parsing/parser.go:106-111).                        *)
HostWith(h, n, m, t, d) == [h EXCEPT !.sent = n, !.more = m, !.text = t, !.data = d]
LEMMA HostSends ==
  ASSUME NEW h, NEW n, NEW m, NEW t, NEW d,
         h \in HostType, n \in Nat, m \in 0..3, t \in Text, d \in Text
  PROVE  LET k == HostWith(h, n, m, t, d)
         IN  /\ k \in HostType /\ k.in = h.in /\ k.strings = h.strings
             /\ k.more = m /\ k.text = t /\ k.data = d
BY DEF HostType, HostWith

(* The host goes on with its text (parsing/parser.go:106-111).             *)
LEMMA HostGoesOn ==
  ASSUME ParserTypes, NEW b \in Parser!Bytes, Parser!HostText(b)
  PROVE  /\ host' \in HostType /\ host'.in = host.in /\ host'.strings = host.strings
         /\ host.in \in {"text"} \cup Parser!Strings
         /\ host.more > 0 => b \in Parser!Continuations /\ host'.more = host.more - 1
         /\ host.more = 0 => \/ (b = "A" /\ host'.more = 0)
                             \/ (b \in Parser!Leads /\ host'.more = Parser!Length(b))
         /\ host.in = "text" => host'.text = Append(host.text, b) /\ host'.data = host.data
         /\ host.in \in Parser!Strings =>
              host'.data = Append(host.data, b) /\ host'.text = host.text
<1> DEFINE more == IF host.more > 0 THEN host.more - 1 ELSE IF b = "A" THEN 0 ELSE Parser!Length(b)
           text == IF host.in = "text" THEN Append(host.text, b) ELSE host.text
           data == IF host.in \in Parser!Strings THEN Append(host.data, b) ELSE host.data
<1>1. /\ host.more > 0 => b \in Parser!Continuations
      /\ ~(host.more > 0) => b \in {"A"} \cup Parser!Leads
      /\ host.in \in {"text"} \cup Parser!Strings
      /\ host' = HostWith(host, host.sent + 1, more, text, data)
  BY DEF Parser!HostText, HostWith
<1>2. /\ host.more \in 0..3 /\ host.text \in Seq(Disguised) /\ host.data \in Seq(Disguised)
      /\ host.sent \in Nat /\ b \in Disguised
  BY DEF ParserTypes, HostType, Disguised, Text
<1>n. host.sent + 1 \in Nat /\ host \in HostType
  BY <1>2 DEF ParserTypes
<1>3. more \in 0..3
  BY <1>1, <1>2, ByteNames
<1>4. text \in Text /\ data \in Text
  BY <1>2 DEF Text
<1> HIDE DEF more, text, data
<1>5. /\ host' \in HostType /\ host'.in = host.in /\ host'.strings = host.strings
      /\ host'.more = more /\ host'.text = text /\ host'.data = data
  BY <1>1, <1>n, <1>3, <1>4, HostSends
<1>6. "text" \notin Parser!Strings /\ "A" \notin Parser!Leads
  BY ByteNames
<1>7. host.more > 0 \/ host.more = 0
  BY <1>2
<1>8. host.more > 0 => ~(host.more = 0) /\ more = host.more - 1
  BY <1>2 DEF more
<1>9. host.more = 0 => \/ (b = "A" /\ more = 0)
                      \/ (b \in Parser!Leads /\ more = Parser!Length(b))
  BY <1>1, <1>2, <1>6 DEF more
<1>10. /\ host.in = "text" => text = Append(host.text, b) /\ data = host.data
       /\ host.in \in Parser!Strings => data = Append(host.data, b) /\ text = host.text
  BY <1>6 DEF text, data
<1> QED
  BY <1>1, <1>5, <1>8, <1>9, <1>10

(* Text outside of strings is printed (parsing/parser.go:106-149).         *)
LEMMA TextStep ==
  ASSUME ParserIInv, NEW b \in Parser!Bytes, Parser!HostText(b), Parser!Write(b), host.in = "text"
  PROVE  ParserIInv'
<1>0. /\ ParserTypes /\ FollowsText /\ delivered = host.strings
      /\ b \in Disguised /\ "text" \notin Parser!Strings /\ Parser!Length("L2") = 1
      /\ parser.data \in Seq(Disguised) /\ printed \in Seq(Disguised)
      /\ host.text \in Seq(Disguised)
      /\ host.more \in 0..3 /\ parser.state \in States
  BY ByteNames DEF ParserIInv, ParserTypes, ParserType, HostType, Disguised, Text,
                   Parser!StringsAreDelivered, Parser!Length
<1>1. /\ host' \in HostType /\ host'.in = "text" /\ host'.strings = host.strings
      /\ host'.text = Append(host.text, b) /\ host'.data = <<>>
  BY <1>0, HostGoesOn DEF FollowsText
<1>2. parser.state \in {"ground", "utf8"} /\ parser.state \notin Parser!Strings
  BY <1>0, ByteNames DEF FollowsText
<1>3. Parser!Protected(b) = b /\ continuation' = 0 /\ Parser!Advance(b)
  BY <1>2 DEF Parser!Write, Parser!Protected, Parser!ContinuationAfter
<1>p. ASSUME NEW state \in States, NEW data \in Text, NEW t \in Text,
             parser' = Parser!Shift(state, data), printed' = t, delivered' = delivered,
             \/ host'.more = 0 /\ state = "ground" /\ t = Append(host.text, b)
             \/ /\ host'.more > 0 /\ state = "utf8" /\ Len(data) >= 1 /\ data[1] \in Parser!Leads
                /\ Len(data) + host'.more = Parser!Length(data[1]) + 1
                /\ Append(host.text, b) = t \o data
      PROVE  ParserIInv'
  <2>1. /\ parser' \in ParserType /\ parser'.state = state /\ parser'.data = data
    BY <1>p, Shifted
  <2>2. ParserTypes'
    BY <1>1, <1>3, <1>p, <2>1 DEF ParserTypes
  <2>3. FollowsText'
    <3>1. host'.more = 0 => parser'.state = "ground" /\ printed' = host'.text
      BY <1>1, <1>p, <2>1
    <3>2. host'.more > 0 =>
            /\ parser'.state = "utf8" /\ Len(parser'.data) >= 1
            /\ parser'.data[1] \in Parser!Leads
            /\ Len(parser'.data) + host'.more = Parser!Length(parser'.data[1]) + 1
            /\ host'.text = printed' \o parser'.data
      <4>1. host'.more > 0 => ~(host'.more = 0)
        OBVIOUS
      <4>2. ASSUME host'.more > 0
            PROVE  /\ state = "utf8" /\ Len(data) >= 1 /\ data[1] \in Parser!Leads
                   /\ Len(data) + host'.more = Parser!Length(data[1]) + 1
                   /\ Append(host.text, b) = t \o data
        BY <1>p, <4>1, <4>2
      <4> QED
        BY <1>1, <1>p, <2>1, <4>2
    <3> QED
      BY <1>0, <1>1, <1>3, <3>1, <3>2 DEF FollowsText
  <2>4. FollowsStrings'
    BY <1>0, <1>1 DEF FollowsStrings
  <2> QED
    BY <1>0, <1>1, <1>p, <2>2, <2>3, <2>4 DEF ParserIInv, Parser!StringsAreDelivered
<1>g. "ground" \in States /\ "utf8" \in States /\ <<>> \in Text /\ Text = Seq(Disguised)
  BY DEF States, Text
<1>4. CASE host.more = 0
  <2>1. parser.state = "ground" /\ printed = host.text
    BY <1>0, <1>4 DEF FollowsText
  <2>2. CASE b = "A" /\ host'.more = 0
    <3>1. /\ parser' = Parser!Shift("ground", <<>>)
          /\ printed' = Append(printed, b) /\ delivered' = delivered
      BY <1>3, <2>1, <2>2, AdvanceText
    <3>2. Append(printed, b) \in Seq(Disguised)
      BY <1>0
    <3> QED
      BY <1>g, <1>p, <2>1, <2>2, <3>1, <3>2
  <2>3. CASE b \in Parser!Leads /\ host'.more = Parser!Length(b)
    <3>1. /\ parser' = Parser!Shift("utf8", <<b>>) /\ printed' = printed /\ delivered' = delivered
      BY <1>3, <2>1, <2>3, AdvanceText
    <3>2. /\ <<b>> \in Seq(Disguised) /\ Len(<<b>>) = 1 /\ <<b>>[1] = b
      BY <1>0
    <3>3. Append(host.text, b) = printed \o <<b>>
      BY <1>0, <2>1, AppendConcat
    <3>4. host'.more > 0 /\ 1 + host'.more = Parser!Length(b) + 1
      BY <2>3, ByteNames
    <3> QED
      <4> DEFINE d == <<b>>
      <4>1. /\ d \in Text /\ Len(d) >= 1 /\ d[1] \in Parser!Leads
            /\ Len(d) + host'.more = Parser!Length(d[1]) + 1 /\ Append(host.text, b) = printed' \o d
            /\ parser' = Parser!Shift("utf8", d)
        BY <1>g, <2>3, <3>1, <3>2, <3>3, <3>4
      <4> HIDE DEF d
      <4>2. printed' \in Text
        BY <1>0, <1>g, <3>1
      <4> QED
        BY <1>g, <1>p, <3>1, <3>4, <4>1, <4>2
  <2> QED
    BY <1>0, <1>4, <2>2, <2>3, HostGoesOn
<1>5. CASE host.more > 0
  <2>1. /\ parser.state = "utf8" /\ Len(parser.data) >= 1 /\ parser.data[1] \in Parser!Leads
        /\ Len(parser.data) + host.more = Parser!Length(parser.data[1]) + 1
        /\ host.text = printed \o parser.data /\ host'.more = host.more - 1
        /\ Parser!Length(parser.data[1]) \in 1..3
    BY <1>0, <1>5, HostGoesOn, ByteNames DEF FollowsText
  <2>2. PICK d \in Seq(Disguised) :
          /\ d = Append(parser.data, b) /\ Len(d) = Len(parser.data) + 1
          /\ d[1] = parser.data[1]
    <3>1. /\ Append(parser.data, b) \in Seq(Disguised)
          /\ Len(Append(parser.data, b)) = Len(parser.data) + 1
          /\ Append(parser.data, b)[1] = parser.data[1]
      BY <1>0, <2>1
    <3> QED
      BY <3>1
  <2>3. PICK t \in Seq(Disguised) : t = printed \o d
    BY <1>0, ConcatProperties
  <2>4. Append(host.text, b) = t
    <3>0. <<b>> \in Seq(Disguised)
      BY <1>0
    <3>1. PICK u \in Seq(Disguised), p \in Seq(Disguised), q \in Seq(Disguised),
               w \in Seq(Disguised) :
             u = <<b>> /\ p = printed /\ q = parser.data /\ w = host.text
      BY <1>0, <3>0
    <3>2. Append(w, b) = w \o u
      BY <1>0, <3>1, AppendConcat
    <3>3. Append(q, b) = q \o u
      BY <1>0, <3>1, AppendConcat
    <3>4. (p \o q) \o u = p \o (q \o u)
      <4>1. Regroups(p, q, u)
        BY ONLY ConcatThree, p \in Seq(Disguised), q \in Seq(Disguised), u \in Seq(Disguised)
      <4> QED
        BY ONLY <4>1 DEF Regroups
    <3>5. w = p \o q /\ t = p \o Append(q, b)
      BY <2>1, <2>2, <2>3, <3>1
    <3> QED
      BY <3>1, <3>2, <3>3, <3>4, <3>5
  <2>l. Len(parser.data) \in Nat
    BY <1>0
  <2>5. CASE Len(parser.data) < Parser!Length(parser.data[1])
    <3>1. /\ parser' = Parser!Shift("utf8", d) /\ printed' = printed /\ delivered' = delivered
      BY <1>0, <1>3, <2>1, <2>2, <2>5, AdvanceCharacter
    <3>2. host'.more > 0 /\ Len(d) >= 1 /\ Len(d) + host'.more = Parser!Length(d[1]) + 1
      BY <1>0, <2>1, <2>2, <2>5, <2>l
    <3> QED
      BY <1>0, <1>g, <1>p, <2>1, <2>2, <2>3, <2>4, <3>1, <3>2
  <2>6. CASE ~(Len(parser.data) < Parser!Length(parser.data[1]))
    <3>1. /\ parser' = Parser!Shift("ground", <<>>) /\ printed' = t /\ delivered' = delivered
      <4>1. printed \o Append(parser.data, b) = t
        BY <2>2, <2>3
      <4>2. /\ parser' = Parser!Shift("ground", <<>>) /\ delivered' = delivered
            /\ printed' = printed \o Append(parser.data, b)
        BY <1>0, <1>3, <2>1, <2>6, AdvanceCharacter
      <4> QED
        BY <4>1, <4>2
    <3>2. host'.more = 0
      BY <1>0, <1>5, <2>1, <2>6, <2>l, SMTT(40)
    <3> QED
      BY <1>g, <1>p, <2>4, <3>1, <3>2
  <2> QED
    BY <2>5, <2>6
<1> QED
  BY <1>0, <1>4, <1>5

(* Text inside of a string is disguised and collected                      *)
(* (parsing/parser.go:113-156).                                            *)
LEMMA StringStep ==
  ASSUME ParserIInv, NEW b \in Parser!Bytes, Parser!HostText(b), Parser!Write(b),
         host.in \in Parser!Strings
  PROVE  ParserIInv'
<1>0. /\ ParserTypes /\ delivered = host.strings /\ b \in Disguised
      /\ parser.data \in Seq(Disguised) /\ host.data \in Seq(Disguised)
      /\ host.more \in 0..3 /\ continuation = host.more /\ parser.state = host.in
      /\ printed = host.text /\ host.in \notin {"text", "opening", "closing"}
      /\ host.in \in Parser!Delivered => Parser!RestorePlaceholders(parser.data) = host.data
  BY ByteNames DEF ParserIInv, ParserTypes, ParserType, HostType, Disguised, Text,
                   FollowsStrings, Parser!StringsAreDelivered
<1>1. /\ host' \in HostType /\ host'.in = host.in /\ host'.strings = host.strings
      /\ host'.text = host.text /\ host'.data = Append(host.data, b)
      /\ host.more > 0 => b \in Parser!Continuations /\ host'.more = host.more - 1
      /\ host.more = 0 => \/ (b = "A" /\ host'.more = 0)
                          \/ (b \in Parser!Leads /\ host'.more = Parser!Length(b))
  BY <1>0, HostGoesOn
<1>2. continuation' = host'.more /\ continuation' \in 0..3
  <2>1. continuation' = CASE continuation > 0 /\ b \in Parser!Continuations -> continuation - 1
                          [] b \in Parser!Leads -> Parser!Length(b)
                          [] OTHER -> 0
    BY <1>0 DEF Parser!Write, Parser!ContinuationAfter
  <2>2. CASE host.more > 0
    <3>1. b \notin Parser!Leads
      BY <1>1, <2>2, ByteNames
    <3> QED
      BY <1>0, <1>1, <2>1, <2>2, <3>1
  <2>3. CASE host.more = 0
    BY <1>0, <1>1, <2>1, <2>3, ByteNames
  <2> QED
    BY <1>0, <2>2, <2>3
<1>3. PICK p \in Disguised :
        /\ p = Parser!Protected(b) /\ ~Parser!Ends(host.in, p)
        /\ host.in \in Parser!Delivered => b = IF p = "FE" THEN "ST" ELSE p
  <2> DEFINE p == Parser!Protected(b)
  <2>1. CASE host.in = "SOS"
    <3>1. p = IF (host.more > 0 /\ b \in Parser!Continuations) \/ b \in Parser!Leads
              THEN "A" ELSE b
      BY <1>0, <2>1 DEF Parser!Protected
    <3>2. p = "A"
      BY <1>0, <1>1, <3>1
    <3> HIDE DEF p
    <3>3. p \in Disguised /\ ~Parser!Ends("SOS", p) /\ "SOS" \notin Parser!Delivered
      BY <3>2, ByteNames DEF Parser!Ends, Disguised
    <3> QED
      BY <2>1, <3>3 DEF p
  <2>2. CASE host.in # "SOS"
    <3>1. p = IF ((host.more > 0 /\ b \in Parser!Continuations) \/ b \in Parser!Leads) /\ b = "ST"
              THEN "FE" ELSE b
      BY <1>0, <2>2 DEF Parser!Protected
    <3>2. b \in {"A"} \cup Parser!Leads \cup Parser!Continuations /\ (b = "ST" => host.more > 0)
      BY <1>0, <1>1, ByteNames
    <3>3. p = IF b = "ST" THEN "FE" ELSE b
      BY <3>1, <3>2, ByteNames
    <3>4. host.in \in {"OSC", "DCS"}
      BY <2>2, ByteNames
    <3> HIDE DEF p
    <3>5. p \in Disguised /\ b = (IF p = "FE" THEN "ST" ELSE p)
          /\ p \notin {"BEL", "ESC", "ST"}
      BY <3>2, <3>3, ByteNames DEF Disguised
    <3>6. ~Parser!Ends(host.in, p)
      BY <3>4, <3>5 DEF Parser!Ends
    <3> QED
      BY <3>5, <3>6 DEF p
  <2> QED
    BY <2>1, <2>2
<1>4. /\ parser' = Parser!Shift(host.in, Append(parser.data, p))
      /\ printed' = printed /\ delivered' = delivered
  BY <1>0, <1>3, AdvanceString DEF Parser!Write
<1>5. PICK d \in Seq(Disguised) : d = Append(parser.data, p)
  <2>1. Append(parser.data, p) \in Seq(Disguised)
    BY <1>0, <1>3
  <2> QED
    BY <2>1
<1>6. parser' \in ParserType /\ parser'.state = host.in /\ parser'.data = d
  BY <1>4, <1>5, Shifted DEF States, Text
<1>7. host.in \in Parser!Delivered => Parser!RestorePlaceholders(d) = host'.data
  <2>1. Parser!RestorePlaceholders(Append(parser.data, p))
          = Append(Parser!RestorePlaceholders(parser.data), IF p = "FE" THEN "ST" ELSE p)
    BY <1>0, <1>3, TextRestored
  <2> QED
    BY <1>0, <1>1, <1>3, <1>5, <2>1
<1>8. ParserTypes'
  BY <1>0, <1>1, <1>2, <1>4, <1>6 DEF ParserTypes
<1>9. FollowsText' /\ FollowsStrings'
  BY <1>0, <1>1, <1>2, <1>4, <1>6, <1>7 DEF FollowsText, FollowsStrings
<1> QED
  BY <1>0, <1>1, <1>4, <1>8, <1>9 DEF ParserIInv, Parser!StringsAreDelivered

(* The host opens and closes control strings (parsing/parser.go:106-111).  *)
HostAt(h, n, place, d, ss) == [h EXCEPT !.sent = n, !.in = place, !.data = d, !.strings = ss]
LEMMA HostMoves ==
  ASSUME NEW h, NEW n, NEW place, NEW d, NEW ss,
         h \in HostType, n \in Nat, place \in PlacesOfHost, d \in Text, ss \in Handovers
  PROVE  LET k == HostAt(h, n, place, d, ss)
         IN  /\ k \in HostType /\ k.in = place /\ k.strings = ss /\ k.more = h.more
             /\ k.text = h.text /\ k.data = d
BY DEF HostType, HostAt

(* Only these fields change (parsing/parser.go:106-111).                   *)
LEMMA HostMovesOn ==
  ASSUME NEW h, NEW n, NEW place, h \in HostType
  PROVE  [h EXCEPT !.sent = n, !.in = place] = HostAt(h, n, place, h.data, h.strings)
BY DEF HostType, HostAt

(* A string is opened (parsing/parser.go:57-102, 113-116).                 *)
LEMMA OpenStep ==
  ASSUME ParserIInv, NEW b \in Parser!Bytes, Parser!HostOpens(b), Parser!Write(b)
  PROVE  ParserIInv'
<1>0. /\ ParserTypes /\ FollowsText /\ delivered = host.strings /\ host.more = 0
      /\ host \in HostType /\ host.sent + 1 \in Nat /\ host.data \in Text
      /\ host.strings \in Handovers
      /\ host.in \in {"text", "opening"} /\ {"text", "opening"} \cap Parser!Strings = {}
      /\ printed \in Text
  BY ByteNames DEF ParserIInv, ParserTypes, HostType, Parser!StringsAreDelivered, Parser!HostOpens
<1>1. PICK place \in PlacesOfHost :
        /\ host' = [host EXCEPT !.sent = host.sent + 1, !.in = place]
        /\ \/ (host.in = "text" /\ b = "ESC" /\ place = "opening")
           \/ (host.in = "opening" /\ b \in Parser!Strings /\ place = b)
  BY DEF Parser!HostOpens, PlacesOfHost
<1>2. /\ host' \in HostType /\ host'.in = place /\ host'.strings = host.strings
      /\ host'.more = 0 /\ host'.text = host.text /\ host'.data = host.data
  <2>1. host' = HostAt(host, host.sent + 1, place, host.data, host.strings)
    BY <1>0, <1>1, HostMovesOn
  <2>2. PICK n \in Nat : n = host.sent + 1
    BY <1>0
  <2>3. PICK d \in Text, ss \in Handovers : d = host.data /\ ss = host.strings
    BY <1>0
  <2>4. host' = HostAt(host, n, place, d, ss)
    BY <2>1, <2>2, <2>3
  <2> QED
    BY <1>0, <2>3, <2>4, HostMoves
<1>3. /\ host.data = <<>> /\ printed = host.text
      /\ host.in = "text" => parser.state = "ground"
      /\ host.in = "opening" => parser.state = "escape"
  BY <1>0 DEF FollowsText
<1>4. Parser!Protected(b) = b /\ continuation' = 0 /\ Parser!Advance(b)
  <2>1. parser.state \notin Parser!Strings
    BY <1>0, <1>3, ByteNames
  <2> QED
    BY <2>1 DEF Parser!Write, Parser!Protected, Parser!ContinuationAfter
<1>5. PICK state \in States :
        /\ parser' = Parser!Shift(state, <<>>)
        /\ place = "opening" => state = "escape"
        /\ place \in Parser!Strings => state = place
        /\ printed' = printed /\ delivered' = delivered
  <2>1. CASE host.in = "text" /\ b = "ESC" /\ place = "opening"
    BY <1>0, <1>3, <1>4, <2>1, AdvanceText DEF States
  <2>2. CASE host.in = "opening" /\ b \in Parser!Strings /\ place = b
    BY <1>0, <1>3, <1>4, <2>2, AdvanceText DEF States
  <2> QED
    BY <1>1, <2>1, <2>2
<1>6. <<>> \in Text /\ Parser!RestorePlaceholders(<<>>) = <<>>
  BY DEF Text, Parser!RestorePlaceholders
<1>7. parser' \in ParserType /\ parser'.state = state /\ parser'.data = <<>>
  BY <1>5, <1>6, Shifted
<1>8. ParserTypes'
  BY <1>0, <1>2, <1>4, <1>5, <1>7 DEF ParserTypes
<1>9. place \in {"opening"} \cup Parser!Strings
  BY <1>1
<1>10. FollowsText' /\ FollowsStrings'
  BY <1>0, <1>2, <1>3, <1>4, <1>5, <1>6, <1>7, <1>9, ByteNames DEF FollowsText, FollowsStrings
<1> QED
  BY <1>0, <1>2, <1>5, <1>8, <1>10 DEF ParserIInv, Parser!StringsAreDelivered

(* What is handed over is what the host sent (parsing/parser.go:118-156).  *)
LEMMA HandedIsMeant ==
  ASSUME ParserIInv, host.in \in Parser!Strings
  PROVE  /\ Append(delivered, Parser!Handed(parser.state, parser.data)) = Parser!Closed(host.in)
         /\ Parser!Closed(host.in) \in Handovers
<1>1. /\ delivered = host.strings /\ parser.state = host.in
      /\ host.in \in Parser!Delivered => Parser!RestorePlaceholders(parser.data) = host.data
  BY DEF ParserIInv, FollowsStrings, Parser!StringsAreDelivered
<1>2. PICK r : r = [kind |-> host.in,
                    data |-> IF host.in \in Parser!Delivered THEN host.data ELSE <<>>]
  OBVIOUS
<1>3. Parser!Handed(parser.state, parser.data) = r
  BY <1>1, <1>2 DEF Parser!Handed
<1>4. Parser!Closed(host.in) = Append(host.strings, r)
  BY <1>2 DEF Parser!Closed
<1>5. r \in [kind : Parser!Strings, data : Text]
  <2>1. host.data \in Text /\ <<>> \in Text
    BY DEF ParserIInv, ParserTypes, HostType, Text
  <2> QED
    BY <1>2, <2>1
<1>6. host.strings \in Handovers
  BY DEF ParserIInv, ParserTypes, HostType
<1>7. Append(host.strings, r) \in Handovers
  BY <1>5, <1>6 DEF Handovers
<1> QED
  BY <1>1, <1>3, <1>4, <1>7

(* A string is closed (parsing/parser.go:57-102, 113-156).                 *)
LEMMA CloseStep ==
  ASSUME ParserIInv, NEW b \in Parser!Bytes, Parser!HostCloses(b), Parser!Write(b)
  PROVE  ParserIInv'
<1>0. /\ ParserTypes /\ FollowsText /\ delivered = host.strings /\ host.more = 0
      /\ host \in HostType /\ host.sent + 1 \in Nat /\ host.data \in Text
      /\ host.strings \in Handovers
      /\ host.in \in {"closing"} \cup Parser!Strings /\ {"text", "closing"} \cap Parser!Strings = {}
      /\ printed \in Text /\ <<>> \in Text /\ parser.data \in Text
  BY ByteNames DEF ParserIInv, ParserTypes, ParserType, HostType, Parser!StringsAreDelivered,
                   Parser!HostCloses, Text
<1>1. PICK place \in PlacesOfHost, ss \in Handovers, d \in Text :
        /\ host' = HostAt(host, host.sent + 1, place, d, ss)
        /\ d = <<>>
        /\ \/ /\ host.in \in Parser!Strings /\ ss = Parser!Closed(host.in)
              /\ b = "ST" \/ (b = "BEL" /\ host.in = "OSC") \/ b = "ESC"
              /\ place = IF b = "ESC" THEN "closing" ELSE "text"
           \/ /\ host.in = "closing" /\ ss = host.strings /\ b = "\\" /\ place = "text"
  <2>1. CASE host.in = "closing"
    <3>1. b = "\\" /\ host' = [host EXCEPT !.sent = host.sent + 1, !.in = "text"]
      BY <1>0, <2>1 DEF Parser!HostCloses
    <3>2. host' = HostAt(host, host.sent + 1, "text", host.data, host.strings)
      BY <1>0, <3>1, HostMovesOn
    <3>3. host.data = <<>>
      BY <1>0, <2>1 DEF FollowsText
    <3> QED
      BY <1>0, <2>1, <3>1, <3>2, <3>3 DEF PlacesOfHost
  <2>2. CASE host.in \in Parser!Strings
    <3>1. PICK place \in PlacesOfHost :
            /\ place = (IF b = "ESC" THEN "closing" ELSE "text")
            /\ b = "ST" \/ (b = "BEL" /\ host.in = "OSC") \/ b = "ESC"
            /\ host' = HostAt(host, host.sent + 1, place, <<>>, Parser!Closed(host.in))
      <4> DEFINE place == IF b = "ESC" THEN "closing" ELSE "text"
      <4>1. /\ b = "ST" \/ (b = "BEL" /\ host.in = "OSC") \/ b = "ESC"
            /\ host' = [host EXCEPT !.sent = host.sent + 1, !.strings = Parser!Closed(host.in),
                                    !.data = <<>>, !.in = place]
        BY <1>0, <2>2 DEF Parser!HostCloses
      <4>2. place \in PlacesOfHost
        BY DEF PlacesOfHost
      <4>3. \A ss, p : [host EXCEPT !.sent = host.sent + 1, !.strings = ss, !.data = <<>>, !.in = p]
                       = HostAt(host, host.sent + 1, p, <<>>, ss)
        BY <1>0 DEF HostAt, HostType
      <4> HIDE DEF place
      <4>4. host' = HostAt(host, host.sent + 1, place, <<>>, Parser!Closed(host.in))
        BY <4>1, <4>3
      <4> QED
        BY <4>1, <4>2, <4>4 DEF place
    <3>2. Parser!Closed(host.in) \in Handovers
      BY <2>2, HandedIsMeant
    <3> QED
      BY <1>0, <2>2, <3>1, <3>2
  <2> QED
    BY <1>0, <2>1, <2>2
<1>2. /\ host' \in HostType /\ host'.in = place /\ host'.strings = ss
      /\ host'.more = 0 /\ host'.text = host.text /\ host'.data = <<>>
  <2>1. PICK n \in Nat : n = host.sent + 1
    BY <1>0
  <2>2. host' = HostAt(host, n, place, d, ss)
    BY <1>1, <2>1
  <2> QED
    BY <1>0, <1>1, <2>2, HostMoves
<1>3. place \in {"text", "closing"} /\ printed = host.text
  BY <1>0, <1>1 DEF ParserIInv, FollowsText, FollowsStrings
<1>4. PICK state \in States :
        /\ parser' = Parser!Shift(state, <<>>) /\ continuation' = 0
        /\ state = IF place = "closing" THEN "escape" ELSE "ground"
        /\ printed' = printed /\ delivered' = ss
  <2>1. CASE host.in = "closing"
    <3>1. b = "\\" /\ place = "text" /\ ss = host.strings /\ parser.state = "escape"
      BY <1>0, <1>1, <2>1 DEF FollowsText
    <3>2. Parser!Protected(b) = b /\ continuation' = 0 /\ Parser!Advance(b)
      BY <3>1, ByteNames DEF Parser!Write, Parser!Protected, Parser!ContinuationAfter
    <3>3. /\ parser' = Parser!Shift("ground", <<>>)
          /\ printed' = printed /\ delivered' = delivered
      BY <3>1, <3>2, AdvanceText
    <3> QED
      BY <1>0, <3>1, <3>2, <3>3 DEF States
  <2>2. CASE host.in \in Parser!Strings
    <3>1. /\ parser.state = host.in /\ continuation = 0 /\ ss = Parser!Closed(host.in)
          /\ b = "ST" \/ (b = "BEL" /\ host.in = "OSC") \/ b = "ESC"
          /\ place = IF b = "ESC" THEN "closing" ELSE "text"
      BY <1>0, <1>1, <2>2 DEF ParserIInv, FollowsStrings
    <3>2. b \notin Parser!Leads /\ ~(continuation > 0)
      BY <3>1, ByteNames
    <3>3. Parser!Protected(b) = b /\ continuation' = 0 /\ Parser!Advance(b)
      BY <3>2 DEF Parser!Write, Parser!Protected, Parser!ContinuationAfter
    <3>4. Parser!Ends(parser.state, b)
      <4>1. parser.state = "OSC" \/ parser.state = "DCS" \/ parser.state = "SOS"
        BY <2>2, <3>1, ByteNames
      <4> QED
        BY <3>1, <4>1, ByteNames DEF Parser!Ends
    <3>5. /\ printed' = printed
          /\ parser' = IF b = "ESC" THEN Parser!Shift("escape", <<>>)
                       ELSE Parser!Shift("ground", <<>>)
          /\ delivered' = Append(delivered, Parser!Handed(parser.state, parser.data))
      BY <1>0, <2>2, <3>1, <3>3, <3>4, AdvanceString
    <3>6. delivered' = ss
      BY <2>2, <3>1, <3>5, HandedIsMeant
    <3> QED
      BY <3>1, <3>3, <3>5, <3>6 DEF States
  <2> QED
    BY <1>0, <2>1, <2>2
<1>5. parser' \in ParserType /\ parser'.state = state /\ parser'.data = <<>>
  BY <1>0, <1>4, Shifted
<1>6. ParserTypes'
  BY <1>0, <1>2, <1>4, <1>5 DEF ParserTypes
<1>7. FollowsText' /\ FollowsStrings'
  BY <1>0, <1>2, <1>3, <1>4, <1>5 DEF FollowsText, FollowsStrings
<1> QED
  BY <1>2, <1>4, <1>6, <1>7 DEF ParserIInv, Parser!StringsAreDelivered

(* Text has its place (parsing/parser.go:106-149).                         *)
LEMMA TextIsKept ==
  ASSUME ParserIInv
  PROVE  StringsStayApart
<1>1. /\ printed \in Seq(Disguised) /\ host.text \in Seq(Disguised)
      /\ parser.data \in Seq(Disguised)
      /\ host.more \in 0..3 /\ host.in \in PlacesOfHost /\ FollowsText /\ FollowsStrings
  BY DEF ParserIInv, ParserTypes, ParserType, HostType, Text
<1>2. host.text = printed \/ host.text = printed \o parser.data
  BY <1>1 DEF FollowsText, FollowsStrings, PlacesOfHost
<1>3. host.more = 0 => printed = host.text
  BY <1>1 DEF FollowsText, FollowsStrings, PlacesOfHost
<1>4. /\ Len(printed) <= Len(host.text)
      /\ \A i \in DOMAIN printed : printed[i] = host.text[i]
  <2>1. CASE host.text = printed
    BY <1>1, <2>1
  <2>2. CASE host.text = printed \o parser.data
    <3>1. PICK p \in Seq(Disguised), q \in Seq(Disguised), w \in Seq(Disguised) :
            p = printed /\ q = parser.data /\ w = host.text
      BY <1>1
    <3>2. /\ w = p \o q /\ Len(p \o q) = Len(p) + Len(q)
          /\ \A i \in 1..(Len(p) + Len(q)) :
               (p \o q)[i] = IF i <= Len(p) THEN p[i] ELSE q[i - Len(p)]
      BY <2>2, <3>1, ConcatProperties
    <3>3. Len(p) \in Nat /\ Len(q) \in Nat /\ DOMAIN p = 1..Len(p)
      OBVIOUS
    <3>4. Len(p) <= Len(w)
      BY <3>2, <3>3
    <3>5. \A i \in DOMAIN p : p[i] = w[i]
      BY <3>2, <3>3
    <3> QED
      BY <3>1, <3>4, <3>5
  <2> QED
    BY <1>2, <2>1, <2>2
<1> QED
  BY <1>3, <1>4 DEF ParserIInv, StringsStayApart, Parser!TextIsPrinted

(* Nothing is sent at first (parsing/parser.go:35-55).                     *)
LEMMA ParserStarts ==
  ASSUME Parser!Init
  PROVE  ParserIInv
<1>1. parser \in ParserType /\ parser.state = "ground"
  BY DEF Parser!Init, ParserType, States, Text
<1>2. /\ host \in HostType /\ host.in = "text" /\ host.more = 0 /\ host.data = <<>>
      /\ host.text = <<>> /\ host.strings = <<>>
  BY DEF Parser!Init, HostType, PlacesOfHost, Text, Handovers
<1>3. printed \in Text /\ printed = <<>> /\ continuation = 0 /\ delivered = <<>>
  BY DEF Parser!Init, Text
<1>4. ParserTypes
  BY <1>1, <1>2, <1>3 DEF ParserTypes
<1> QED
  BY <1>1, <1>2, <1>3, <1>4, ByteNames
     DEF ParserIInv, FollowsText, FollowsStrings, Parser!StringsAreDelivered

(* Nothing else writes to the parser (parsing/parser.go:106-111).          *)
LEMMA ParserRests ==
  ASSUME ParserIInv, UNCHANGED parserVars
  PROVE  ParserIInv'
BY DEF ParserIInv, parserVars, ParserTypes, FollowsText, FollowsStrings,
       Parser!StringsAreDelivered, Parser!RestorePlaceholders

(* Wherever the host's output is cut, what it meant as text is printed,    *)
(* nothing else is, and every control string is handed over whole and in   *)
(* order (parsing/parser.go:57-156).                                       *)
THEOREM StringsApart == DisplaySpec => []StringsStayApart
<1>1. DisplayInit => ParserIInv
  BY ParserStarts DEF DisplayInit
<1>2. ParserIInv /\ [DisplayNext]_displayVars => ParserIInv'
  <2> SUFFICES ASSUME ParserIInv, [DisplayNext]_displayVars
               PROVE  ParserIInv'
    OBVIOUS
  <2>1. CASE Parser!Next
    <3>1. PICK b \in Parser!Bytes :
            /\ Parser!HostText(b) \/ Parser!HostOpens(b) \/ Parser!HostCloses(b)
            /\ Parser!Write(b)
      BY <2>1 DEF Parser!Next
    <3>2. CASE Parser!HostText(b)
      <4>1. host.in = "text" \/ host.in \in Parser!Strings
        BY <3>2 DEF Parser!HostText
      <4> QED
        BY <3>1, <3>2, <4>1, TextStep, StringStep
    <3>3. CASE Parser!HostOpens(b)
      BY <3>1, <3>3, OpenStep
    <3>4. CASE Parser!HostCloses(b)
      BY <3>1, <3>4, CloseStep
    <3> QED
      BY <3>1, <3>2, <3>3, <3>4
  <2>2. CASE UNCHANGED parserVars
    BY <2>2, ParserRests
  <2> QED
    BY <2>1, <2>2 DEF DisplayNext, displayVars
<1> QED
  BY <1>1, <1>2, TextIsKept, PTL DEF DisplaySpec

-----------------------------------------------------------------------------
(* The timed scenarios of the reference application.                       *)

ScrollingFields == {"events", "cursor", "follow", "streaming", "remaining", "generation"}
PartialFields == {"mode", "step", "running", "generation", "ignored", "accepted"}
LongRunningFields ==
  {"mode", "running", "paused", "generation", "heartbeats", "processed", "succeeded", "failed",
   "remaining", "status", "events"}

Shaped(p, m) ==
  /\ p = "scrolling" => DOMAIN m = ScrollingFields
  /\ p = "partial" => DOMAIN m = PartialFields
  /\ p = "longRunning" =>
       DOMAIN m = LongRunningFields /\ (m.running => m.mode \in {"finite", "failure", "continuous"})

InFlight == \A t \in DOMAIN ticks : ticks[t] \in Nat /\ ticks[t] > 0

ReferenceIInv ==
  /\ running => Shaped(page, model)
  /\ InFlight
  /\ NeverStalls

(* What a step makes of a page needs no timer that was not there.          *)
Goes(p, m, n) ==
  /\ Shaped(p, n)
  /\ Reference!Active(p, n) => Reference!Active(p, m) /\ n.generation = m.generation
  /\ p \in Reference!Timed => n.generation \in {m.generation, m.generation + 1}

(* Pages have names of their own (reference/application.go:29-51).         *)
LEMMA PageNames ==
  /\ Reference!Timed = {"scrolling", "partial", "longRunning"}
  /\ "menu" \notin Reference!Timed /\ "login" \notin Reference!Timed
BY DEF Reference!Timed

(* A page without timers needs none (reference/application.go:432-463).    *)
LEMMA UntimedPages ==
  ASSUME NEW p, p \notin Reference!Timed, NEW m
  PROVE  Shaped(p, m) /\ ~Reference!Active(p, m)
BY PageNames DEF Shaped, Reference!Active

(* A page that is opened runs nothing (reference/application.go:432-463).  *)
LEMMA OpenedPages ==
  ASSUME NEW p, NEW s
  PROVE  LET n == Reference!NewModel(p, s) IN Shaped(p, n) /\ ~Reference!Active(p, n)
<1>1. CASE p = "scrolling"
  <2>1. Reference!NewModel(p, s) = Reference!NewScrolling
    BY <1>1 DEF Reference!NewModel
  <2> QED
    BY <1>1, <2>1 DEF Shaped, Reference!Active, Reference!NewScrolling, ScrollingFields
<1>2. CASE p = "partial"
  <2>1. Reference!NewModel(p, s) = Reference!NewPartial
    BY <1>2 DEF Reference!NewModel
  <2> QED
    BY <1>2, <2>1 DEF Shaped, Reference!Active, Reference!NewPartial, PartialFields
<1>3. CASE p = "longRunning"
  <2>1. Reference!NewModel(p, s) = Reference!NewLongRunning
    BY <1>3 DEF Reference!NewModel
  <2>2. DOMAIN Reference!NewLongRunning = LongRunningFields
    BY DEF Reference!NewLongRunning, LongRunningFields
  <2>3. ~Reference!NewLongRunning.running
    BY DEF Reference!NewLongRunning
  <2> QED
    BY <1>3, <2>1, <2>2, <2>3 DEF Shaped, Reference!Active
<1> QED
  BY <1>1, <1>2, <1>3, UntimedPages, PageNames

(* Keys of the event log (reference/scrolling.go:36-162).                  *)
LEMMA ScrollingGoesOn ==
  ASSUME NEW m, DOMAIN m = ScrollingFields, NEW s, NEW n \in Reference!ScrollingSteps(m, s)
  PROVE  /\ DOMAIN n = ScrollingFields
         /\ n.streaming => m.streaming /\ n.generation = m.generation
         /\ n.generation \in {m.generation, m.generation + 1}
<1>1. \A d : LET k == Reference!Moved(m, d)
             IN  DOMAIN k = ScrollingFields /\ k.streaming = m.streaming
                 /\ k.generation = m.generation
  BY DEF Reference!Moved, ScrollingFields
<1>2. LET k == Reference!Appended(m)
      IN  DOMAIN k = ScrollingFields /\ k.streaming = m.streaming /\ k.generation = m.generation
  BY DEF Reference!Appended, ScrollingFields
<1>3. \A c, f : LET k == [m EXCEPT !.cursor = c, !.follow = f]
                IN  DOMAIN k = ScrollingFields /\ k.streaming = m.streaming
                    /\ k.generation = m.generation
  BY DEF ScrollingFields
<1>4. \A c, f : LET k == [m EXCEPT !.follow = f, !.cursor = c]
                IN  DOMAIN k = ScrollingFields /\ k.streaming = m.streaming
                    /\ k.generation = m.generation
  BY DEF ScrollingFields
<1>5. \A c : LET k == [m EXCEPT !.cursor = c]
             IN  DOMAIN k = ScrollingFields /\ k.streaming = m.streaming
                 /\ k.generation = m.generation
  BY DEF ScrollingFields
<1>6. \A g : LET k == [Reference!NewScrolling EXCEPT !.generation = g]
             IN  DOMAIN k = ScrollingFields /\ ~k.streaming /\ k.generation = g
  BY DEF ScrollingFields, Reference!NewScrolling
<1>7. \/ \E d : n = Reference!Moved(m, d)
      \/ n = Reference!Appended(m)
      \/ \E c, f : n = [m EXCEPT !.cursor = c, !.follow = f]
      \/ \E c, f : n = [m EXCEPT !.follow = f, !.cursor = c]
      \/ \E c : n = [m EXCEPT !.cursor = c]
      \/ n = [Reference!NewScrolling EXCEPT !.generation = m.generation + 1]
  BY DEF Reference!ScrollingSteps
<1>8. CASE \E d : n = Reference!Moved(m, d)
  BY <1>1, <1>8
<1>9. CASE n = Reference!Appended(m)
  BY <1>2, <1>9
<1>10. CASE \E c, f : n = [m EXCEPT !.cursor = c, !.follow = f]
  BY <1>3, <1>10
<1>11. CASE \E c, f : n = [m EXCEPT !.follow = f, !.cursor = c]
  BY <1>4, <1>11
<1>12. CASE \E c : n = [m EXCEPT !.cursor = c]
  BY <1>5, <1>12
<1>13. CASE n = [Reference!NewScrolling EXCEPT !.generation = m.generation + 1]
  BY <1>6, <1>13
<1> QED
  BY <1>7, <1>8, <1>9, <1>10, <1>11, <1>12, <1>13

(* Keys of the partial screen (reference/partial.go:40-93).                *)
LEMMA PartialGoesOn ==
  ASSUME NEW m, DOMAIN m = PartialFields, NEW n \in Reference!PartialSteps(m)
  PROVE  /\ DOMAIN n = PartialFields
         /\ n.running = m.running /\ n.generation = m.generation
<1>1. \/ n = [m EXCEPT !.ignored = m.ignored + 1]
      \/ n = [m EXCEPT !.accepted = m.accepted + 1]
  BY DEF Reference!PartialSteps
<1> QED
  BY <1>1 DEF PartialFields

(* An operation is canceled or paused (reference/long_running.go:45-152).  *)
LEMMA LongRunningGoesOn ==
  ASSUME NEW m, Shaped("longRunning", m), NEW n \in Reference!LongRunningStops(m)
  PROVE  /\ Shaped("longRunning", n) /\ ~(n.running /\ ~n.paused)
         /\ n.generation = m.generation + 1
<1>0. DOMAIN m = LongRunningFields /\ (m.running => m.mode \in {"finite", "failure", "continuous"})
  BY DEF Shaped
<1>1. m.running
  BY DEF Reference!LongRunningStops
<1>2. CASE n = Reference!Stopped(m, "CANCELED")
  <2>1. DOMAIN n = LongRunningFields /\ ~n.running /\ n.generation = m.generation + 1
    BY <1>0, <1>2 DEF Reference!Stopped, LongRunningFields
  <2> QED
    BY <2>1 DEF Shaped
<1>3. CASE n = [m EXCEPT !.paused = TRUE, !.generation = m.generation + 1, !.status = "PAUSED"]
  <2>1. /\ DOMAIN n = LongRunningFields /\ n.paused /\ n.mode = m.mode
        /\ n.generation = m.generation + 1
    BY <1>0, <1>3 DEF LongRunningFields
  <2> QED
    BY <1>0, <1>1, <2>1 DEF Shaped
<1> QED
  BY <1>1, <1>2, <1>3 DEF Reference!LongRunningStops

(* Keys of any page (reference/application.go:466-560).                    *)
LEMMA KeysGoOn ==
  ASSUME NEW p, NEW m, Shaped(p, m), NEW s, NEW n \in Reference!Steps(p, m, s)
  PROVE  Goes(p, m, n)
<1>1. CASE p = "scrolling"
  <2>1. n \in Reference!ScrollingSteps(m, s)
    BY <1>1 DEF Reference!Steps
  <2> QED
    BY <1>1, <2>1, ScrollingGoesOn DEF Goes, Shaped, Reference!Active
<1>2. CASE p = "partial"
  <2>1. n \in Reference!PartialSteps(m)
    BY <1>2 DEF Reference!Steps
  <2> QED
    BY <1>2, <2>1, PartialGoesOn DEF Goes, Shaped, Reference!Active
<1>3. CASE p = "longRunning"
  <2>1. n \in Reference!LongRunningStops(m)
    BY <1>3 DEF Reference!Steps
  <2> QED
    BY <1>3, <2>1, LongRunningGoesOn DEF Goes, Reference!Active
<1> QED
  BY <1>1, <1>2, <1>3, UntimedPages, PageNames DEF Goes

(* A beat of an operation, which may end it                                *)
(* (reference/long_running.go:104-152).                                    *)
LEMMA LongRunningBeats ==
  ASSUME NEW m, Shaped("longRunning", m), m.running, ~m.paused
  PROVE  LET n == Reference!LongRunningTicked(m)
         IN  /\ Shaped("longRunning", n)
             /\ (n.running /\ ~n.paused => n.generation = m.generation)
             /\ n.generation \in {m.generation, m.generation + 1}
<1> DEFINE Same(n) == /\ DOMAIN n = LongRunningFields
                      /\ n.running = m.running /\ n.mode = m.mode /\ n.generation = m.generation
           Ended(n) == /\ DOMAIN n = LongRunningFields
                       /\ ~n.running /\ n.generation = m.generation + 1
<1>0. DOMAIN m = LongRunningFields /\ m.mode \in {"finite", "failure", "continuous"}
  BY DEF Shaped
<1>1. Same(m)
  BY <1>0
<1>2. \A n : Same(n) => Same(Reference!Beaten(n)) /\ Same(Reference!Logged(n))
  BY DEF Reference!Beaten, Reference!Logged, LongRunningFields
<1>3. \A n, a, b, c, d :
        Same(n) => Same([n EXCEPT !.processed = a, !.remaining = b, !.failed = c, !.succeeded = d])
  <2> SUFFICES ASSUME NEW n, NEW a, NEW b, NEW c, NEW d, Same(n)
               PROVE  Same([n EXCEPT !.processed = a, !.remaining = b, !.failed = c,
                                     !.succeeded = d])
    OBVIOUS
  <2>1. PICK o : o = [n EXCEPT !.processed = a, !.remaining = b]
    OBVIOUS
  <2>2. Same(o)
    BY <2>1 DEF LongRunningFields
  <2>3. Same([o EXCEPT !.failed = c, !.succeeded = d])
    BY <2>2 DEF LongRunningFields
  <2>4. [n EXCEPT !.processed = a, !.remaining = b, !.failed = c, !.succeeded = d]
          = [o EXCEPT !.failed = c, !.succeeded = d]
    BY <2>1, SMTT(30)
  <2> QED
    BY <2>3, <2>4
<1>4. \A n, a, b, c :
        Same(n) => Same([n EXCEPT !.processed = a, !.remaining = b, !.succeeded = c])
  BY DEF LongRunningFields
<1>5. \A n, a, b : Same(n) => Same([n EXCEPT !.processed = a, !.succeeded = b])
  BY DEF LongRunningFields
<1>6. \A n, a, b : Same(n) => Same([n EXCEPT !.failed = a, !.succeeded = b])
  BY DEF LongRunningFields
<1>7. \A n, status : Same(n) => Ended(Reference!Stopped(n, status))
  BY DEF Reference!Stopped, LongRunningFields
<1> HIDE DEF Same
<1>8. LET n == Reference!FiniteBeat(m) IN Same(n) \/ Ended(n)
  <2> HIDE DEF Ended
  <2>1. \E n : Same(n) /\ (Reference!FiniteBeat(m) = n
                           \/ Reference!FiniteBeat(m) = Reference!Stopped(n, "COMPLETE"))
    <3> DEFINE batch == Reference!Lower(3, m.remaining)
               processed == m.processed + batch
               next == Reference!Logged(
                         [Reference!Beaten(m) EXCEPT
                            !.processed = processed,
                            !.remaining = Reference!Beaten(m).remaining - batch,
                            !.failed = processed \div 30,
                            !.succeeded = processed - processed \div 30])
    <3>1. Same(Reference!Beaten(m))
      BY <1>1, <1>2
    <3>2. Same(next)
      BY <1>2, <1>3, <3>1
    <3>3. Reference!FiniteBeat(m) = IF next.remaining = 0
                                    THEN Reference!Stopped(next, "COMPLETE") ELSE next
      BY DEF Reference!FiniteBeat
    <3> HIDE DEF next
    <3> QED
      BY <3>2, <3>3
  <2> QED
    BY <1>7, <2>1
<1>9. LET n == Reference!FailureBeat(m) IN Same(n) \/ Ended(n)
  <2> HIDE DEF Ended
  <2>1. \E n : Same(n) /\ (Reference!FailureBeat(m) = n
                           \/ Reference!FailureBeat(m) = Reference!Stopped(n, "FAILED"))
    <3> DEFINE beaten == Reference!Beaten(m)
               next == [beaten EXCEPT !.processed = beaten.processed + 10,
                                      !.remaining = beaten.remaining - 10,
                                      !.succeeded = m.processed + 10]
               failed == [next EXCEPT !.failed = 1, !.succeeded = 59]
    <3>1. Same(beaten)
      BY <1>1, <1>2
    <3>2. Same(next)
      <4> HIDE DEF beaten
      <4> QED
        BY <1>4, <3>1
    <3>3. Same(failed)
      <4> HIDE DEF next
      <4> QED
        BY <1>6, <3>2
    <3>4. Reference!FailureBeat(m) = IF next.processed = 60
                                     THEN Reference!Stopped(failed, "FAILED") ELSE next
      BY DEF Reference!FailureBeat
    <3> HIDE DEF next, failed
    <3> QED
      BY <3>2, <3>3, <3>4
  <2> QED
    BY <1>7, <2>1
<1>10. CASE m.mode = "finite"
  <2>1. Reference!LongRunningTicked(m) = Reference!FiniteBeat(m)
    BY <1>10 DEF Reference!LongRunningTicked
  <2> QED
    BY <1>0, <1>8, <2>1 DEF Same, Shaped
<1>11. CASE m.mode = "failure"
  <2>1. Reference!LongRunningTicked(m) = Reference!FailureBeat(m)
    BY <1>11 DEF Reference!LongRunningTicked
  <2> QED
    BY <1>0, <1>9, <2>1 DEF Same, Shaped
<1>12. CASE m.mode = "continuous"
  <2> DEFINE beaten == Reference!Beaten(m)
             next == [beaten EXCEPT !.processed = beaten.processed + 1,
                                    !.succeeded = m.processed + 1]
  <2>1. Same(beaten)
    BY <1>1, <1>2
  <2>2. Same(next)
    <3> HIDE DEF beaten
    <3> QED
      BY <1>5, <2>1
  <2>3. Reference!LongRunningTicked(m) = Reference!Logged(next)
    BY <1>12 DEF Reference!LongRunningTicked
  <2> HIDE DEF next
  <2>4. Same(Reference!LongRunningTicked(m))
    BY <1>2, <2>2, <2>3
  <2> QED
    BY <1>0, <2>4 DEF Same, Shaped
<1> QED
  BY <1>0, <1>10, <1>11, <1>12

(* A timer's message (reference/scrolling.go:74-93, partial.go:62-83,      *)
(* long_running.go:90-119).                                                *)
LEMMA TimersGoOn ==
  ASSUME NEW p, NEW m, Shaped(p, m), Reference!Active(p, m)
  PROVE  Goes(p, m, Reference!Ticked(p, m))
<1> DEFINE n == Reference!Ticked(p, m)
<1>1. CASE p = "scrolling"
  <2>1. n = Reference!ScrollingTicked(m)
    BY <1>1 DEF Reference!Ticked
  <2>2. DOMAIN n = ScrollingFields /\ n.generation = m.generation
    BY <1>1, <2>1 DEF Shaped, Reference!ScrollingTicked, Reference!Appended, ScrollingFields
  <2> HIDE DEF n
  <2>3. Goes(p, m, n)
    BY <1>1, <2>2 DEF Goes, Shaped
  <2> QED
    BY <2>3 DEF n
<1>2. CASE p = "partial"
  <2>1. n = Reference!PartialTicked(m)
    BY <1>2 DEF Reference!Ticked
  <2>2. DOMAIN n = PartialFields /\ n.generation = m.generation
    BY <1>2, <2>1 DEF Shaped, Reference!PartialTicked, PartialFields
  <2> HIDE DEF n
  <2>3. Goes(p, m, n)
    BY <1>2, <2>2 DEF Goes, Shaped
  <2> QED
    BY <2>3 DEF n
<1>3. CASE p = "longRunning"
  <2>1. n = Reference!LongRunningTicked(m)
    BY <1>3 DEF Reference!Ticked
  <2>2. m.running /\ ~m.paused /\ Shaped("longRunning", m)
    BY <1>3 DEF Reference!Active
  <2>3. /\ Shaped("longRunning", n)
        /\ (n.running /\ ~n.paused => n.generation = m.generation)
        /\ n.generation \in {m.generation, m.generation + 1}
    BY <2>1, <2>2, LongRunningBeats
  <2> HIDE DEF n
  <2>4. Goes(p, m, n)
    BY <1>3, <2>2, <2>3 DEF Goes, Reference!Active
  <2> QED
    BY <2>4 DEF n
<1> QED
  BY <1>1, <1>2, <1>3, UntimedPages, PageNames

(* A scenario is started or resumed (reference/scrolling.go:100-110,       *)
(* partial.go:94-110, long_running.go:45-119).                             *)
LEMMA StartedPages ==
  ASSUME NEW p, NEW m, Shaped(p, m), NEW n \in Reference!Starts(p, m)
  PROVE  Shaped(p, n) /\ (p \in Reference!Timed => n.generation = m.generation + 1)
<1>1. CASE p = "scrolling"
  <2>1. n = [m EXCEPT !.streaming = TRUE, !.remaining = 5, !.generation = m.generation + 1]
    BY <1>1 DEF Reference!Starts, Reference!Streamed
  <2> QED
    BY <1>1, <2>1 DEF Shaped, ScrollingFields
<1>2. CASE p = "partial"
  <2>1. \E mode : n = [Reference!NewPartial EXCEPT !.mode = mode, !.running = TRUE,
                                                   !.generation = m.generation + 1]
    BY <1>2 DEF Reference!Starts
  <2>2. DOMAIN n = PartialFields /\ n.generation = m.generation + 1
    BY <2>1 DEF Reference!NewPartial, PartialFields
  <2> QED
    BY <1>2, <2>2 DEF Shaped
<1>3. CASE p = "longRunning"
  <2>0. DOMAIN Reference!NewLongRunning = LongRunningFields
    BY DEF Reference!NewLongRunning, LongRunningFields
  <2>1. \/ \E mode \in {"finite", "continuous", "failure"} :
             n = [Reference!NewLongRunning EXCEPT
                    !.mode = mode, !.running = TRUE, !.status = "RUNNING",
                    !.generation = m.generation + 1, !.remaining = Reference!Total(mode)]
        \/ /\ m.running
           /\ n = [m EXCEPT !.paused = FALSE, !.generation = m.generation + 1, !.status = "RUNNING"]
    BY <1>3 DEF Reference!Starts
  <2>2. CASE /\ m.running
             /\ n = [m EXCEPT !.paused = FALSE, !.generation = m.generation + 1,
                              !.status = "RUNNING"]
    BY <1>3, <2>2 DEF Shaped, LongRunningFields
  <2>3. ASSUME NEW mode \in {"finite", "continuous", "failure"}, NEW g, NEW r, NEW k,
               DOMAIN k = LongRunningFields,
               n = [k EXCEPT !.mode = mode, !.running = TRUE, !.status = "RUNNING",
                             !.generation = g, !.remaining = r]
        PROVE  Shaped(p, n) /\ n.generation = g
    <3>1. DOMAIN n = LongRunningFields /\ n.mode = mode /\ n.generation = g
      BY <2>3 DEF LongRunningFields
    <3> QED
      BY <1>3, <2>3, <3>1 DEF Shaped
  <2> QED
    BY <2>0, <2>1, <2>2, <2>3
<1> QED
  BY <1>1, <1>2, <1>3, UntimedPages, PageNames

(* A resize leaves timers alone (reference/scrolling.go:149-162).          *)
LEMMA ResizedPages ==
  ASSUME NEW p, NEW m, Shaped(p, m), NEW s
  PROVE  Goes(p, m, Reference!Resized(p, m, s))
<1> DEFINE n == Reference!Resized(p, m, s)
<1>1. CASE p = "scrolling"
  <2>1. \E c : n = [m EXCEPT !.cursor = c]
    BY <1>1 DEF Reference!Resized
  <2> HIDE DEF n
  <2>2. DOMAIN n = ScrollingFields /\ n.streaming = m.streaming /\ n.generation = m.generation
    BY <1>1, <2>1 DEF Shaped, ScrollingFields
  <2>3. Goes(p, m, n)
    BY <1>1, <2>2 DEF Goes, Shaped, Reference!Active
  <2> QED
    BY <2>3 DEF n
<1>2. CASE p \in {"partial", "longRunning"}
  <2>1. n = m
    BY <1>2 DEF Reference!Resized
  <2> QED
    BY <2>1 DEF Goes
<1> QED
  BY <1>1, <1>2, UntimedPages, PageNames DEF Goes

(* A timer that is started is in flight, and so are the others             *)
(* (reference/application.go:466-560).                                     *)
LEMMA TimerStarted ==
  ASSUME InFlight, NEW t, ticks' = Reference!(+)(ticks, Reference!SetToBag({t}))
  PROVE  InFlight' /\ t \in DOMAIN ticks'
BY DEF InFlight, Reference!(+), Reference!SetToBag

(* A timer that is done leaves the others in flight                        *)
(* (reference/application.go:466-560).                                     *)
LEMMA TimerDone ==
  ASSUME InFlight, NEW t, ticks' = Reference!(-)(ticks, Reference!SetToBag({t}))
  PROVE  InFlight' /\ \A u \in DOMAIN ticks : u # t => u \in DOMAIN ticks'
BY DEF InFlight, Reference!(-), Reference!SetToBag

(* A page that goes on keeps its timer (reference/application.go:466-560). *)
LEMMA TimerKept ==
  ASSUME ReferenceIInv, running, page' = page, Goes(page, model, model'), InFlight',
         \/ ticks' = ticks
         \/ \A u \in DOMAIN ticks : u # <<page, model.generation>> \/ u \in DOMAIN ticks'
  PROVE  ReferenceIInv'
BY DEF ReferenceIInv, NeverStalls, Reference!NeverStalls, Goes, Reference!BagToSet

(* A page that runs nothing needs no timer                                 *)
(* (reference/application.go:432-463).                                     *)
LEMMA TimerUnneeded ==
  ASSUME ReferenceIInv, ticks' = ticks,
         running' => Shaped(page', model') /\ ~(Reference!Active(page, model)')
  PROVE  ReferenceIInv'
BY DEF ReferenceIInv, NeverStalls, Reference!NeverStalls, InFlight

(* No step leaves a scenario without its timer                             *)
(* (reference/application.go:200-560).                                     *)
LEMMA ReferenceGoesOn ==
  ASSUME ReferenceIInv, Reference!Next
  PROVE  ReferenceIInv'
<1>0. InFlight /\ (running => Shaped(page, model))
  BY DEF ReferenceIInv
<1>1. CASE Reference!LoginKey
  <2>1. page' \notin Reference!Timed /\ ticks' = ticks
    BY <1>1, PageNames DEF Reference!LoginKey
  <2> QED
    BY <2>1, TimerUnneeded, UntimedPages
<1>2. CASE Reference!Authenticate
  <2>1. page' \notin Reference!Timed /\ ticks' = ticks
    BY <1>2, PageNames DEF Reference!Authenticate
  <2> QED
    BY <2>1, TimerUnneeded, UntimedPages
<1>3. CASE Reference!MenuKey
  <2>1. ticks' = ticks
    BY <1>3 DEF Reference!MenuKey
  <2>2. page' \notin Reference!Timed \/ model' = Reference!NewModel(page', size)
    BY <1>3, PageNames DEF Reference!MenuKey
  <2> QED
    BY <2>1, <2>2, TimerUnneeded, UntimedPages, OpenedPages
<1>4. ASSUME Reference!End
      PROVE  ReferenceIInv'
  BY <1>4 DEF Reference!End, ReferenceIInv, NeverStalls, Reference!NeverStalls, InFlight,
              Reference!EmptyBag, Reference!SetToBag
<1>5. CASE Reference!VTTestRuns
  <2>1. CASE UNCHANGED referenceVars
    BY <2>1 DEF referenceVars, ReferenceIInv, NeverStalls, Reference!NeverStalls, InFlight
  <2> QED
    BY <1>4, <1>5, <2>1 DEF Reference!VTTestRuns, Reference!referenceVars, referenceVars
<1>6. CASE Reference!PageKey
  <2>1. /\ running /\ page' = page /\ ticks' = ticks
        /\ model' \in Reference!Steps(page, model, size)
    BY <1>6 DEF Reference!PageKey
  <2>2. Goes(page, model, model') /\ InFlight'
    BY <1>0, <2>1, KeysGoOn DEF InFlight
  <2> QED
    BY <2>1, <2>2, TimerKept
<1>7. CASE Reference!StartKey
  <2>1. /\ running /\ running' = running /\ page' = page
        /\ model' \in Reference!Starts(page, model)
        /\ ticks' = Reference!(+)(ticks, Reference!SetToBag({<<page, model'.generation>>}))
    BY <1>7 DEF Reference!StartKey, Reference!Timer
  <2>2. Shaped(page, model')
    BY <1>0, <2>1, StartedPages
  <2>3. InFlight' /\ <<page, model'.generation>> \in DOMAIN ticks'
    BY <1>0, <2>1, TimerStarted
  <2> QED
    BY <2>1, <2>2, <2>3 DEF ReferenceIInv, NeverStalls, Reference!NeverStalls, Reference!BagToSet
<1>8. CASE Reference!Leave
  <2>1. page' \notin Reference!Timed /\ ticks' = ticks
    BY <1>8, PageNames DEF Reference!Leave
  <2> QED
    BY <2>1, TimerUnneeded, UntimedPages
<1>9. CASE Reference!Resize
  <2>1. /\ running /\ page' = page /\ ticks' = ticks
        /\ \/ model' = model
           \/ model' = Reference!Resized(page, model, size')
    BY <1>9 DEF Reference!Resize
  <2>2. Goes(page, model, model') /\ InFlight'
    BY <1>0, <2>1, ResizedPages DEF InFlight, Goes
  <2> QED
    BY <2>1, <2>2, TimerKept
<1>10. CASE Reference!Quit
  BY <1>4, <1>10 DEF Reference!Quit
<1>11. ASSUME NEW t \in Reference!Timers, Reference!Tick(t)
       PROVE  ReferenceIInv'
  <2>1. running /\ page' = page /\ running' = running /\ t = <<t[1], t[2]>>
    BY <1>11 DEF Reference!Tick, Reference!Timers
  <2>2. CASE Reference!Obeyed(t)
    <3>1. /\ Reference!Active(page, model)
          /\ model' = Reference!Ticked(page, model)
          /\ IF Reference!Active(page, model') THEN ticks' = ticks
             ELSE ticks' = Reference!(-)(ticks, Reference!SetToBag({t}))
      BY <1>11, <2>2 DEF Reference!Tick, Reference!Obeyed
    <3>2. Goes(page, model, model')
      BY <1>0, <2>1, <3>1, TimersGoOn
    <3>3. CASE Reference!Active(page, model')
      <4>1. InFlight'
        BY <1>0, <3>1, <3>3 DEF InFlight
      <4> QED
        BY <2>1, <3>1, <3>2, <3>3, <4>1, TimerKept
    <3>4. CASE ~Reference!Active(page, model')
      <4>1. InFlight'
        BY <1>0, <3>1, <3>4, TimerDone
      <4>2. ~(Reference!Active(page, model)')
        BY <2>1, <3>4 DEF Reference!Active
      <4> QED
        BY <2>1, <3>2, <4>1, <4>2 DEF ReferenceIInv, NeverStalls, Reference!NeverStalls, Goes
    <3> QED
      BY <3>3, <3>4
  <2>3. CASE ~Reference!Obeyed(t)
    <3>1. model' = model /\ ticks' = Reference!(-)(ticks, Reference!SetToBag({t}))
      BY <1>11, <2>3 DEF Reference!Tick
    <3>2. InFlight' /\ \A u \in DOMAIN ticks : u # t => u \in DOMAIN ticks'
      BY <1>0, <3>1, TimerDone
    <3>3. Goes(page, model, model')
      BY <1>0, <2>1, <3>1 DEF Goes
    <3>4. CASE Reference!Active(page, model)
      <4>1. t # <<page, model.generation>>
        BY <2>1, <2>3, <3>4 DEF Reference!Obeyed
      <4> QED
        BY <2>1, <3>2, <3>3, <4>1, TimerKept
    <3>5. CASE ~Reference!Active(page, model)
      <4>1. ~(Reference!Active(page, model)')
        BY <2>1, <3>1, <3>5 DEF Reference!Active
      <4> QED
        BY <2>1, <3>2, <3>3, <4>1 DEF ReferenceIInv, NeverStalls, Reference!NeverStalls, Goes
    <3> QED
      BY <3>4, <3>5
  <2> QED
    BY <2>2, <2>3
<1> QED
  BY <1>1, <1>2, <1>3, <1>5, <1>6, <1>7, <1>8, <1>9, <1>10, <1>11 DEF Reference!Next

(* Nothing is running at first (reference/application.go:119-160).         *)
LEMMA ReferenceStarts == DisplayInit => ReferenceIInv
BY UntimedPages, PageNames
   DEF DisplayInit, Reference!Init, ReferenceIInv, InFlight, NeverStalls,
       Reference!NeverStalls, Reference!EmptyBag, Reference!SetToBag

(* The parser's steps are none of the application's                        *)
(* (reference/application.go:200-560).                                     *)
LEMMA ReferenceRests ==
  ASSUME ReferenceIInv, UNCHANGED referenceVars
  PROVE  ReferenceIInv'
BY DEF referenceVars, ReferenceIInv, NeverStalls, Reference!NeverStalls, InFlight

(* A timed scenario that goes on has a timer of its generation on its way, *)
(* however often it was started, paused, resumed and left                  *)
(* (reference/long_running.go:45-152, reference/partial.go:40-93,          *)
(* reference/scrolling.go:36-93).                                          *)
THEOREM ScenariosNeverStall == DisplaySpec => []NeverStalls
<1>1. DisplayInit => ReferenceIInv
  BY ReferenceStarts
<1>2. ReferenceIInv /\ [DisplayNext]_displayVars => ReferenceIInv'
  BY ReferenceGoesOn, ReferenceRests DEF DisplayNext, displayVars
<1>3. ReferenceIInv => NeverStalls
  BY DEF ReferenceIInv
<1> QED
  BY <1>1, <1>2, <1>3, PTL DEF DisplaySpec

-----------------------------------------------------------------------------
(* What the pages of the reference application show.                       *)

FormFields == {"focus", "inputs", "priority", "errors", "submitted"}
FormTrue(m) ==
  /\ DOMAIN m = FormFields /\ DOMAIN m.inputs = Reference!Fields
  /\ \A f \in m.errors : ~Reference!Valid(m.inputs[f])
  /\ m.submitted => \A f \in Reference!Fields : Reference!Valid(m.inputs[f])

TableFields == {"sort", "filter", "filtering", "detail", "cursor"}
TableTrue(m) ==
  /\ DOMAIN m = TableFields /\ m.sort \in 0..2
  /\ m.detail => Reference!SelectedOrder(m) # 0

ScrollingTrue(m) ==
  /\ DOMAIN m = ScrollingFields
  /\ m.events \in Nat /\ m.cursor \in 0..(m.events - 1)
  /\ m.follow => m.cursor = m.events - 1

CursorFields == {"column", "row", "saved", "visible"}
OnPage(column, row, s) == column \in 0..(s.width - 1) /\ row \in 0..(s.height - 1)
CursorTrue(m, s) ==
  /\ DOMAIN m = CursorFields
  /\ OnPage(m.column, m.row, s)
  /\ m.saved # <<>> => OnPage(m.saved[1], m.saved[2], s)

PartialTrue(m) ==
  /\ DOMAIN m = PartialFields
  /\ m.step \in Nat /\ m.ignored \in Nat /\ m.accepted \in Nat
  /\ m.step <= Reference!LastStep(m)
  /\ m.running => m.step < Reference!LastStep(m) /\ m.accepted = 0
  /\ m.accepted > 0 => m.step = Reference!LastStep(m)

(* An operation that runs has not ended, and one that has ended runs no    *)
(* more; only the failing one has failures that are not counted by thirty. *)
LongRunningTrue(m) ==
  /\ DOMAIN m = LongRunningFields
  /\ m.processed \in Int /\ m.succeeded \in Int /\ m.failed \in Int /\ m.remaining \in Int
  /\ m.processed = m.succeeded + m.failed
  /\ m.mode \in {"none", "finite", "failure", "continuous"}
  /\ m.mode = "none" => ~m.running
  /\ m.mode = "finite" => m.processed + m.remaining = 120
  /\ m.mode = "failure" => m.processed + m.remaining = 100
  /\ m.running => m.status \in {"RUNNING", "PAUSED"} /\ (m.mode # "finite" => m.failed = 0)
  /\ m.status = "COMPLETE" => m.processed = 120
  /\ m.status = "FAILED" => m.processed = 60

Truthful(p, m, s) ==
  /\ p = "form" => FormTrue(m)
  /\ p = "table" => TableTrue(m)
  /\ p = "scrolling" => ScrollingTrue(m)
  /\ p = "cursor" => CursorTrue(m, s)
  /\ p = "partial" => PartialTrue(m)
  /\ p = "longRunning" => LongRunningTrue(m)

SizeSound(s) == s.width \in Nat \ {0} /\ s.height \in Nat \ {0}

PagesIInv == SizeSound(size) /\ (running => Truthful(page, model, size))

(* The form (reference/form.go:66-220).                                    *)
LEMMA FormsTrue ==
  /\ FormTrue(Reference!NewForm)
  /\ \A m : FormTrue(m) => \A n \in Reference!FormSteps(m) : FormTrue(n)
<1>1. FormTrue(Reference!NewForm)
  BY DEF FormTrue, Reference!NewForm, FormFields
<1>2. ASSUME NEW m, FormTrue(m), NEW n \in Reference!FormSteps(m) PROVE FormTrue(n)
  <2>0. DOMAIN m = FormFields /\ DOMAIN m.inputs = Reference!Fields
    BY <1>2 DEF FormTrue
  <2>1. CASE n = m \/ n = Reference!NewForm
    BY <1>1, <1>2, <2>1
  <2>2. ASSUME NEW f, n = [m EXCEPT !.focus = f] PROVE FormTrue(n)
    BY <1>2, <2>0, <2>2 DEF FormTrue, FormFields
  <2>3. ASSUME NEW f, n = [m EXCEPT !.priority = f] PROVE FormTrue(n)
    BY <1>2, <2>0, <2>3 DEF FormTrue, FormFields
  <2>4. ASSUME NEW v, ~m.submitted, n = Reference!Edited(m, v) PROVE FormTrue(n)
    <3>1. DOMAIN n = FormFields /\ n.inputs = [m.inputs EXCEPT ![m.focus] = v]
          /\ n.errors = m.errors \ {m.focus} /\ n.submitted = m.submitted
      BY <2>0, <2>4 DEF Reference!Edited, FormFields
    <3> QED
      BY <1>2, <2>0, <2>4, <3>1 DEF FormTrue
  <2>5. CASE ~m.submitted /\ n = Reference!Submitted(m)
    <3> DEFINE invalid == {f \in Reference!Fields : ~Reference!Valid(m.inputs[f])}
    <3>1. DOMAIN n = FormFields /\ n.inputs = m.inputs /\ n.errors = invalid
      BY <2>0, <2>5 DEF Reference!Submitted, FormFields
    <3>2. n.submitted => invalid = {}
      BY <2>0, <2>5 DEF Reference!Submitted, FormFields
    <3> QED
      BY <2>0, <3>1, <3>2 DEF FormTrue
  <2> QED
    BY <2>1, <2>2, <2>3, <2>4, <2>5 DEF Reference!FormSteps
<1> QED
  BY <1>1, <1>2

(* The orders that are listed have the numbers of their rows.              *)
LEMMA RowsNumbered ==
  ASSUME NEW m, m.sort \in 0..2
  PROVE  DOMAIN Reference!RowsOf(m) = 1..Len(Reference!RowsOf(m))
BY DEF Reference!RowsOf

(* The table (reference/table.go:58-107).                                  *)
LEMMA TablesTrue ==
  /\ TableTrue(Reference!NewTable)
  /\ \A m : TableTrue(m) => \A n \in Reference!TableSteps(m) : TableTrue(n)
<1>1. TableTrue(Reference!NewTable)
  BY DEF TableTrue, Reference!NewTable, TableFields
<1>2. ASSUME NEW m, TableTrue(m), NEW n \in Reference!TableSteps(m) PROVE TableTrue(n)
  <2>0. DOMAIN m = TableFields /\ m.sort \in 0..2
    BY <1>2 DEF TableTrue
  <2>1. CASE n = [m EXCEPT !.detail = FALSE]
    BY <2>0, <2>1 DEF TableTrue, TableFields
  <2>2. ASSUME NEW k, DOMAIN k = TableFields, k.sort \in 0..2, ~k.detail,
               n = k \/ n = Reference!WithRows(k)
        PROVE  TableTrue(n)
    <3>1. DOMAIN n = TableFields /\ n.sort = k.sort /\ n.detail = k.detail
      BY <2>2 DEF Reference!WithRows, TableFields
    <3> QED
      BY <2>2, <3>1 DEF TableTrue
  <2>3. ASSUME ~m.detail PROVE \/ n = [m EXCEPT !.detail = TRUE] /\ Reference!SelectedOrder(m) # 0
                               \/ TableTrue(n)
    <3>1. \A f : LET k == [m EXCEPT !.filter = f]
                 IN  DOMAIN k = TableFields /\ k.sort \in 0..2 /\ ~k.detail
      BY <2>0, <2>3 DEF TableFields
    <3>2. LET k == [m EXCEPT !.filtering = FALSE]
          IN  DOMAIN k = TableFields /\ k.sort \in 0..2 /\ ~k.detail
      BY <2>0, <2>3 DEF TableFields
    <3>3. \A f : LET k == [m EXCEPT !.filtering = FALSE, !.filter = f]
                 IN  DOMAIN k = TableFields /\ k.sort \in 0..2 /\ ~k.detail
      BY <2>0, <2>3 DEF TableFields
    <3>4. LET k == [m EXCEPT !.filtering = TRUE]
          IN  DOMAIN k = TableFields /\ k.sort \in 0..2 /\ ~k.detail
      BY <2>0, <2>3 DEF TableFields
    <3>5. LET k == [m EXCEPT !.sort = (m.sort + 1) % 3]
          IN  DOMAIN k = TableFields /\ k.sort \in 0..2 /\ ~k.detail
      BY <2>0, <2>3 DEF TableFields
    <3>6. \A c : LET k == [m EXCEPT !.cursor = c]
                 IN  DOMAIN k = TableFields /\ k.sort \in 0..2 /\ ~k.detail
      BY <2>0, <2>3 DEF TableFields
    <3>7. \/ \E f : n = Reference!WithRows([m EXCEPT !.filter = f])
          \/ n = [m EXCEPT !.filtering = FALSE]
          \/ \E f : n = Reference!WithRows([m EXCEPT !.filtering = FALSE, !.filter = f])
          \/ n = [m EXCEPT !.filtering = TRUE]
          \/ n = Reference!WithRows([m EXCEPT !.sort = (m.sort + 1) % 3])
          \/ \E c : n = [m EXCEPT !.cursor = c]
          \/ n = [m EXCEPT !.detail = TRUE] /\ Reference!SelectedOrder(m) # 0
      BY <1>2, <2>3 DEF Reference!TableSteps
    <3> QED
      BY <2>2, <3>1, <3>2, <3>3, <3>4, <3>5, <3>6, <3>7
  <2>4. CASE n = [m EXCEPT !.detail = TRUE] /\ Reference!SelectedOrder(m) # 0
    <3>1. DOMAIN n = TableFields /\ n.sort = m.sort /\ n.filter = m.filter /\ n.cursor = m.cursor
      BY <2>0, <2>4 DEF TableFields
    <3>2. Reference!RowsOf(n) = Reference!RowsOf(m)
      BY <3>1 DEF Reference!RowsOf
    <3> QED
      BY <2>0, <2>4, <3>1, <3>2 DEF TableTrue, Reference!SelectedOrder
  <2>5. CASE m.detail
    BY <1>2, <2>1, <2>5 DEF Reference!TableSteps
  <2> QED
    BY <2>3, <2>4, <2>5
<1> QED
  BY <1>1, <1>2

(* A resize keeps the order that is selected (reference/table.go:119-207). *)
LEMMA TablesResized ==
  ASSUME NEW m, TableTrue(m)
  PROVE  LET n == Reference!ResizedTable(m)
         IN  /\ TableTrue(n)
             /\ Reference!SelectedOrder(m) \in {0, Reference!SelectedOrder(n)}
<1> DEFINE n == Reference!ResizedTable(m)
           rows == Reference!RowsOf(m)
           order == Reference!SelectedOrder(m)
           place == CHOOSE i \in DOMAIN rows : rows[i] = order
<1>1. DOMAIN m = TableFields /\ m.sort \in 0..2 /\ DOMAIN rows = 1..Len(rows)
  BY RowsNumbered DEF TableTrue
<1>2. /\ DOMAIN n = TableFields /\ n.sort = m.sort /\ n.filter = m.filter /\ n.detail = m.detail
      /\ order # 0 => n.cursor = place - 1
  BY <1>1 DEF Reference!ResizedTable, TableFields
<1> HIDE DEF n
<1>3. Reference!RowsOf(n) = rows
  BY <1>2 DEF Reference!RowsOf
<1>4. ASSUME order # 0 PROVE Reference!SelectedOrder(n) = order
  <2>1. m.cursor \in 0..(Len(rows) - 1) /\ rows[m.cursor + 1] = order
    BY <1>4 DEF Reference!SelectedOrder
  <2> HIDE DEF rows, order
  <2>2. m.cursor + 1 \in DOMAIN rows
    BY <1>1, <2>1
  <2>3. place \in DOMAIN rows /\ rows[place] = order
    BY <2>1, <2>2
  <2> HIDE DEF place
  <2>4. n.cursor \in 0..(Len(rows) - 1) /\ n.cursor + 1 = place
    BY <1>1, <1>2, <1>4, <2>3
  <2> QED
    BY <1>3, <2>3, <2>4 DEF Reference!SelectedOrder
<1>5. TableTrue(n)
  BY <1>1, <1>2, <1>4 DEF TableTrue
<1> QED
  BY <1>4, <1>5 DEF n

(* The least and the greatest that a value is brought to.                  *)
LEMMA ClampBounds ==
  ASSUME NEW high \in Nat, NEW n \in Int
  PROVE  Reference!Clamp(0, n, high) \in 0..high
BY DEF Reference!Clamp, Reference!Higher, Reference!Lower

(* The event log (reference/scrolling.go:36-162).                          *)
LEMMA EventsTrue ==
  /\ ScrollingTrue(Reference!NewScrolling)
  /\ \A m : ScrollingTrue(m) =>
       /\ \A s : SizeSound(s) =>
            \A n \in Reference!ScrollingSteps(m, s) : ScrollingTrue(n)
       /\ \A n \in Reference!Starts("scrolling", m) : ScrollingTrue(n)
       /\ ScrollingTrue(Reference!ScrollingTicked(m))
       /\ ScrollingTrue([m EXCEPT !.cursor = Reference!Clamp(0, m.cursor, m.events - 1)])
<1>1. ScrollingTrue(Reference!NewScrolling)
  BY DisplaysAssumption DEF ScrollingTrue, Reference!NewScrolling, ScrollingFields
<1>2. ASSUME NEW m, ScrollingTrue(m)
      PROVE  /\ \A s : SizeSound(s) =>
                  \A n \in Reference!ScrollingSteps(m, s) : ScrollingTrue(n)
             /\ \A n \in Reference!Starts("scrolling", m) : ScrollingTrue(n)
             /\ ScrollingTrue(Reference!ScrollingTicked(m))
             /\ ScrollingTrue([m EXCEPT !.cursor = Reference!Clamp(0, m.cursor, m.events - 1)])
  <2>0. /\ DOMAIN m = ScrollingFields /\ m.events \in Nat /\ m.events > 0 /\ m.cursor \in Nat
        /\ m.cursor < m.events /\ (m.follow => m.cursor = m.events - 1)
    BY <1>2 DEF ScrollingTrue
  <2>a. ScrollingTrue(Reference!Appended(m))
    <3> DEFINE n == Reference!Appended(m)
    <3>1. /\ DOMAIN n = ScrollingFields /\ n.events = m.events + 1
          /\ n.cursor = (IF m.follow THEN m.events ELSE m.cursor) /\ n.follow = m.follow
      BY <2>0 DEF Reference!Appended, ScrollingFields
    <3> HIDE DEF n
    <3>2. ScrollingTrue(n)
      BY <2>0, <3>1 DEF ScrollingTrue
    <3> QED
      BY <3>2 DEF n
  <2>m. ASSUME NEW delta \in Int PROVE ScrollingTrue(Reference!Moved(m, delta))
    <3> DEFINE n == Reference!Moved(m, delta)
               c == Reference!Clamp(0, m.cursor + delta, m.events - 1)
    <3>0. m.events - 1 \in Nat /\ m.cursor + delta \in Int
      BY <2>0
    <3>1. c \in 0..(m.events - 1)
      BY <3>0, ClampBounds
    <3>2. /\ DOMAIN n = ScrollingFields /\ n.events = m.events /\ n.cursor = c
          /\ (n.follow => c = m.events - 1)
      BY <2>0 DEF Reference!Moved, ScrollingFields
    <3> HIDE DEF n, c
    <3>3. ScrollingTrue(n)
      BY <2>0, <3>1, <3>2 DEF ScrollingTrue
    <3> QED
      BY <3>3 DEF n
  <2>1. ASSUME NEW n, NEW c \in 0..(m.events - 1), DOMAIN n = ScrollingFields, n.cursor = c,
               n.events = m.events, n.follow => c = m.events - 1
        PROVE  ScrollingTrue(n)
    BY <2>0, <2>1 DEF ScrollingTrue
  <2>2. ASSUME NEW s, SizeSound(s), NEW n \in Reference!ScrollingSteps(m, s)
        PROVE  ScrollingTrue(n)
    <3> DEFINE page1 == Reference!Higher(1, s.height - 8)
    <3>0. page1 \in Int /\ -page1 \in Int
      BY <2>2 DEF SizeSound, Reference!Higher
    <3>1. ASSUME NEW d \in {-1, 1, -page1, page1}, n = Reference!Moved(m, d)
          PROVE  ScrollingTrue(n)
      <4> HIDE DEF page1
      <4>1. d \in Int
        BY <3>0
      <4> QED
        BY <2>m, <3>1, <4>1
    <3>2. CASE n = [m EXCEPT !.cursor = 0, !.follow = FALSE]
      <4>1. DOMAIN n = ScrollingFields /\ n.events = m.events /\ n.cursor = 0 /\ ~n.follow
        BY <2>0, <3>2 DEF ScrollingFields
      <4> QED
        BY <2>0, <4>1 DEF ScrollingTrue
    <3>3. CASE n = [m EXCEPT !.cursor = m.events - 1]
      BY <2>0, <2>1, <3>3 DEF ScrollingFields
    <3>4. CASE n = [m EXCEPT !.follow = ~m.follow,
                             !.cursor = IF m.follow THEN m.cursor ELSE m.events - 1]
      <4>1. /\ DOMAIN n = ScrollingFields /\ n.events = m.events
            /\ n.cursor = IF m.follow THEN m.cursor ELSE m.events - 1
        BY <2>0, <3>4 DEF ScrollingFields
      <4>2. n.follow => ~m.follow
        BY <2>0, <3>4 DEF ScrollingFields
      <4> QED
        BY <2>0, <2>1, <4>1, <4>2
    <3>5. ASSUME NEW g, n = [Reference!NewScrolling EXCEPT !.generation = g]
          PROVE  ScrollingTrue(n)
      BY <1>1, <3>5 DEF ScrollingTrue, ScrollingFields
    <3>6. CASE n = Reference!Appended(m)
      BY <2>a, <3>6
    <3>7. \/ \E d \in {-1, 1, -page1, page1} : n = Reference!Moved(m, d)
          \/ n = [m EXCEPT !.cursor = 0, !.follow = FALSE]
          \/ n = [m EXCEPT !.cursor = m.events - 1]
          \/ n = [m EXCEPT !.follow = ~m.follow,
                           !.cursor = IF m.follow THEN m.cursor ELSE m.events - 1]
          \/ \E g : n = [Reference!NewScrolling EXCEPT !.generation = g]
          \/ n = Reference!Appended(m)
      BY <2>2 DEF Reference!ScrollingSteps
    <3> QED
      BY <3>1, <3>2, <3>3, <3>4, <3>5, <3>6, <3>7
  <2>3. ASSUME NEW n \in Reference!Starts("scrolling", m) PROVE ScrollingTrue(n)
    <3>1. n = [m EXCEPT !.streaming = TRUE, !.remaining = 5, !.generation = m.generation + 1]
      BY <2>3 DEF Reference!Starts, Reference!Streamed
    <3>2. /\ DOMAIN n = ScrollingFields /\ n.events = m.events /\ n.cursor = m.cursor
          /\ n.follow = m.follow
      BY <2>0, <3>1 DEF ScrollingFields
    <3> QED
      BY <2>0, <3>2 DEF ScrollingTrue
  <2>4. ScrollingTrue(Reference!ScrollingTicked(m))
    <3> DEFINE k == Reference!Appended(m)
    <3> HIDE DEF k
    <3>1. \A r, b : LET n == [k EXCEPT !.remaining = r, !.streaming = b]
                    IN  DOMAIN n = DOMAIN k /\ (DOMAIN k = ScrollingFields =>
                          n.events = k.events /\ n.cursor = k.cursor /\ n.follow = k.follow)
      BY DEF ScrollingFields
    <3>2. \E r, b : Reference!ScrollingTicked(m) = [k EXCEPT !.remaining = r, !.streaming = b]
      BY DEF Reference!ScrollingTicked, k
    <3> QED
      BY <2>a, <3>1, <3>2 DEF ScrollingTrue, k
  <2>5. ScrollingTrue([m EXCEPT !.cursor = Reference!Clamp(0, m.cursor, m.events - 1)])
    <3> DEFINE c == Reference!Clamp(0, m.cursor, m.events - 1)
    <3>1. c = m.cursor
      BY <2>0 DEF Reference!Clamp, Reference!Higher, Reference!Lower
    <3>2. ASSUME NEW n, n = [m EXCEPT !.cursor = m.cursor] PROVE ScrollingTrue(n)
      <4>1. /\ DOMAIN n = ScrollingFields /\ n.events = m.events /\ n.cursor = m.cursor
            /\ n.follow = m.follow
        BY <2>0, <3>2 DEF ScrollingFields
      <4> QED
        BY <2>0, <4>1 DEF ScrollingTrue
    <3> HIDE DEF c
    <3>3. ScrollingTrue([m EXCEPT !.cursor = c])
      BY <3>1, <3>2
    <3> QED
      BY <3>3 DEF c
  <2> QED
    BY <2>2, <2>3, <2>4, <2>5
<1> QED
  BY <1>1, <1>2

(* The cursor page (reference/cursor.go:30-115).                           *)
LEMMA CursorsTrue ==
  ASSUME NEW s, SizeSound(s)
  PROVE  /\ CursorTrue(Reference!NewCursor(s), s)
         /\ \A m : CursorTrue(m, s) => \A n \in Reference!CursorSteps(m, s) : CursorTrue(n, s)
<1>0. s.width \in Nat /\ s.width > 0 /\ s.height \in Nat /\ s.height > 0
  BY DEF SizeSound
<1>1. CursorTrue(Reference!NewCursor(s), s)
  BY <1>0 DEF CursorTrue, Reference!NewCursor, CursorFields, OnPage
<1>2. ASSUME NEW m, CursorTrue(m, s), NEW column \in Int, NEW row \in Int
      PROVE  CursorTrue(Reference!At(m, column, row, s), s)
  <2> DEFINE n == Reference!At(m, column, row, s)
             a == Reference!Clamp(0, column, s.width - 1)
             b == Reference!Clamp(0, row, s.height - 1)
  <2>0. s.width - 1 \in Nat /\ s.height - 1 \in Nat
    BY <1>0
  <2>1. OnPage(a, b, s)
    BY <2>0, ClampBounds DEF OnPage
  <2> HIDE DEF a, b
  <2>2. DOMAIN n = CursorFields /\ n.column = a /\ n.row = b /\ n.saved = m.saved
    BY <1>2 DEF Reference!At, CursorTrue, CursorFields, a, b
  <2> HIDE DEF n
  <2>3. CursorTrue(n, s)
    BY <1>2, <2>1, <2>2 DEF CursorTrue
  <2> QED
    BY <2>3 DEF n
<1>3. ASSUME NEW m, CursorTrue(m, s) PROVE m.column \in Int /\ m.row \in Int
  BY <1>0, <1>3 DEF CursorTrue, OnPage
<1>4. ASSUME NEW m, CursorTrue(m, s), NEW n \in Reference!CursorSteps(m, s)
      PROVE  CursorTrue(n, s)
  <2>1. \A k : CursorTrue(k, s) => /\ CursorTrue(Reference!At(k, k.column + 1, k.row, s), s)
                                   /\ CursorTrue(Reference!At(k, k.column - 1, k.row, s), s)
                                   /\ CursorTrue(Reference!At(k, k.column, k.row + 1, s), s)
                                   /\ CursorTrue(Reference!At(k, k.column, k.row - 1, s), s)
    BY <1>2, <1>3
  <2>2. CASE \/ \E d \in {-1, 1} : n = Reference!At(m, m.column + d, m.row, s)
             \/ \E d \in {-1, 1} : n = Reference!At(m, m.column, m.row + d, s)
    BY <1>2, <1>3, <1>4, <2>2
  <2>3. CASE n = [m EXCEPT !.saved = <<m.column, m.row>>]
    BY <1>4, <2>3 DEF CursorTrue, CursorFields, OnPage
  <2>4. ASSUME NEW v, n = [m EXCEPT !.visible = v] PROVE CursorTrue(n, s)
    BY <1>4, <2>4 DEF CursorTrue, CursorFields, OnPage
  <2>5. CASE m.saved # <<>> /\ n = Reference!At(m, m.saved[1], m.saved[2], s)
    <3>1. m.saved[1] \in Int /\ m.saved[2] \in Int
      BY <1>0, <1>4, <2>5 DEF CursorTrue, OnPage
    <3> QED
      BY <1>2, <1>4, <2>5, <3>1
  <2>6. CASE n = LET a == Reference!At(m, m.column + 1, m.row, s)
                     b == Reference!At(a, a.column, a.row + 1, s)
                     c == Reference!At(b, b.column, b.row + 1, s)
                 IN  Reference!At(c, c.column - 1, c.row, s)
    BY <1>4, <2>1, <2>6
  <2> QED
    BY <1>1, <1>4, <2>2, <2>3, <2>4, <2>5, <2>6 DEF Reference!CursorSteps
<1> QED
  BY <1>1, <1>4

(* A resize brings the cursor and the saved one inside                     *)
(* (reference/cursor.go:102-115).                                          *)
LEMMA CursorsResized ==
  ASSUME NEW m, NEW t, SizeSound(t), CursorTrue(m, t), NEW s, SizeSound(s)
  PROVE  CursorTrue(Reference!ResizedCursor(m, s), s)
<1> DEFINE n == Reference!ResizedCursor(m, s)
           a == Reference!Clamp(0, m.column, s.width - 1)
           b == Reference!Clamp(0, m.row, s.height - 1)
           c == Reference!Clamp(0, m.saved[1], s.width - 1)
           d == Reference!Clamp(0, m.saved[2], s.height - 1)
<1>0. /\ s.width - 1 \in Nat /\ s.height - 1 \in Nat
      /\ m.column \in Int /\ m.row \in Int
      /\ m.saved # <<>> => m.saved[1] \in Int /\ m.saved[2] \in Int
  BY DEF SizeSound, CursorTrue, OnPage
<1>1. OnPage(a, b, s) /\ (m.saved # <<>> => OnPage(c, d, s))
  BY <1>0, ClampBounds DEF OnPage
<1> HIDE DEF a, b, c, d
<1>2. /\ DOMAIN n = CursorFields /\ n.column = a /\ n.row = b
      /\ n.saved = IF m.saved = <<>> THEN m.saved ELSE <<c, d>>
  BY DEF Reference!ResizedCursor, Reference!At, CursorTrue, CursorFields, a, b, c, d
<1> HIDE DEF n
<1>3. CursorTrue(n, s)
  BY <1>1, <1>2 DEF CursorTrue
<1> QED
  BY <1>3 DEF n

(* The partial screen (reference/partial.go:40-110).                       *)
LEMMA ScreensTrue ==
  /\ PartialTrue(Reference!NewPartial)
  /\ \A m : PartialTrue(m) =>
       /\ \A n \in Reference!PartialSteps(m) : PartialTrue(n)
       /\ \A n \in Reference!Starts("partial", m) : PartialTrue(n)
       /\ m.running => PartialTrue(Reference!PartialTicked(m))
<1>0. \A m : Reference!LastStep(m) \in {0, 4, 5, 10}
  BY DEF Reference!LastStep
<1>l. \A m, n : m.mode = n.mode => Reference!LastStep(m) = Reference!LastStep(n)
  BY DEF Reference!LastStep
<1>1. PartialTrue(Reference!NewPartial)
  BY DEF PartialTrue, Reference!NewPartial, PartialFields, Reference!LastStep
<1>2. ASSUME NEW m, PartialTrue(m), NEW n \in Reference!PartialSteps(m) PROVE PartialTrue(n)
  <2>1. \/ n = [m EXCEPT !.ignored = m.ignored + 1]
        \/ n = [m EXCEPT !.accepted = m.accepted + 1] /\ ~Reference!Gated(m)
    BY <1>2 DEF Reference!PartialSteps
  <2>2. /\ DOMAIN n = PartialFields /\ n.step = m.step /\ n.mode = m.mode /\ n.running = m.running
        /\ n.ignored \in Nat /\ n.accepted \in Nat
        /\ n.accepted = m.accepted \/ ~Reference!Gated(m)
    BY <1>2, <2>1 DEF PartialTrue, PartialFields
  <2> QED
    BY <1>0, <1>l, <1>2, <2>2 DEF PartialTrue, Reference!Gated
<1>3. ASSUME NEW m, NEW n \in Reference!Starts("partial", m) PROVE PartialTrue(n)
  <2>1. PICK mode \in {"ready", "regions", "progress"} :
          n = [Reference!NewPartial EXCEPT !.mode = mode, !.running = TRUE,
                                           !.generation = m.generation + 1]
    BY <1>3 DEF Reference!Starts
  <2>2. DOMAIN n = PartialFields /\ n.mode = mode /\ n.step = 0 /\ n.ignored = 0 /\ n.accepted = 0
    BY <2>1 DEF Reference!NewPartial, PartialFields
  <2> QED
    BY <2>2 DEF PartialTrue, Reference!LastStep
<1>4. ASSUME NEW m, PartialTrue(m), m.running PROVE PartialTrue(Reference!PartialTicked(m))
  <2> DEFINE n == Reference!PartialTicked(m)
  <2>1. /\ DOMAIN n = PartialFields /\ n.step = m.step + 1 /\ n.mode = m.mode
        /\ n.ignored = m.ignored /\ n.accepted = m.accepted
        /\ n.running => m.step + 1 < Reference!LastStep(m)
    BY <1>4 DEF Reference!PartialTicked, PartialTrue, PartialFields
  <2> HIDE DEF n
  <2>2. PartialTrue(n)
    BY <1>0, <1>l, <1>4, <2>1 DEF PartialTrue
  <2> QED
    BY <2>2 DEF n
<1> QED
  BY <1>1, <1>2, <1>3, <1>4

(* The operations (reference/long_running.go:45-152).                      *)
LEMMA OperationsTrue ==
  /\ LongRunningTrue(Reference!NewLongRunning)
  /\ \A m : LongRunningTrue(m) =>
       /\ \A n \in Reference!LongRunningStops(m) : LongRunningTrue(n)
       /\ \A n \in Reference!Starts("longRunning", m) : LongRunningTrue(n)
<1>1. LongRunningTrue(Reference!NewLongRunning)
  BY DEF LongRunningTrue, Reference!NewLongRunning, LongRunningFields
<1>2. ASSUME NEW m, LongRunningTrue(m), m.running, NEW n,
             DOMAIN n = LongRunningFields, n.processed = m.processed, n.succeeded = m.succeeded,
             n.failed = m.failed, n.remaining = m.remaining, n.mode = m.mode,
             \/ n.status \in {"RUNNING", "PAUSED"}
             \/ n.status = "CANCELED" /\ ~n.running
      PROVE  LongRunningTrue(n)
  BY <1>2 DEF LongRunningTrue
<1>3. ASSUME NEW m, LongRunningTrue(m), NEW n \in Reference!LongRunningStops(m)
      PROVE  LongRunningTrue(n)
  <2>0. DOMAIN m = LongRunningFields /\ m.running
    BY <1>3 DEF LongRunningTrue, Reference!LongRunningStops
  <2>1. CASE n = Reference!Stopped(m, "CANCELED")
    <3>1. /\ DOMAIN n = LongRunningFields /\ n.processed = m.processed
          /\ n.succeeded = m.succeeded /\ n.failed = m.failed /\ n.remaining = m.remaining
          /\ n.mode = m.mode /\ n.status = "CANCELED" /\ ~n.running
      BY <2>0, <2>1 DEF Reference!Stopped, LongRunningFields
    <3> QED
      BY <1>2, <1>3, <2>0, <3>1
  <2>2. CASE n = [m EXCEPT !.paused = TRUE, !.generation = m.generation + 1, !.status = "PAUSED"]
    <3>1. /\ DOMAIN n = LongRunningFields /\ n.processed = m.processed
          /\ n.succeeded = m.succeeded /\ n.failed = m.failed /\ n.remaining = m.remaining
          /\ n.mode = m.mode /\ n.status = "PAUSED"
      BY <2>0, <2>2 DEF LongRunningFields
    <3> QED
      BY <1>2, <1>3, <2>0, <3>1
  <2> QED
    BY <1>3, <2>0, <2>1, <2>2 DEF Reference!LongRunningStops
<1>4. ASSUME NEW m, LongRunningTrue(m), NEW n \in Reference!Starts("longRunning", m)
      PROVE  LongRunningTrue(n)
  <2>0. DOMAIN m = LongRunningFields
    BY <1>4 DEF LongRunningTrue
  <2>1. \/ \E mode \in {"finite", "continuous", "failure"} :
             n = [Reference!NewLongRunning EXCEPT
                    !.mode = mode, !.running = TRUE, !.status = "RUNNING",
                    !.generation = m.generation + 1, !.remaining = Reference!Total(mode)]
        \/ /\ m.running
           /\ n = [m EXCEPT !.paused = FALSE, !.generation = m.generation + 1, !.status = "RUNNING"]
    BY <1>4 DEF Reference!Starts
  <2>2. CASE /\ m.running
             /\ n = [m EXCEPT !.paused = FALSE, !.generation = m.generation + 1,
                              !.status = "RUNNING"]
    <3>1. /\ DOMAIN n = LongRunningFields /\ n.processed = m.processed
          /\ n.succeeded = m.succeeded /\ n.failed = m.failed /\ n.remaining = m.remaining
          /\ n.mode = m.mode /\ n.status = "RUNNING"
      BY <2>0, <2>2 DEF LongRunningFields
    <3> QED
      BY <1>2, <1>4, <2>2, <3>1
  <2>3. ASSUME NEW mode \in {"finite", "continuous", "failure"},
               n = [Reference!NewLongRunning EXCEPT
                      !.mode = mode, !.running = TRUE, !.status = "RUNNING",
                      !.generation = m.generation + 1, !.remaining = Reference!Total(mode)]
        PROVE  LongRunningTrue(n)
    <3>1. /\ DOMAIN n = LongRunningFields /\ n.processed = 0 /\ n.succeeded = 0 /\ n.failed = 0
          /\ n.mode = mode /\ n.remaining = Reference!Total(mode) /\ n.status = "RUNNING"
      BY <2>3 DEF Reference!NewLongRunning, LongRunningFields
    <3>2. /\ mode = "finite" => n.remaining = 120
          /\ mode = "failure" => n.remaining = 100
          /\ mode = "continuous" => n.remaining = -1
      BY <3>1 DEF Reference!Total
    <3> QED
      BY <3>1, <3>2 DEF LongRunningTrue
  <2> QED
    BY <2>1, <2>2, <2>3
<1> QED
  BY <1>1, <1>3, <1>4

(* One heartbeat of an operation (reference/long_running.go:121-152).      *)
LEMMA BeatsTrue ==
  ASSUME NEW m, LongRunningTrue(m), m.running
  PROVE  LongRunningTrue(Reference!LongRunningTicked(m))
<1> DEFINE Counts(n, p, s, f, r) ==
             /\ DOMAIN n = LongRunningFields /\ n.processed = p /\ n.succeeded = s
             /\ n.failed = f /\ n.remaining = r /\ n.mode = m.mode
           Runs(n) == n.running /\ n.status = m.status
<1>0. /\ DOMAIN m = LongRunningFields
      /\ m.processed \in Int /\ m.succeeded \in Int /\ m.failed \in Int /\ m.remaining \in Int
      /\ m.mode \in {"finite", "failure", "continuous"} /\ m.status \in {"RUNNING", "PAUSED"}
      /\ m.processed = m.succeeded + m.failed
  BY DEF LongRunningTrue
<1>1. LET n == Reference!Beaten(m)
      IN  Counts(n, m.processed, m.succeeded, m.failed, m.remaining) /\ Runs(n)
  BY <1>0 DEF Reference!Beaten, LongRunningFields
<1>2. \A n, p, s, f, r : Counts(n, p, s, f, r) /\ Runs(n) =>
        Counts(Reference!Logged(n), p, s, f, r) /\ Runs(Reference!Logged(n))
  BY DEF Reference!Logged, LongRunningFields
<1>3. \A n, p, s, f, r, status : Counts(n, p, s, f, r) =>
        LET k == Reference!Stopped(n, status)
        IN  Counts(k, p, s, f, r) /\ k.status = status /\ ~k.running
  BY DEF Reference!Stopped, LongRunningFields
<1>4. \A n, a, b, c, d, p, s, f, r : Counts(n, p, s, f, r) /\ Runs(n) =>
        LET k == [n EXCEPT !.processed = a, !.remaining = b, !.failed = c, !.succeeded = d]
        IN  Counts(k, a, d, c, b) /\ Runs(k)
  BY DEF LongRunningFields
<1>5. \A n, a, b, d, p, s, f, r : Counts(n, p, s, f, r) /\ Runs(n) =>
        LET k == [n EXCEPT !.processed = a, !.remaining = b, !.succeeded = d]
        IN  Counts(k, a, d, f, b) /\ Runs(k)
  BY DEF LongRunningFields
<1>6. \A n, a, d, p, s, f, r : Counts(n, p, s, f, r) /\ Runs(n) =>
        LET k == [n EXCEPT !.processed = a, !.succeeded = d]
        IN  Counts(k, a, d, f, r) /\ Runs(k)
  BY DEF LongRunningFields
<1>7. \A n, c, d, p, s, f, r : Counts(n, p, s, f, r) /\ Runs(n) =>
        LET k == [n EXCEPT !.failed = c, !.succeeded = d]
        IN  Counts(k, p, d, c, r) /\ Runs(k)
  BY DEF LongRunningFields
<1> DEFINE u == Reference!LongRunningTicked(m)
           beaten == Reference!Beaten(m)
<1>b. /\ Counts(beaten, m.processed, m.succeeded, m.failed, m.remaining) /\ Runs(beaten)
  BY <1>1
<1>8. CASE m.mode = "finite"
  <2> DEFINE batch == Reference!Lower(3, m.remaining)
             processed == m.processed + batch
             late == processed \div 30
             next == Reference!Logged(
                       [beaten EXCEPT !.processed = processed,
                                      !.remaining = beaten.remaining - batch,
                                      !.failed = late,
                                      !.succeeded = processed - late])
  <2>0. batch \in Int
    BY <1>0 DEF Reference!Lower
  <2>1. u = IF next.remaining = 0 THEN Reference!Stopped(next, "COMPLETE") ELSE next
    BY <1>8 DEF Reference!LongRunningTicked, Reference!FiniteBeat
  <2>2. beaten.remaining = m.remaining
    BY <1>b
  <2>3. processed \in Int /\ late \in Int
    BY <1>0, <2>0
  <2> HIDE DEF beaten, batch, late, Counts, Runs
  <2>4. Counts(next, processed, processed - late, late, m.remaining - batch) /\ Runs(next)
    BY <1>2, <1>4, <1>b, <2>2
  <2> HIDE DEF next, processed
  <2>5. \/ u = next /\ Runs(u)
        \/ u.status = "COMPLETE" /\ ~u.running /\ next.remaining = 0
    BY <1>3, <2>1, <2>4
  <2>6. Counts(u, processed, processed - late, late, m.remaining - batch)
    BY <1>3, <2>1, <2>4
  <2>7. m.processed + m.remaining = 120
    BY <1>8 DEF LongRunningTrue
  <2>8. processed + (m.remaining - batch) = 120
    BY <1>0, <2>0, <2>7 DEF processed
  <2> HIDE DEF u
  <2>9. LongRunningTrue(u)
    BY <1>0, <1>8, <2>0, <2>3, <2>4, <2>5, <2>6, <2>8 DEF LongRunningTrue, Counts, Runs
  <2> QED
    BY <2>9 DEF u
<1>9. CASE m.mode = "failure"
  <2> DEFINE next == [beaten EXCEPT !.processed = beaten.processed + 10,
                                    !.remaining = beaten.remaining - 10,
                                    !.succeeded = m.processed + 10]
             failed == [next EXCEPT !.failed = 1, !.succeeded = 59]
  <2>1. u = IF next.processed = 60 THEN Reference!Stopped(failed, "FAILED") ELSE next
    BY <1>9 DEF Reference!LongRunningTicked, Reference!FailureBeat
  <2>2. beaten.processed = m.processed /\ beaten.remaining = m.remaining
    BY <1>b
  <2> HIDE DEF beaten, Counts, Runs
  <2>3. Counts(next, m.processed + 10, m.processed + 10, m.failed, m.remaining - 10)
        /\ Runs(next)
    BY <1>5, <1>b, <2>2
  <2> HIDE DEF next
  <2>4. Counts(failed, m.processed + 10, 59, 1, m.remaining - 10)
    BY <1>7, <2>3
  <2> HIDE DEF failed
  <2>5. m.processed + m.remaining = 100 /\ m.failed = 0
    BY <1>9 DEF LongRunningTrue
  <2>6. CASE next.processed = 60
    <3>1. Counts(u, m.processed + 10, 59, 1, m.remaining - 10) /\ u.status = "FAILED"
          /\ ~u.running
      BY <1>3, <2>1, <2>4, <2>6
    <3>2. m.processed + 10 = 60
      BY <2>3, <2>6 DEF Counts
    <3> HIDE DEF u
    <3>9. LongRunningTrue(u)
      BY <1>0, <1>9, <2>5, <3>1, <3>2 DEF LongRunningTrue, Counts
    <3> QED
      BY <3>9 DEF u
  <2>7. CASE next.processed # 60
    <3>1. u = next
      BY <2>1, <2>7
    <3> HIDE DEF u
    <3>9. LongRunningTrue(u)
      BY <1>0, <1>9, <2>3, <2>5, <3>1 DEF LongRunningTrue, Counts, Runs
    <3> QED
      BY <3>9 DEF u
  <2> QED
    BY <2>6, <2>7
<1>10. CASE m.mode = "continuous"
  <2> DEFINE next == [beaten EXCEPT !.processed = beaten.processed + 1,
                                    !.succeeded = m.processed + 1]
  <2>1. u = Reference!Logged(next)
    BY <1>10 DEF Reference!LongRunningTicked
  <2>2. beaten.processed = m.processed
    BY <1>b
  <2> HIDE DEF beaten, Counts, Runs
  <2>3. Counts(next, m.processed + 1, m.processed + 1, m.failed, m.remaining) /\ Runs(next)
    BY <1>6, <1>b, <2>2
  <2> HIDE DEF next
  <2>4. Counts(u, m.processed + 1, m.processed + 1, m.failed, m.remaining) /\ Runs(u)
    BY <1>2, <2>1, <2>3
  <2>5. m.failed = 0
    BY <1>10 DEF LongRunningTrue
  <2> HIDE DEF u
  <2>9. LongRunningTrue(u)
    BY <1>0, <1>10, <2>4, <2>5 DEF LongRunningTrue, Counts, Runs
  <2> QED
    BY <2>9 DEF u
<1> QED
  BY <1>0, <1>8, <1>9, <1>10

(* Any page when it is opened, and after a key, a start, a timer or a      *)
(* resize (reference/application.go:432-560).                              *)
LEMMA PagesTrue ==
  ASSUME NEW p, NEW s, SizeSound(s)
  PROVE  /\ Truthful(p, Reference!NewModel(p, s), s)
         /\ \A m : Truthful(p, m, s) =>
              /\ p \in Reference!Modelled =>
                   \A n \in Reference!Steps(p, m, s) : Truthful(p, n, s)
              /\ \A n \in Reference!Starts(p, m) : Truthful(p, n, s)
              /\ Reference!Active(p, m) => Truthful(p, Reference!Ticked(p, m), s)
              /\ \A t : SizeSound(t) => Truthful(p, Reference!Resized(p, m, t), t)
<1> DEFINE All(m) == /\ \A n \in Reference!Steps(p, m, s) : Truthful(p, n, s)
                     /\ \A n \in Reference!Starts(p, m) : Truthful(p, n, s)
                     /\ Reference!Active(p, m) => Truthful(p, Reference!Ticked(p, m), s)
                     /\ \A t : SizeSound(t) => Truthful(p, Reference!Resized(p, m, t), t)
<1>1. CASE p = "form"
  BY <1>1, FormsTrue DEF Truthful, Reference!NewModel, Reference!Steps, Reference!Starts,
       Reference!Active, Reference!Resized
<1>2. CASE p = "table"
  BY <1>2, TablesTrue, TablesResized DEF Truthful, Reference!NewModel, Reference!Steps,
       Reference!Starts, Reference!Active, Reference!Resized
<1>3. CASE p = "scrolling"
  <2>1. Truthful(p, Reference!NewModel(p, s), s)
    BY <1>3, EventsTrue DEF Truthful, Reference!NewModel
  <2>2. ASSUME NEW m, Truthful(p, m, s) PROVE All(m)
    <3>1. ScrollingTrue(m)
      BY <1>3, <2>2 DEF Truthful
    <3>2. \A n \in Reference!Steps(p, m, s) : Truthful(p, n, s)
      BY <1>3, <3>1, EventsTrue DEF Truthful, Reference!Steps
    <3>3. \A n \in Reference!Starts(p, m) : Truthful(p, n, s)
      BY <1>3, <3>1, EventsTrue DEF Truthful
    <3>4. Truthful(p, Reference!Ticked(p, m), s)
      BY <1>3, <3>1, EventsTrue DEF Truthful, Reference!Ticked
    <3>5. \A t : SizeSound(t) => Truthful(p, Reference!Resized(p, m, t), t)
      BY <1>3, <3>1, EventsTrue DEF Truthful, Reference!Resized
    <3> QED
      BY <3>2, <3>3, <3>4, <3>5
  <2> QED
    BY <2>1, <2>2
<1>4. CASE p = "cursor"
  BY <1>4, CursorsTrue, CursorsResized DEF Truthful, Reference!NewModel, Reference!Steps,
       Reference!Starts, Reference!Active, Reference!Resized
<1>5. CASE p = "partial"
  <2>1. Truthful(p, Reference!NewModel(p, s), s)
    BY <1>5, ScreensTrue DEF Truthful, Reference!NewModel
  <2>2. ASSUME NEW m, Truthful(p, m, s) PROVE All(m)
    <3>1. PartialTrue(m)
      BY <1>5, <2>2 DEF Truthful
    <3>2. \A n \in Reference!Steps(p, m, s) : Truthful(p, n, s)
      BY <1>5, <3>1, ScreensTrue DEF Truthful, Reference!Steps
    <3>3. \A n \in Reference!Starts(p, m) : Truthful(p, n, s)
      BY <1>5, <3>1, ScreensTrue DEF Truthful
    <3>4. Reference!Active(p, m) => Truthful(p, Reference!Ticked(p, m), s)
      BY <1>5, <3>1, ScreensTrue DEF Truthful, Reference!Ticked, Reference!Active
    <3>5. \A t : SizeSound(t) => Truthful(p, Reference!Resized(p, m, t), t)
      BY <1>5, <3>1 DEF Truthful, Reference!Resized
    <3> QED
      BY <3>2, <3>3, <3>4, <3>5
  <2> QED
    BY <2>1, <2>2
<1>6. CASE p = "longRunning"
  <2>1. Truthful(p, Reference!NewModel(p, s), s)
    BY <1>6, OperationsTrue DEF Truthful, Reference!NewModel
  <2>2. ASSUME NEW m, Truthful(p, m, s) PROVE All(m)
    <3>1. LongRunningTrue(m)
      BY <1>6, <2>2 DEF Truthful
    <3>2. \A n \in Reference!Steps(p, m, s) : Truthful(p, n, s)
      BY <1>6, <3>1, OperationsTrue DEF Truthful, Reference!Steps
    <3>3. \A n \in Reference!Starts(p, m) : Truthful(p, n, s)
      BY <1>6, <3>1, OperationsTrue DEF Truthful
    <3>4. Reference!Active(p, m) => Truthful(p, Reference!Ticked(p, m), s)
      BY <1>6, <3>1, BeatsTrue DEF Truthful, Reference!Ticked, Reference!Active
    <3>5. \A t : SizeSound(t) => Truthful(p, Reference!Resized(p, m, t), t)
      BY <1>6, <3>1 DEF Truthful, Reference!Resized
    <3> QED
      BY <3>2, <3>3, <3>4, <3>5
  <2> QED
    BY <2>1, <2>2
<1> QED
  BY <1>1, <1>2, <1>3, <1>4, <1>5, <1>6 DEF Truthful

(* No step leaves a page that is not true, or loses the order that is      *)
(* selected (reference/application.go:200-560).                            *)
LEMMA PagesGoOn ==
  ASSUME PagesIInv, Reference!Next
  PROVE  PagesIInv' /\ Reference!SelectionKept
<1>0. SizeSound(size) /\ (running => Truthful(page, model, size))
  BY DEF PagesIInv
<1>a. ASSUME size' = size, running' => Truthful(page', model', size)
      PROVE  PagesIInv' /\ Reference!SelectionKept
  BY <1>0, <1>a DEF PagesIInv, Reference!SelectionKept
<1>b. \A m, s : Truthful("login", m, s) /\ Truthful("menu", m, s)
  BY DEF Truthful
<1>1. CASE Reference!LoginKey
  BY <1>1, <1>a, <1>b DEF Reference!LoginKey
<1>2. CASE Reference!Authenticate
  BY <1>2, <1>a, <1>b DEF Reference!Authenticate
<1>3. CASE Reference!MenuKey
  <2>1. size' = size
    BY <1>3 DEF Reference!MenuKey
  <2>2. page' \in {"menu", "login"} \/ model' = Reference!NewModel(page', size)
    BY <1>3 DEF Reference!MenuKey
  <2> QED
    BY <1>0, <1>a, <1>b, <2>1, <2>2, PagesTrue
<1>4. ASSUME Reference!End PROVE PagesIInv' /\ Reference!SelectionKept
  BY <1>4, <1>a DEF Reference!End
<1>5. CASE Reference!VTTestRuns
  BY <1>0, <1>4, <1>5, <1>a DEF Reference!VTTestRuns, Reference!referenceVars
<1>6. CASE Reference!PageKey
  BY <1>0, <1>6, <1>a, PagesTrue DEF Reference!PageKey
<1>7. CASE Reference!StartKey
  BY <1>0, <1>7, <1>a, PagesTrue DEF Reference!StartKey
<1>8. CASE Reference!Leave
  BY <1>8, <1>a, <1>b DEF Reference!Leave
<1>9. ASSUME NEW t \in Reference!Timers, Reference!Tick(t)
      PROVE  PagesIInv' /\ Reference!SelectionKept
  <2>1. /\ running /\ page' = page /\ size' = size
        /\ \/ model' = model
           \/ Reference!Active(page, model) /\ model' = Reference!Ticked(page, model)
    BY <1>9 DEF Reference!Tick, Reference!Obeyed
  <2> QED
    BY <1>0, <1>a, <2>1, PagesTrue
<1>10. CASE Reference!Resize
  <2>1. running /\ running' = running /\ page' = page
    BY <1>10 DEF Reference!Resize
  <2>2. CASE size' = size /\ model' = model
    BY <1>0, <1>a, <2>1, <2>2
  <2>3. ASSUME NEW width \in Widths, NEW height \in Heights, width # 0, height # 0,
               size' = [width |-> width, height |-> height],
               model' = Reference!Resized(page, model, size')
        PROVE  PagesIInv' /\ Reference!SelectionKept
    <3>1. SizeSound(size')
      BY <2>3, DisplaysAssumption DEF SizeSound
    <3>2. Truthful(page, model', size')
      BY <1>0, <2>1, <2>3, <3>1, PagesTrue
    <3>3. Reference!SelectionKept
      <4>1. ASSUME page = "table"
            PROVE  Reference!SelectedOrder(model) \in {0, Reference!SelectedOrder(model')}
        <5>1. TableTrue(model) /\ model' = Reference!ResizedTable(model)
          BY <1>0, <2>1, <2>3, <4>1 DEF Truthful, Reference!Resized
        <5> QED
          BY <5>1, TablesResized
      <4> QED
        BY <4>1 DEF Reference!SelectionKept
    <3> QED
      BY <2>1, <3>1, <3>2, <3>3 DEF PagesIInv
  <2> QED
    BY <1>10, <2>2, <2>3 DEF Reference!Resize
<1>11. CASE Reference!Quit
  BY <1>4, <1>11 DEF Reference!Quit
<1> QED
  BY <1>1, <1>2, <1>3, <1>5, <1>6, <1>7, <1>8, <1>9, <1>10, <1>11 DEF Reference!Next

(* What the invariant says of the page that is shown.                      *)
LEMMA PagesTruthful == ASSUME PagesIInv PROVE Reference!PagesAreTrue
<1> SUFFICES ASSUME running PROVE Reference!PagesAreTrue
  BY DEF Reference!PagesAreTrue
<1>0. SizeSound(size) /\ Truthful(page, model, size)
  BY DEF PagesIInv
<1>1. ASSUME page = "longRunning", model.mode # "none"
      PROVE  /\ model.processed = model.succeeded + model.failed
             /\ (Reference!Total(model.mode) >= 0) =>
                  model.processed + model.remaining = Reference!Total(model.mode)
             /\ model.status = "COMPLETE" => model.processed = 120
             /\ model.status = "FAILED" => model.processed = 60
  BY <1>0, <1>1 DEF Truthful, LongRunningTrue, Reference!Total
<1>2. page = "partial" /\ model.accepted > 0 => model.step = Reference!LastStep(model)
  BY <1>0 DEF Truthful, PartialTrue
<1>3. page = "scrolling" =>
        model.cursor < model.events /\ (model.follow => model.cursor = model.events - 1)
  BY <1>0 DEF Truthful, ScrollingTrue
<1>4. ASSUME page = "cursor",
             NEW at \in {<<model.column, model.row>>}
                        \cup (IF model.saved = <<>> THEN {} ELSE {model.saved})
      PROVE  at[1] \in 0..(size.width - 1) /\ at[2] \in 0..(size.height - 1)
  BY <1>0, <1>4 DEF Truthful, CursorTrue, OnPage
<1>5. page = "form" =>
        /\ \A f \in model.errors : ~Reference!Valid(model.inputs[f])
        /\ model.submitted => \A f \in Reference!Fields : Reference!Valid(model.inputs[f])
  BY <1>0 DEF Truthful, FormTrue
<1>6. page = "table" /\ model.detail => Reference!SelectedOrder(model) # 0
  BY <1>0 DEF Truthful, TableTrue
<1> QED
  BY <1>1, <1>2, <1>3, <1>4, <1>5, <1>6 DEF Reference!PagesAreTrue

-----------------------------------------------------------------------------
(* No scenario gets a second timer.                                        *)

(* Generations are counted (reference/scrolling.go:36-93).                 *)
Numbered == running /\ page \in Reference!Timed => model.generation \in Nat

(* A timer that is started is one more, and the others stay as they are    *)
(* (reference/application.go:230-260).                                     *)
LEMMA OneTimerMore ==
  ASSUME InFlight, NEW t, ticks' = Reference!(+)(ticks, Reference!SetToBag({t}))
  PROVE  /\ \A u \in DOMAIN ticks' : u # t => u \in DOMAIN ticks /\ ticks'[u] = ticks[u]
         /\ t \notin DOMAIN ticks => ticks'[t] = 1
BY DEF InFlight, Reference!(+), Reference!SetToBag

(* A timer that is done leaves no more timers than there were              *)
(* (reference/application.go:230-260).                                     *)
LEMMA OneTimerLess ==
  ASSUME InFlight, NEW t, ticks' = Reference!(-)(ticks, Reference!SetToBag({t}))
  PROVE  \A u \in DOMAIN ticks' :
           u \in DOMAIN ticks /\ ticks'[u] \in Nat \ {0} /\ ticks'[u] <= ticks[u]
<1> SUFFICES ASSUME NEW u \in DOMAIN ticks'
             PROVE  u \in DOMAIN ticks /\ ticks'[u] \in Nat \ {0} /\ ticks'[u] <= ticks[u]
  OBVIOUS
<1>1. /\ u \in DOMAIN ticks
      /\ ticks'[u] > 0
      /\ ticks'[u] = IF u = t THEN ticks[u] - 1 ELSE ticks[u]
  BY DEF Reference!(-), Reference!SetToBag
<1> QED
  BY <1>1 DEF InFlight

(* A page that goes on with no timer more than it had stays with one at    *)
(* most (reference/scrolling.go:36-93).                                    *)
LEMMA StillOneTimer ==
  ASSUME page' = page, Numbered,
         running /\ page \in Reference!Timed
           => model'.generation \in {model.generation, model.generation + 1},
         running' => running,
         \/ ticks' = ticks
         \/ \A u \in DOMAIN ticks' :
              u \in DOMAIN ticks /\ ticks'[u] \in Nat \ {0} /\ ticks'[u] <= ticks[u]
  PROVE  Numbered' /\ Reference!TimersStayApart
<1>1. Numbered'
  BY DEF Numbered
<1>2. ASSUME running, page \in Reference!Timed, Reference!OneTimerAtMost,
             NEW g \in 0..MaxGeneration, <<page, g>> \in DOMAIN ticks'
      PROVE  /\ g <= model'.generation
             /\ g = model'.generation => ticks'[<<page, g>>] = 1
  <2>1. /\ model.generation \in Nat /\ g \in Nat
        /\ model'.generation \in {model.generation, model.generation + 1}
    BY <1>2, DisplaysAssumption DEF Numbered
  <2>2. /\ <<page, g>> \in DOMAIN ticks
        /\ ticks[<<page, g>>] = 1 => ticks'[<<page, g>>] = 1
    BY <1>2
  <2>3. g <= model.generation /\ (g = model.generation => ticks[<<page, g>>] = 1)
    BY <1>2, <2>2 DEF Reference!OneTimerAtMost, Reference!BagToSet
  <2> QED
    BY <2>1, <2>2, <2>3
<1> QED
  BY <1>1, <1>2 DEF Reference!TimersStayApart, Reference!OneTimerAtMost, Reference!BagToSet

(* No key, timer or resize gives the page that is shown a second timer of  *)
(* its generation (reference/scrolling.go:36-93, partial.go:40-93,         *)
(* long_running.go:45-119).                                                *)
LEMMA TimersKeptApart ==
  ASSUME ReferenceIInv, Numbered, Reference!Next
  PROVE  Numbered' /\ Reference!TimersStayApart
<1>0. InFlight /\ (running => Shaped(page, model))
  BY DEF ReferenceIInv
<1>a. ASSUME ~running' \/ page' \notin Reference!Timed
      PROVE  Numbered' /\ Reference!TimersStayApart
  BY <1>a DEF Numbered, Reference!TimersStayApart
<1>1. CASE Reference!LoginKey
  BY <1>1, <1>a, PageNames DEF Reference!LoginKey
<1>2. CASE Reference!Authenticate
  BY <1>2, <1>a, PageNames DEF Reference!Authenticate
<1>3. CASE Reference!MenuKey
  <2>1. CASE page' \notin Reference!Timed
    BY <2>1, <1>a
  <2>2. CASE page' \in Reference!Timed
    <3>1. page = "menu" /\ model' = Reference!NewModel(page', size)
      BY <1>3, <2>2, PageNames DEF Reference!MenuKey
    <3>2. model'.generation \in {0, 1}
      BY <2>2, <3>1, PageNames
         DEF Reference!NewModel, Reference!NewScrolling, Reference!NewPartial,
             Reference!NewLongRunning
    <3> QED
      BY <2>2, <3>1, <3>2, PageNames DEF Numbered, Reference!TimersStayApart
  <2> QED
    BY <2>1, <2>2
<1>4. ASSUME Reference!End PROVE Numbered' /\ Reference!TimersStayApart
  BY <1>4, <1>a DEF Reference!End
<1>5. CASE Reference!VTTestRuns
  BY <1>4, <1>5, <1>a, PageNames DEF Reference!VTTestRuns, Reference!referenceVars
<1>6. CASE Reference!PageKey
  <2>1. /\ running /\ page' = page /\ ticks' = ticks
        /\ model' \in Reference!Steps(page, model, size)
    BY <1>6 DEF Reference!PageKey
  <2>2. Goes(page, model, model')
    BY <1>0, <2>1, KeysGoOn
  <2> QED
    BY <2>1, <2>2, StillOneTimer DEF Goes
<1>7. CASE Reference!StartKey
  <2>1. /\ running /\ page' = page /\ page \in Reference!Timed
        /\ model' \in Reference!Starts(page, model)
        /\ ticks' = Reference!(+)(ticks, Reference!SetToBag({<<page, model'.generation>>}))
    BY <1>7 DEF Reference!StartKey, Reference!Timer
  <2>2. model.generation \in Nat /\ model'.generation = model.generation + 1
    BY <1>0, <2>1, StartedPages DEF Numbered
  <2> DEFINE t == <<page, model'.generation>>
  <2>3. /\ \A u \in DOMAIN ticks' : u # t => u \in DOMAIN ticks /\ ticks'[u] = ticks[u]
        /\ t \notin DOMAIN ticks => ticks'[t] = 1
    BY <1>0, <2>1, OneTimerMore
  <2>4. Numbered'
    BY <2>1, <2>2 DEF Numbered
  <2>5. ASSUME Reference!OneTimerAtMost,
               NEW g \in 0..MaxGeneration, <<page, g>> \in DOMAIN ticks'
        PROVE  /\ g <= model'.generation
               /\ g = model'.generation => ticks'[<<page, g>>] = 1
    <3>1. g \in Nat
      BY DisplaysAssumption
    <3>2. <<page, g>> \in DOMAIN ticks => g <= model.generation
      BY <2>5 DEF Reference!OneTimerAtMost, Reference!BagToSet
    <3>3. CASE g = model'.generation
      BY <2>2, <2>3, <3>1, <3>2, <3>3
    <3>4. CASE g # model'.generation
      <4>1. <<page, g>> # t
        BY <3>4
      <4>2. <<page, g>> \in DOMAIN ticks
        BY <2>3, <2>5, <4>1
      <4> QED
        BY <2>2, <3>1, <3>2, <3>4, <4>2
    <3> QED
      BY <3>3, <3>4
  <2> QED
    BY <2>1, <2>4, <2>5
       DEF Reference!TimersStayApart, Reference!OneTimerAtMost, Reference!BagToSet
<1>8. CASE Reference!Leave
  BY <1>8, <1>a, PageNames DEF Reference!Leave
<1>9. CASE Reference!Resize
  <2>1. /\ running /\ page' = page /\ ticks' = ticks
        /\ \/ model' = model
           \/ model' = Reference!Resized(page, model, size')
    BY <1>9 DEF Reference!Resize
  <2>2. page \in Reference!Timed
          => model'.generation \in {model.generation, model.generation + 1}
    BY <1>0, <2>1, ResizedPages DEF Goes
  <2> QED
    BY <2>1, <2>2, StillOneTimer
<1>10. CASE Reference!Quit
  BY <1>4, <1>10 DEF Reference!Quit
<1>11. ASSUME NEW t \in Reference!Timers, Reference!Tick(t)
       PROVE  Numbered' /\ Reference!TimersStayApart
  <2>1. /\ running /\ page' = page
        /\ \/ ticks' = ticks
           \/ ticks' = Reference!(-)(ticks, Reference!SetToBag({t}))
        /\ \/ model' = model
           \/ Reference!Active(page, model) /\ model' = Reference!Ticked(page, model)
    BY <1>11 DEF Reference!Tick, Reference!Obeyed
  <2>2. page \in Reference!Timed
          => model'.generation \in {model.generation, model.generation + 1}
    BY <1>0, <2>1, TimersGoOn DEF Goes
  <2>3. \/ ticks' = ticks
        \/ \A u \in DOMAIN ticks' :
             u \in DOMAIN ticks /\ ticks'[u] \in Nat \ {0} /\ ticks'[u] <= ticks[u]
    BY <1>0, <2>1, OneTimerLess
  <2> QED
    BY <2>1, <2>2, <2>3, StillOneTimer
<1> QED
  BY <1>1, <1>2, <1>3, <1>5, <1>6, <1>7, <1>8, <1>9, <1>10, <1>11 DEF Reference!Next

(* What the pages show stays true, whatever is typed, however often a      *)
(* scenario is started, paused and left and whatever sizes come; no        *)
(* scenario is given a second timer while its page is shown, and a resize  *)
(* forgets no selection (reference/form.go:66-220, table.go:58-207,        *)
(* scrolling.go:36-162, cursor.go:30-115, partial.go:40-93,                *)
(* long_running.go:45-152).                                                *)
THEOREM PagesTellTheTruth == DisplaySpec => PagesAreTrue
<1> DEFINE IInv == PagesIInv /\ ReferenceIInv /\ Numbered
           Keeps == Reference!SelectionKept /\ Reference!TimersStayApart
<1>1. DisplayInit => IInv
  <2> SUFFICES ASSUME DisplayInit PROVE IInv
    OBVIOUS
  <2>1. page = "login" /\ size \in [width : Widths \ {0}, height : Heights \ {0}]
    BY DEF DisplayInit, Reference!Init
  <2>2. PagesIInv /\ Numbered
    BY <2>1, DisplaysAssumption, PageNames DEF PagesIInv, SizeSound, Truthful, Numbered
  <2> QED
    BY <2>2, ReferenceStarts
<1>2. ASSUME IInv, [DisplayNext]_displayVars
      PROVE  IInv' /\ [Reference!PagesAreTrue' /\ Keeps]_referenceVars
  <2>1. CASE Reference!Next
    <3>1. PagesIInv' /\ Reference!SelectionKept
      BY <1>2, <2>1, PagesGoOn
    <3>2. Numbered' /\ Reference!TimersStayApart
      BY <1>2, <2>1, TimersKeptApart
    <3>3. ReferenceIInv'
      BY <1>2, <2>1, ReferenceGoesOn
    <3>4. PagesIInv' => Reference!PagesAreTrue'
      BY PagesTruthful, PTL
    <3> QED
      BY <3>1, <3>2, <3>3, <3>4
  <2>2. CASE UNCHANGED referenceVars
    <3>1. PagesIInv' /\ Numbered'
      BY <1>2, <2>2 DEF referenceVars, PagesIInv, Truthful, SizeSound, Numbered
    <3>2. ReferenceIInv'
      BY <1>2, <2>2, ReferenceRests
    <3> QED
      BY <2>2, <3>1, <3>2
  <2> QED
    BY <1>2, <2>1, <2>2 DEF DisplayNext, displayVars
<1> QED
  BY <1>1, <1>2, PTL DEF DisplaySpec, PagesAreTrue

-----------------------------------------------------------------------------
(* The emulator.                                                           *)

Fields ==
  {"profile", "width", "height", "buffer", "active", "style", "revision", "wrapPending",
   "autoWrap", "insertMode", "applicationCursor", "scrollTop", "scrollBottom", "charsets",
   "charset", "title", "answerback", "events"}

Cursors(width, height) ==
  [row : 0..(height - 1), column : 0..(width - 1), visible : BOOLEAN]

IsCell(c) == DOMAIN c = {"text", "width", "style"} /\ c.width \in 0..2

(* One cell for each position of the screen. *)
Covers(t, cells) ==
  /\ DOMAIN cells = Positions(t.width, t.height)
  /\ \A p \in DOMAIN cells : IsCell(cells[p])

(* A half of a wide character has the other half beside it                 *)
(* (ansi/terminal.go:492-524).                                             *)
PairedAt(cells, width, r, c) ==
  /\ cells[<<r, c>>].width = 0 => c > 0 /\ cells[<<r, c - 1>>].width = 2
  /\ cells[<<r, c>>].width = 2 => c + 1 < width /\ cells[<<r, c + 1>>].width = 0
Paired(cells, width, height) ==
  \A r \in 0..(height - 1), c \in 0..(width - 1) : PairedAt(cells, width, r, c)

(* The same, as the code looks for a half that is alone.                   *)
LEMMA UnpairedIs ==
  ASSUME NEW cells, NEW width \in Nat, NEW r, NEW c \in 0..(width - 1)
  PROVE  Unpaired(cells, width, <<r, c>>) <=> ~PairedAt(cells, width, r, c)
<1> DEFINE p == <<r, c>>
<1>1. p[1] = r /\ p[2] = c
  OBVIOUS
<1>2. /\ cells[p[1], p[2] - 1] = cells[<<r, c - 1>>]
      /\ cells[p[1], p[2] + 1] = cells[<<r, c + 1>>]
  BY <1>1
<1> HIDE DEF p
<1>3. Unpaired(cells, width, p) <=>
        \/ cells[p].width = 0 /\ (c = 0 \/ cells[<<r, c - 1>>].width # 2)
        \/ cells[p].width = 2 /\ (c + 1 >= width \/ cells[<<r, c + 1>>].width # 0)
  BY <1>1, <1>2 DEF Unpaired
<1> QED
  BY <1>3 DEF p, PairedAt

(* The same for every position of a buffer.                                *)
LEMMA PairedIs ==
  ASSUME NEW width \in Nat, NEW height \in Nat, NEW cells, DOMAIN cells = Positions(width, height)
  PROVE  (\A p \in DOMAIN cells : ~Unpaired(cells, width, p)) <=> Paired(cells, width, height)
<1>1. \A p \in DOMAIN cells : \E r \in 0..(height - 1), c \in 0..(width - 1) : p = <<r, c>>
  BY DEF Positions
<1>2. \A r \in 0..(height - 1), c \in 0..(width - 1) : <<r, c>> \in DOMAIN cells
  BY DEF Positions
<1>3. \A r \in 0..(height - 1), c \in 0..(width - 1) :
        Unpaired(cells, width, <<r, c>>) <=> ~PairedAt(cells, width, r, c)
  BY UnpairedIs
<1> QED
  BY <1>1, <1>2, <1>3, ZenonT(40) DEF Paired

(* Normalizing pairs the rows it is given: a half is blanked only if it is *)
(* alone, and never the other half of one that stays                       *)
(* (ansi/terminal.go:511-524).                                             *)
LEMMA NormalizedPaired ==
  ASSUME NEW width \in Nat, NEW height \in Nat, NEW cells, DOMAIN cells = Positions(width, height),
         NEW rows, NEW blank, blank.width = 1,
         \A r \in 0..(height - 1), c \in 0..(width - 1) :
           r \in rows \/ PairedAt(cells, width, r, c)
  PROVE  Paired(NormalizeCells(cells, width, rows, blank), width, height)
<1> DEFINE n == NormalizeCells(cells, width, rows, blank)
<1>1. ASSUME NEW r \in 0..(height - 1), NEW c \in 0..(width - 1)
      PROVE  n[<<r, c>>] = IF r \in rows /\ ~PairedAt(cells, width, r, c)
                           THEN blank ELSE cells[<<r, c>>]
  <2>1. <<r, c>> \in DOMAIN cells /\ <<r, c>>[1] = r
    BY DEF Positions
  <2> QED
    BY <2>1, UnpairedIs DEF NormalizeCells
<1> HIDE DEF n
<1>2. ASSUME NEW r \in 0..(height - 1), NEW c \in 0..(width - 1) PROVE PairedAt(n, width, r, c)
  <2>1. CASE ~PairedAt(cells, width, r, c)
    <3>1. n[<<r, c>>].width = 1
      BY <1>1, <2>1
    <3> QED
      BY <3>1 DEF PairedAt
  <2>2. CASE PairedAt(cells, width, r, c)
    <3>1. n[<<r, c>>] = cells[<<r, c>>]
      BY <1>1, <2>2
    <3>2. CASE cells[<<r, c>>].width = 0
      <4>1. c - 1 \in 0..(width - 1) /\ c - 1 + 1 = c /\ cells[<<r, c - 1>>].width = 2
        BY <2>2, <3>2 DEF PairedAt
      <4>2. PairedAt(cells, width, r, c - 1)
        BY <3>2, <4>1 DEF PairedAt
      <4>3. n[<<r, c - 1>>] = cells[<<r, c - 1>>]
        BY <1>1, <4>1, <4>2
      <4> QED
        BY <3>1, <3>2, <4>1, <4>3 DEF PairedAt
    <3>3. CASE cells[<<r, c>>].width = 2
      <4>1. c + 1 \in 0..(width - 1) /\ c + 1 - 1 = c /\ cells[<<r, c + 1>>].width = 0
        BY <2>2, <3>3 DEF PairedAt
      <4>2. PairedAt(cells, width, r, c + 1)
        BY <3>3, <4>1 DEF PairedAt
      <4>3. n[<<r, c + 1>>] = cells[<<r, c + 1>>]
        BY <1>1, <4>1, <4>2
      <4> QED
        BY <3>1, <3>3, <4>1, <4>3 DEF PairedAt
    <3> QED
      BY <3>1, <3>2, <3>3 DEF PairedAt
  <2> QED
    BY <2>1, <2>2
<1> QED
  BY <1>2 DEF Paired, n

(* Whole rows, wherever they come from, stay paired.                       *)
LEMMA RowsPaired ==
  ASSUME NEW width \in Nat, NEW height \in Nat, NEW cells, Paired(cells, width, height), NEW n,
         \A r \in 0..(height - 1) :
           \/ \A c \in 0..(width - 1) : n[<<r, c>>].width = 1
           \/ \E s \in 0..(height - 1) :
                \A c \in 0..(width - 1) : n[<<r, c>>].width = cells[<<s, c>>].width
  PROVE  Paired(n, width, height)
<1> SUFFICES ASSUME NEW r \in 0..(height - 1), NEW c \in 0..(width - 1)
             PROVE  PairedAt(n, width, r, c)
  BY DEF Paired
<1>1. CASE \A k \in 0..(width - 1) : n[<<r, k>>].width = 1
  BY <1>1 DEF PairedAt
<1>2. ASSUME NEW s \in 0..(height - 1),
             \A k \in 0..(width - 1) : n[<<r, k>>].width = cells[<<s, k>>].width
      PROVE  PairedAt(n, width, r, c)
  <2>1. PairedAt(cells, width, s, c)
    BY DEF Paired
  <2>2. c > 0 => c - 1 \in 0..(width - 1)
    OBVIOUS
  <2>3. c + 1 < width => c + 1 \in 0..(width - 1)
    OBVIOUS
  <2> QED
    BY <1>2, <2>1, <2>2, <2>3 DEF PairedAt
<1> QED
  BY <1>1, <1>2

(* The halves of the character at a position, if it is wide.               *)
Halves(cells, row, column) ==
  IF cells[<<row, column>>].width = 0 THEN {<<row, column>>, <<row, column - 1>>}
  ELSE IF cells[<<row, column>>].width = 2 THEN {<<row, column>>, <<row, column + 1>>}
  ELSE {}

(* Cells n are the old ones with that character made of blanks.            *)
ClearedAs(n, cells, width, height, row, column) ==
  \A r \in 0..(height - 1), c \in 0..(width - 1) :
    n[<<r, c>>].width = IF <<r, c>> \in Halves(cells, row, column) THEN 1
                        ELSE cells[<<r, c>>].width

(* Blanking both halves of a character leaves no half alone                *)
(* (ansi/terminal.go:492-509).                                             *)
LEMMA ClearedPaired ==
  ASSUME NEW width \in Nat, NEW height \in Nat, NEW cells, Paired(cells, width, height),
         NEW row \in 0..(height - 1), NEW column \in 0..(width - 1),
         \A r \in 0..(height - 1), c \in 0..(width - 1) : cells[<<r, c>>].width \in 0..2,
         NEW n, ClearedAs(n, cells, width, height, row, column)
  PROVE  Paired(n, width, height) /\ n[<<row, column>>].width = 1
<1> DEFINE where == Halves(cells, row, column)
<1>0. /\ cells[<<row, column>>].width = 0 => where = {<<row, column>>, <<row, column - 1>>}
      /\ cells[<<row, column>>].width = 1 => where = {}
      /\ cells[<<row, column>>].width = 2 => where = {<<row, column>>, <<row, column + 1>>}
  BY DEF Halves
<1>w. \A r \in 0..(height - 1), c \in 0..(width - 1) :
        n[<<r, c>>].width = IF <<r, c>> \in where THEN 1 ELSE cells[<<r, c>>].width
  BY DEF ClearedAs
<1> HIDE DEF where
<1>1. \A r \in 0..(height - 1), c \in 0..(width - 1) : PairedAt(cells, width, r, c)
  BY DEF Paired
<1>2. n[<<row, column>>].width = 1
  <2>1. cells[<<row, column>>].width \in {0, 1, 2}
    OBVIOUS
  <2> QED
    BY <1>0, <1>w, <2>1
<1>3. ASSUME NEW r \in 0..(height - 1), NEW c \in 0..(width - 1) PROVE PairedAt(n, width, r, c)
  <2>0. PairedAt(cells, width, r, c) /\ PairedAt(cells, width, row, column)
    BY <1>1
  <2>1. CASE <<r, c>> \in where
    BY <1>w, <2>1 DEF PairedAt
  <2>2. CASE <<r, c>> \notin where
    <3>0. n[<<r, c>>].width = cells[<<r, c>>].width
      BY <1>w, <2>2
    <3>1. CASE cells[<<r, c>>].width = 0
      <4>1. c - 1 \in 0..(width - 1) /\ cells[<<r, c - 1>>].width = 2
        BY <2>0, <3>1 DEF PairedAt
      <4>2. PairedAt(cells, width, r, c - 1)
        BY <1>1, <4>1
      <4>3. <<r, c - 1>> \notin where
        <5> SUFFICES ASSUME <<r, c - 1>> \in where PROVE FALSE
          OBVIOUS
        <5>1. CASE cells[<<row, column>>].width = 0
          <6>1. r = row /\ (c - 1 = column \/ c - 1 = column - 1)
            BY <1>0, <5>1
          <6>2. c - 1 = column
            BY <1>0, <2>2, <5>1, <6>1
          <6> QED
            BY <4>1, <5>1, <6>1, <6>2
        <5>2. CASE cells[<<row, column>>].width = 2
          <6>1. r = row /\ (c - 1 = column \/ c - 1 = column + 1)
            BY <1>0, <5>2
          <6>2. CASE c - 1 = column
            BY <1>0, <2>2, <5>2, <6>1, <6>2
          <6>3. CASE c - 1 = column + 1
            BY <2>0, <4>1, <5>2, <6>1, <6>3 DEF PairedAt
          <6> QED
            BY <6>1, <6>2, <6>3
        <5> QED
          BY <1>0, <5>1, <5>2
      <4> QED
        BY <1>w, <3>0, <3>1, <4>1, <4>3, <2>0 DEF PairedAt
    <3>2. CASE cells[<<r, c>>].width = 2
      <4>1. c + 1 \in 0..(width - 1) /\ cells[<<r, c + 1>>].width = 0
        BY <2>0, <3>2 DEF PairedAt
      <4>3. <<r, c + 1>> \notin where
        <5> SUFFICES ASSUME <<r, c + 1>> \in where PROVE FALSE
          OBVIOUS
        <5>1. CASE cells[<<row, column>>].width = 0
          <6>1. r = row /\ (c + 1 = column \/ c + 1 = column - 1)
            BY <1>0, <5>1
          <6>2. CASE c + 1 = column
            BY <1>0, <2>2, <5>1, <6>1, <6>2
          <6>3. CASE c + 1 = column - 1
            BY <2>0, <4>1, <5>1, <6>1, <6>3 DEF PairedAt
          <6> QED
            BY <6>1, <6>2, <6>3
        <5>2. CASE cells[<<row, column>>].width = 2
          <6>1. r = row /\ (c + 1 = column \/ c + 1 = column + 1)
            BY <1>0, <5>2
          <6>2. c + 1 = column
            BY <1>0, <2>2, <5>2, <6>1
          <6> QED
            BY <4>1, <5>2, <6>1, <6>2
        <5> QED
          BY <1>0, <5>1, <5>2
      <4> QED
        BY <1>w, <3>0, <3>2, <4>1, <4>3, <2>0 DEF PairedAt
    <3> QED
      BY <3>0, <3>1, <3>2 DEF PairedAt
  <2> QED
    BY <2>1, <2>2
<1> QED
  BY <1>2, <1>3 DEF Paired

(* A wide character put where there are single cells.                      *)
DrawnAs(n, cells, width, height, row, column) ==
  \A r \in 0..(height - 1), c \in 0..(width - 1) :
    n[<<r, c>>].width = IF r = row /\ c = column THEN 2
                        ELSE IF r = row /\ c = column + 1 THEN 0
                        ELSE cells[<<r, c>>].width

(* It is put as a whole (ansi/terminal.go:450-462).                        *)
LEMMA DrawnPaired ==
  ASSUME NEW width \in Nat, NEW height \in Nat, NEW cells, Paired(cells, width, height),
         NEW row \in 0..(height - 1), NEW column \in 0..(width - 1), column + 1 < width,
         cells[<<row, column>>].width = 1, cells[<<row, column + 1>>].width = 1,
         NEW n, DrawnAs(n, cells, width, height, row, column)
  PROVE  Paired(n, width, height)
<1>w. \A r \in 0..(height - 1), c \in 0..(width - 1) :
        n[<<r, c>>].width = IF r = row /\ c = column THEN 2
                            ELSE IF r = row /\ c = column + 1 THEN 0
                            ELSE cells[<<r, c>>].width
  BY DEF DrawnAs
<1> SUFFICES ASSUME NEW r \in 0..(height - 1), NEW c \in 0..(width - 1)
             PROVE  PairedAt(n, width, r, c)
  BY DEF Paired
<1>0. PairedAt(cells, width, r, c)
  BY DEF Paired
<1>1. c > 0 => c - 1 \in 0..(width - 1) /\ PairedAt(cells, width, r, c - 1)
  BY DEF Paired
<1>2. c + 1 < width => c + 1 \in 0..(width - 1) /\ PairedAt(cells, width, r, c + 1)
  BY DEF Paired
<1>3. CASE r = row /\ c = column
  BY <1>w, <1>2, <1>3 DEF PairedAt
<1>4. CASE r = row /\ c = column + 1
  BY <1>w, <1>1, <1>4 DEF PairedAt
<1>5. CASE ~(r = row /\ c = column) /\ ~(r = row /\ c = column + 1)
  <2>1. n[<<r, c>>].width = cells[<<r, c>>].width
    BY <1>w, <1>5
  <2>2. CASE cells[<<r, c>>].width = 0
    <3>1. c > 0 /\ cells[<<r, c - 1>>].width = 2
      BY <1>0, <2>2 DEF PairedAt
    <3>2. ~(r = row /\ c - 1 = column) /\ ~(r = row /\ c - 1 = column + 1)
      BY <3>1
    <3> QED
      BY <1>w, <1>1, <2>1, <2>2, <3>1, <3>2 DEF PairedAt
  <2>3. CASE cells[<<r, c>>].width = 2
    <3>1. c + 1 < width /\ cells[<<r, c + 1>>].width = 0
      BY <1>0, <2>3 DEF PairedAt
    <3>2. ~(r = row /\ c + 1 = column) /\ ~(r = row /\ c + 1 = column + 1)
      BY <3>1, <1>5
    <3> QED
      BY <1>w, <1>2, <2>1, <2>3, <3>1, <3>2 DEF PairedAt
  <2> QED
    BY <2>1, <2>2, <2>3 DEF PairedAt
<1> QED
  BY <1>3, <1>4, <1>5

BufferParts == {"cells", "cursor", "saved"}
Fits(t, b) ==
  /\ DOMAIN b = BufferParts /\ Covers(t, b.cells)
  /\ b.cursor \in Cursors(t.width, t.height) /\ b.saved \in Cursors(t.width, t.height)

Sound(t) ==
  /\ DOMAIN t = Fields
  /\ t.width \in Nat \ {0} /\ t.height \in Nat \ {0}
  /\ DOMAIN t.buffer = {"main", "alternate"}
  /\ Fits(t, t.buffer.main)
  /\ DOMAIN t.buffer.alternate = BufferParts
  /\ t.buffer.alternate.cells # <<>> => Fits(t, t.buffer.alternate)
  /\ t.active \in {"main", "alternate"}
  /\ t.active = "alternate" => t.buffer.alternate.cells # <<>>
  /\ t.scrollTop \in Nat /\ t.scrollBottom \in Nat
  /\ t.scrollTop <= t.scrollBottom /\ t.scrollBottom < t.height
  /\ t.revision \in Nat

(* What only works on a buffer leaves everything else. *)
Kept(t, u) ==
  /\ u.profile = t.profile /\ u.width = t.width /\ u.height = t.height
  /\ u.active = t.active /\ u.style = t.style /\ u.revision = t.revision /\ u.title = t.title
  /\ u.scrollTop = t.scrollTop /\ u.scrollBottom = t.scrollBottom
Other(t) == IF t.active = "main" THEN "alternate" ELSE "main"
Alters(t, u) == Sound(u) /\ Kept(t, u) /\ u.buffer[Other(t)] = t.buffer[Other(t)]

(* What cuts no wide character in two, in the buffer in use and in both.   *)
Mended(t, old, new) == Paired(old, t.width, t.height) => Paired(new, t.width, t.height)
Whole(t) ==
  /\ Paired(t.buffer.main.cells, t.width, t.height)
  /\ t.buffer.alternate.cells # <<>> => Paired(t.buffer.alternate.cells, t.width, t.height)
Mends(t, u) == Whole(t) => Whole(u)
Works(t, u) == Alters(t, u) /\ Mended(t, Cells(t), Cells(u))

(* The buffer in use fits the screen.                                      *)
LEMMA ActiveFits ==
  ASSUME NEW t, Sound(t)
  PROVE  Fits(t, t.buffer[t.active]) /\ Covers(t, Cells(t))
         /\ Cursor(t) \in Cursors(t.width, t.height)
BY DEF Sound, Fits, Cells, Cursor

(* A buffer that fits a screen is not the empty one of an alternate screen *)
(* never used.                                                             *)
LEMMA HasCells ==
  ASSUME NEW t, t.width \in Nat \ {0}, t.height \in Nat \ {0}, NEW cells, Covers(t, cells)
  PROVE  cells # <<>>
<1>1. <<0, 0>> \in Positions(t.width, t.height)
  BY DEF Positions
<1>2. DOMAIN <<>> = {}
  OBVIOUS
<1> QED
  BY <1>1, <1>2 DEF Covers

(* Setting the buffer in use to one that fits leaves the emulator sound.   *)
LEMMA BufferSet ==
  ASSUME NEW t, Sound(t), NEW b, Fits(t, b), NEW u, DOMAIN u = Fields, Kept(t, u),
         DOMAIN u.buffer = {"main", "alternate"}, u.buffer[t.active] = b,
         u.buffer[Other(t)] = t.buffer[Other(t)]
  PROVE  Alters(t, u) /\ (Mended(t, Cells(t), b.cells) => Works(t, u))
<1>1. b.cells # <<>>
  BY HasCells DEF Fits, Sound
<1>2. \A c : Fits(t, c) => Fits(u, c)
  BY DEF Kept, Fits, Covers
<1>3. ASSUME t.active = "main" PROVE Alters(t, u)
  BY <1>1, <1>2, <1>3 DEF Sound, Kept, Alters, Other
<1>4. ASSUME t.active = "alternate" PROVE Alters(t, u)
  BY <1>1, <1>2, <1>4 DEF Sound, Kept, Alters, Other, Fits
<1>5. Alters(t, u)
  BY <1>3, <1>4 DEF Sound
<1>6. Cells(u) = b.cells
  BY DEF Cells, Kept
<1> QED
  BY <1>5, <1>6 DEF Works, Alters

(* Setting the cells of the buffer in use.                                 *)
LEMMA CellsSet ==
  ASSUME NEW t, Sound(t), NEW cells, Covers(t, cells)
  PROVE  /\ Alters(t, SetCells(t, cells)) /\ Cells(SetCells(t, cells)) = cells
         /\ Mended(t, Cells(t), cells) => Works(t, SetCells(t, cells))
         /\ Cursor(SetCells(t, cells)) = Cursor(t)
<1> DEFINE u == SetCells(t, cells)
<1>1. DOMAIN u = Fields /\ Kept(t, u)
  BY DEF Sound, SetCells, Kept, Fields
<1>2. /\ DOMAIN u.buffer = {"main", "alternate"}
      /\ u.buffer[t.active] = [t.buffer[t.active] EXCEPT !.cells = cells]
      /\ u.buffer[Other(t)] = t.buffer[Other(t)]
  BY DEF Sound, SetCells, Other, Fields
<1>3. Fits(t, u.buffer[t.active]) /\ u.buffer[t.active].cells = cells
  BY <1>2, ActiveFits DEF Fits, BufferParts
<1> HIDE DEF u
<1>4. Alters(t, u) /\ (Mended(t, Cells(t), cells) => Works(t, u))
  BY <1>1, <1>2, <1>3, BufferSet
<1>5. Cells(u) = cells /\ Cursor(u) = Cursor(t)
  BY <1>1, <1>2, ActiveFits DEF Cells, Cursor, Kept, Fits, BufferParts
<1> QED
  BY <1>4, <1>5 DEF u

(* Moving the cursor to a position of the screen.                          *)
LEMMA CursorSet ==
  ASSUME NEW t, Sound(t), NEW row \in 0..(t.height - 1), NEW column \in 0..(t.width - 1)
  PROVE  /\ Works(t, MoveTo(t, row, column)) /\ Cells(MoveTo(t, row, column)) = Cells(t)
         /\ Cursor(MoveTo(t, row, column)).row = row
         /\ Cursor(MoveTo(t, row, column)).column = column
<1> DEFINE u == MoveTo(t, row, column)
           c == [Cursor(t) EXCEPT !.row = row, !.column = column]
<1>1. DOMAIN u = Fields /\ Kept(t, u)
  BY DEF Sound, MoveTo, Kept, Fields
<1>2. /\ DOMAIN u.buffer = {"main", "alternate"}
      /\ u.buffer[t.active] = [t.buffer[t.active] EXCEPT !.cursor = c]
      /\ u.buffer[Other(t)] = t.buffer[Other(t)]
  BY DEF Sound, MoveTo, Other, Fields, Cursor
<1>c. c \in Cursors(t.width, t.height) /\ c.row = row /\ c.column = column
  BY ActiveFits DEF Cursors
<1> HIDE DEF c
<1>3. Fits(t, u.buffer[t.active]) /\ u.buffer[t.active].cells = Cells(t)
  BY <1>2, <1>c, ActiveFits DEF Fits, BufferParts, Cells
<1> HIDE DEF u
<1>m. Mended(t, Cells(t), Cells(t))
  BY DEF Mended
<1>o. DOMAIN u.buffer = {"main", "alternate"} /\ u.buffer[Other(t)] = t.buffer[Other(t)]
  BY <1>2
<1>4. Works(t, u)
  BY <1>1, <1>o, <1>3, <1>m, BufferSet
<1>5. Cells(u) = Cells(t) /\ Cursor(u) = c
  BY <1>1, <1>2, ActiveFits DEF Cells, Cursor, Kept, Fits, BufferParts
<1> QED
  BY <1>4, <1>5, <1>c DEF u

(* A blank cell is one column wide.                                        *)
LEMMA Blanks == ASSUME NEW style PROVE IsCell(Blank(style)) /\ Blank(style).width = 1
BY DEF IsCell, Blank

(* Blanking a few positions (ansi/terminal.go:492-524, 757-810).           *)
LEMMA Erases ==
  ASSUME NEW t, Sound(t), NEW where
  PROVE  /\ Alters(t, Erase(t, where)) /\ Cursor(Erase(t, where)) = Cursor(t)
         /\ \A p \in DOMAIN Cells(t) :
              Cells(Erase(t, where))[p] = IF p \in where THEN BlankCell(t) ELSE Cells(t)[p]
<1> DEFINE cells == [p \in DOMAIN Cells(t) |->
                       IF p \in where THEN BlankCell(t) ELSE Cells(t)[p]]
<1>1. Covers(t, cells)
  BY ActiveFits, Blanks DEF Covers, BlankCell
<1>3. \A p \in DOMAIN Cells(t) :
        cells[p] = IF p \in where THEN BlankCell(t) ELSE Cells(t)[p]
  OBVIOUS
<1> HIDE DEF cells
<1>2. /\ Alters(t, SetCells(t, cells)) /\ Cursor(SetCells(t, cells)) = Cursor(t)
      /\ Cells(SetCells(t, cells)) = cells
  BY <1>1, CellsSet
<1> QED
  BY <1>2, <1>3 DEF cells, Erase

(* Shifting rows (ansi/terminal.go:569-586, 832-860).                      *)
LEMMA RowsShift ==
  ASSUME NEW t, Sound(t), NEW first \in Nat, NEW last \in Int, last < t.height, NEW by \in Int
  PROVE  /\ Works(t, ShiftRows(t, first, last, by))
         /\ Cursor(ShiftRows(t, first, last, by)) = Cursor(t)
<1> DEFINE cells == [p \in DOMAIN Cells(t) |->
                       IF p[1] \notin first..last THEN Cells(t)[p]
                       ELSE IF p[1] + by \in first..last THEN Cells(t)[p[1] + by, p[2]]
                       ELSE BlankCell(t)]
<1>0. t.height \in Nat /\ t.width \in Nat
  BY DEF Sound
<1>1. Covers(t, cells)
  <2>1. ASSUME NEW p \in Positions(t.width, t.height), p[1] + by \in first..last
        PROVE  <<p[1] + by, p[2]>> \in Positions(t.width, t.height)
    BY <1>0, <2>1 DEF Positions
  <2> QED
    BY <2>1, ActiveFits, Blanks DEF Covers, BlankCell
<1>3. Mended(t, Cells(t), cells)
  <2> SUFFICES ASSUME Paired(Cells(t), t.width, t.height)
               PROVE  Paired(cells, t.width, t.height)
    BY DEF Mended
  <2>1. ASSUME NEW r \in 0..(t.height - 1), NEW c \in 0..(t.width - 1)
        PROVE  cells[<<r, c>>] = IF r \notin first..last THEN Cells(t)[<<r, c>>]
                                 ELSE IF r + by \in first..last THEN Cells(t)[<<r + by, c>>]
                                 ELSE BlankCell(t)
    <3> DEFINE p == <<r, c>>
    <3>1. p \in DOMAIN Cells(t)
      BY ActiveFits DEF Covers, Positions
    <3>2. p[1] = r /\ p[2] = c
      OBVIOUS
    <3> HIDE DEF p
    <3> QED
      BY <3>1, <3>2 DEF p
  <2> HIDE DEF cells
  <2>2. ASSUME NEW r \in 0..(t.height - 1)
        PROVE  \/ \A c \in 0..(t.width - 1) : cells[<<r, c>>].width = 1
               \/ \E s \in 0..(t.height - 1) : \A c \in 0..(t.width - 1) :
                    cells[<<r, c>>].width = Cells(t)[<<s, c>>].width
    <3>1. CASE r \notin first..last
      BY <2>1, <3>1
    <3>2. CASE r \in first..last /\ r + by \in first..last
      <4>1. r + by \in 0..(t.height - 1)
        BY <1>0, <3>2
      <4> QED
        BY <2>1, <3>2, <4>1
    <3>3. CASE r \in first..last /\ r + by \notin first..last
      BY <2>1, <3>3, Blanks DEF BlankCell
    <3> QED
      BY <3>1, <3>2, <3>3
  <2> QED
    BY <1>0, <2>2, RowsPaired
<1> HIDE DEF cells
<1>2. Works(t, SetCells(t, cells)) /\ Cursor(SetCells(t, cells)) = Cursor(t)
  BY <1>1, <1>3, CellsSet
<1> QED
  BY <1>2 DEF cells, ShiftRows

(* Shifting characters in a line (ansi/terminal.go:812-830).               *)
LEMMA ColumnsShift ==
  ASSUME NEW t, Sound(t), NEW row, NEW first \in Nat, NEW by \in Int
  PROVE  /\ Alters(t, ShiftColumns(t, row, first, by))
         /\ Cursor(ShiftColumns(t, row, first, by)) = Cursor(t)
         /\ \A r \in 0..(t.height - 1), c \in 0..(t.width - 1) :
              r # row => Cells(ShiftColumns(t, row, first, by))[<<r, c>>] = Cells(t)[<<r, c>>]
<1> DEFINE cells == [p \in DOMAIN Cells(t) |->
                 IF p[1] # row \/ p[2] < first THEN Cells(t)[p]
                 ELSE IF p[2] + by \in first..(t.width - 1) THEN Cells(t)[row, p[2] + by]
                 ELSE BlankCell(t)]
<1>0. t.height \in Nat /\ t.width \in Nat
  BY DEF Sound
<1>1. Covers(t, cells)
  <2>1. ASSUME NEW p \in Positions(t.width, t.height), p[1] = row,
               p[2] + by \in first..(t.width - 1)
        PROVE  <<row, p[2] + by>> \in Positions(t.width, t.height)
    BY <1>0, <2>1 DEF Positions
  <2> QED
    BY <2>1, ActiveFits, Blanks DEF Covers, BlankCell
<1>3. ASSUME NEW r \in 0..(t.height - 1), NEW c \in 0..(t.width - 1), r # row
      PROVE  cells[<<r, c>>] = Cells(t)[<<r, c>>]
  <2>1. <<r, c>> \in DOMAIN Cells(t) /\ <<r, c>>[1] # row
    BY <1>3, ActiveFits DEF Covers, Positions
  <2> QED
    BY <2>1
<1> HIDE DEF cells
<1>2. /\ Alters(t, SetCells(t, cells)) /\ Cursor(SetCells(t, cells)) = Cursor(t)
      /\ Cells(SetCells(t, cells)) = cells
  BY <1>1, CellsSet
<1> QED
  BY <1>2, <1>3 DEF cells, ShiftColumns

(* Normalizing wide characters only blanks cells                           *)
(* (ansi/terminal.go:511-524).                                             *)
LEMMA Normalized ==
  ASSUME NEW t, NEW cells, Covers(t, cells), NEW rows, NEW blank, IsCell(blank), NEW width
  PROVE  Covers(t, NormalizeCells(cells, width, rows, blank))
BY DEF Covers, NormalizeCells

(* Works is done one after the other; a change is then told.               *)
LEMMA WorksOn ==
  ASSUME NEW t, NEW u, NEW v, Works(t, u), Works(u, v)
  PROVE  Works(t, v)
BY DEF Works, Alters, Kept, Other, Mended
(* So it is with what may cut a wide character.                            *)
LEMMA AltersOn ==
  ASSUME NEW t, NEW u, NEW v, Alters(t, u), Alters(u, v)
  PROVE  Alters(t, v)
BY DEF Alters, Kept, Other

(* Doing nothing is sound.                                                 *)
LEMMA WorksNot == ASSUME NEW t, Sound(t) PROVE Works(t, t)
BY DEF Works, Alters, Kept, Mended

(* A pending wrap may be set or cleared anywhere.                          *)
LEMMA WrapSet ==
  ASSUME NEW t, Sound(t), NEW wraps
  PROVE  /\ Works(t, [t EXCEPT !.wrapPending = wraps])
         /\ Cursor([t EXCEPT !.wrapPending = wraps]) = Cursor(t)
         /\ Cells([t EXCEPT !.wrapPending = wraps]) = Cells(t)
<1> DEFINE u == [t EXCEPT !.wrapPending = wraps]
<1>1. \A f \in Fields \ {"wrapPending"} : u[f] = t[f]
  BY DEF Sound
<1>2. DOMAIN u = Fields
  BY DEF Sound
<1>3. Kept(t, u) /\ u.buffer = t.buffer
  BY <1>1 DEF Kept, Fields
<1>4. Sound(u)
  BY <1>2, <1>3 DEF Sound, Kept, Fits, Covers
<1> QED
  BY <1>3, <1>4 DEF Works, Alters, Cursor, Cells, Kept, Mended

(* Advancing the revision leaves the emulator sound.                       *)
LEMMA ChangedSound ==
  ASSUME NEW t, Sound(t)
  PROVE  /\ Sound(Changed(t)) /\ Changed(t).revision = t.revision + 1
         /\ Changed(t).buffer = t.buffer /\ Changed(t).active = t.active
         /\ Changed(t).profile = t.profile /\ Changed(t).width = t.width
         /\ Changed(t).height = t.height /\ Changed(t).style = t.style
         /\ Changed(t).scrollTop = t.scrollTop /\ Changed(t).scrollBottom = t.scrollBottom
<1> DEFINE u == Changed(t)
<1>1. \A f \in Fields \ {"revision"} : u[f] = t[f]
  BY DEF Sound, Changed
<1>2. DOMAIN u = Fields /\ u.revision = t.revision + 1
  BY DEF Sound, Changed, Fields
<1> HIDE DEF u
<1>3. /\ u.buffer = t.buffer /\ u.active = t.active /\ u.profile = t.profile
      /\ u.width = t.width /\ u.height = t.height /\ u.style = t.style
      /\ u.scrollTop = t.scrollTop /\ u.scrollBottom = t.scrollBottom
  BY <1>1 DEF Fields
<1>4. Sound(u)
  BY <1>2, <1>3 DEF Sound, Fits, Covers
<1> QED
  BY <1>2, <1>3, <1>4 DEF u

-----------------------------------------------------------------------------
Survives(t, u) ==
  /\ Sound(u)
  /\ u.profile = t.profile /\ u.width = t.width /\ u.height = t.height
  /\ u.revision >= t.revision
Onward(t, u) == Survives(t, u) /\ Mends(t, u)
Tells(t, u) == u.revision = t.revision => Screen(u) = Screen(t)
Moves(t, u) == Onward(t, u) /\ Tells(t, u)

(* Two steps that tell of their changes tell of them together.             *)
LEMMA MovesOn ==
  ASSUME NEW t, NEW u, NEW v, Sound(t), Moves(t, u), Moves(u, v)
  PROVE  Moves(t, v)
BY DEF Moves, Onward, Survives, Mends, Tells, Sound
(* So do two steps that may cut a wide character.                          *)
LEMMA TellsOn ==
  ASSUME NEW t, NEW u, NEW v, Sound(t), Survives(t, u), Survives(u, v)
  PROVE  Survives(t, v) /\ (Tells(t, u) /\ Tells(u, v) => Tells(t, v))
BY DEF Survives, Tells, Sound

(* Doing nothing changes nothing that would have to be told.               *)
LEMMA MovesNot == ASSUME NEW t, Sound(t) PROVE Moves(t, t)
BY DEF Moves, Onward, Survives, Mends, Tells, Sound

(* What leaves the cells leaves the wide characters whole.                 *)
LEMMA WholeKept ==
  ASSUME NEW t, NEW u, u.buffer = t.buffer, u.width = t.width, u.height = t.height
  PROVE  Mends(t, u)
BY DEF Mends, Whole

(* Work on the buffer in use that leaves its wide characters whole leaves  *)
(* those of both buffers whole.                                            *)
LEMMA WorksMend == ASSUME NEW t, Sound(t), NEW u, Works(t, u) PROVE Mends(t, u)
<1>1. u.width = t.width /\ u.height = t.height /\ u.active = t.active
  BY DEF Works, Alters, Kept
<1>2. u.buffer[Other(t)] = t.buffer[Other(t)]
      /\ Mended(t, t.buffer[t.active].cells, u.buffer[t.active].cells)
  BY <1>1 DEF Works, Alters, Cells
<1>3. ASSUME t.active = "main" PROVE Mends(t, u)
  BY <1>1, <1>2, <1>3 DEF Other, Mended, Mends, Whole
<1>4. ASSUME t.active = "alternate" PROVE Mends(t, u)
  <2>1. t.buffer.alternate.cells # <<>>
    BY <1>4 DEF Sound
  <2> QED
    BY <1>1, <1>2, <1>4, <2>1 DEF Other, Mended, Mends, Whole
<1> QED
  BY <1>3, <1>4 DEF Sound

(* A change that is yet to be told.                                        *)
Like(t, u) ==
  /\ Sound(u) /\ Mends(t, u)
  /\ u.profile = t.profile /\ u.width = t.width /\ u.height = t.height
  /\ u.revision = t.revision

(* What ends in Changed tells of whatever it did                           *)
(* (ansi/terminal.go:410-412).                                             *)
LEMMA Redrawn ==
  ASSUME NEW t, Sound(t), NEW u, Works(t, u) \/ Like(t, u)
  PROVE  Moves(t, Changed(u))
<1>1. Like(t, u)
  BY WorksMend DEF Works, Alters, Kept, Like
<1>2. /\ Sound(Changed(u)) /\ Changed(u).revision = t.revision + 1
      /\ Changed(u).profile = t.profile /\ Changed(u).width = t.width
      /\ Changed(u).height = t.height
  BY <1>1, ChangedSound DEF Like
<1>3. t.revision \in Nat
  BY DEF Sound
<1>4. Mends(t, Changed(u))
  <2>1. Mends(u, Changed(u))
    BY <1>1, ChangedSound, WholeKept DEF Like
  <2> QED
    BY <1>1, <2>1 DEF Like, Mends
<1> QED
  BY <1>2, <1>3, <1>4 DEF Moves, Onward, Survives, Tells

(* An erasure is told as well, and may leave half of a wide character.     *)
LEMMA Eroded ==
  ASSUME NEW t, Sound(t), NEW u, Alters(t, u)
  PROVE  Survives(t, Changed(u)) /\ Tells(t, Changed(u))
<1>1. /\ Sound(Changed(u)) /\ Changed(u).revision = t.revision + 1
      /\ Changed(u).profile = t.profile /\ Changed(u).width = t.width
      /\ Changed(u).height = t.height
  BY ChangedSound DEF Alters, Kept
<1> QED
  BY <1>1 DEF Survives, Tells, Sound

(* What leaves the buffer and the revision is not told.                    *)
LEMMA NotRedrawn ==
  ASSUME NEW t, Sound(t), NEW u, Works(t, u), Cells(u) = Cells(t), Cursor(u) = Cursor(t)
  PROVE  Moves(t, u)
BY WorksMend DEF Works, Alters, Kept, Moves, Onward, Survives, Tells, Sound, Screen

(* A wrap that is no longer pending shows nothing.                         *)
LEMMA WrapStops == ASSUME NEW t, Sound(t) PROVE Works(t, NoWrap(t)) /\ Moves(t, NoWrap(t))
BY WrapSet, NotRedrawn DEF NoWrap

(* CursorChanged tells of a new position of the cursor.                    *)
LEMMA CursorTold ==
  ASSUME NEW t, Sound(t), NEW u, Works(t, u) \/ Like(t, u)
  PROVE  Moves(t, CursorChanged(u))
<1>1. Like(t, u)
  BY WorksMend DEF Works, Alters, Kept, Like
<1>2. Like(t, NoWrap(u))
  <2>1. Works(u, NoWrap(u)) /\ Mends(u, NoWrap(u))
    BY <1>1, WrapStops, WorksMend DEF Like
  <2> QED
    BY <1>1, <2>1 DEF Works, Alters, Kept, Like, Mends
<1> QED
  BY <1>2, Redrawn DEF CursorChanged

(* Every move of the cursor is told (ansi/terminal.go:745-748).            *)
LEMMA CursorMoves ==
  ASSUME NEW t, Sound(t), NEW row \in 0..(t.height - 1), NEW column \in 0..(t.width - 1)
  PROVE  Moves(t, CursorChanged(MoveTo(t, row, column)))
BY CursorSet, CursorTold

(* Where the cursor is (ansi/terminal.go:526-586).                         *)
LEMMA CursorIn ==
  ASSUME NEW t, Sound(t)
  PROVE  /\ Cursor(t).row \in 0..(t.height - 1) /\ Cursor(t).column \in 0..(t.width - 1)
         /\ t.height \in Nat \ {0} /\ t.width \in Nat \ {0}
         /\ t.scrollTop \in Nat /\ t.scrollBottom \in Nat
         /\ t.scrollTop <= t.scrollBottom /\ t.scrollBottom < t.height
BY ActiveFits DEF Cursors, Sound

(* A line feed moves the cursor or scrolls (ansi/terminal.go:560-574).     *)
LEMMA LineFeeds ==
  ASSUME NEW t, Sound(t), NEW u, Works(t, u)
  PROVE  Moves(t, LineFeed(u))
<1> DEFINE v == IF Cursor(u).row = u.scrollBottom THEN ScrollUp(u)
                ELSE IF Cursor(u).row < u.height - 1
                  THEN MoveTo(u, Cursor(u).row + 1, Cursor(u).column) ELSE u
<1>0. Sound(u)
  BY DEF Works, Alters
<1>1. Works(u, ScrollUp(u))
  BY <1>0, CursorIn, RowsShift DEF ScrollUp
<1>2. Cursor(u).row < u.height - 1 => Works(u, MoveTo(u, Cursor(u).row + 1, Cursor(u).column))
  BY <1>0, CursorIn, CursorSet
<1>3. Works(u, v)
  BY <1>0, <1>1, <1>2, WorksNot
<1> HIDE DEF v
<1>4. Works(t, v)
  BY <1>3, WorksOn
<1> QED
  BY <1>4, Redrawn DEF LineFeed, v

(* A reverse index moves the cursor or scrolls (ansi/terminal.go:576-586). *)
LEMMA IndexReverses == ASSUME NEW t, Sound(t) PROVE Moves(t, ReverseIndex(t))
<1> DEFINE u == IF Cursor(t).row = t.scrollTop THEN ShiftRows(t, t.scrollTop, t.scrollBottom, -1)
                ELSE IF Cursor(t).row > 0
                  THEN MoveTo(t, Cursor(t).row - 1, Cursor(t).column) ELSE t
<1>1. Works(t, ShiftRows(t, t.scrollTop, t.scrollBottom, -1))
  BY CursorIn, RowsShift
<1>2. Cursor(t).row > 0 => Works(t, MoveTo(t, Cursor(t).row - 1, Cursor(t).column))
  BY CursorIn, CursorSet
<1>3. Works(t, u)
  BY <1>1, <1>2, WorksNot
<1> QED
  BY <1>3, Redrawn DEF ReverseIndex

(* Inserting and deleting lines (ansi/terminal.go:832-860).                *)
LEMMA LinesShift ==
  ASSUME NEW t, Sound(t), NEW count \in Int, NEW downwards
  PROVE  Moves(t, ShiftLines(t, count, downwards))
<1> DEFINE row == Cursor(t).row
           n == Smaller(Larger(1, count), t.scrollBottom - row + 1)
<1>1. CASE row \notin t.scrollTop..t.scrollBottom
  BY <1>1, MovesNot DEF ShiftLines
<1>2. CASE row \in t.scrollTop..t.scrollBottom
  <2>1. n \in Int /\ -n \in Int /\ row \in Nat
    BY CursorIn DEF Smaller, Larger
  <2> HIDE DEF n
  <2>2. Works(t, ShiftRows(t, row, t.scrollBottom, IF downwards THEN -n ELSE n))
    <3>1. Works(t, ShiftRows(t, row, t.scrollBottom, n))
      BY <2>1, CursorIn, RowsShift
    <3>2. Works(t, ShiftRows(t, row, t.scrollBottom, -n))
      BY <2>1, CursorIn, RowsShift
    <3> QED
      BY <3>1, <3>2
  <2>3. Moves(t, Changed(ShiftRows(t, row, t.scrollBottom, IF downwards THEN -n ELSE n)))
    BY <2>2, Redrawn
  <2> QED
    BY <1>2, <2>3 DEF ShiftLines, n
<1> QED
  BY <1>1, <1>2

(* Inserting and deleting characters (ansi/terminal.go:812-830).           *)
LEMMA CharactersShift ==
  ASSUME NEW t, Sound(t), NEW by \in Int
  PROVE  Moves(t, ShiftCharacters(t, by)) /\ Cursor(ShiftCharacters(t, by)) = Cursor(t)
<1> DEFINE u == ShiftColumns(t, Cursor(t).row, Cursor(t).column, by)
           cells == NormalizeCells(Cells(u), t.width, {Cursor(t).row}, BlankCell(t))
           row == Cursor(t).row
<1>0. t.width \in Nat /\ t.height \in Nat /\ row \in 0..(t.height - 1)
  BY CursorIn
<1>a. Cursor(t).column \in Nat
  BY CursorIn
<1>1. /\ Alters(t, u) /\ Cursor(u) = Cursor(t)
      /\ \A r \in 0..(t.height - 1), c \in 0..(t.width - 1) :
           r # row => Cells(u)[<<r, c>>] = Cells(t)[<<r, c>>]
  BY <1>a, ColumnsShift, ZenonT(40)
<1> HIDE DEF u, row
<1>s. Sound(u) /\ u.width = t.width /\ u.height = t.height
  BY <1>1 DEF Alters, Kept
<1>c. cells = NormalizeCells(Cells(u), t.width, {row}, BlankCell(t))
  BY DEF row
<1>2. Covers(u, cells)
  BY <1>s, ActiveFits, Normalized, Blanks DEF BlankCell
<1> HIDE DEF cells
<1>m. Mended(t, Cells(t), cells)
  <2> SUFFICES ASSUME Paired(Cells(t), t.width, t.height)
               PROVE  Paired(cells, t.width, t.height)
    BY DEF Mended
  <2>1. DOMAIN Cells(u) = Positions(t.width, t.height)
    BY <1>s, ActiveFits DEF Covers
  <2>2. ASSUME NEW r \in 0..(t.height - 1), NEW c \in 0..(t.width - 1)
        PROVE  r \in {row} \/ PairedAt(Cells(u), t.width, r, c)
    <3> SUFFICES ASSUME r # row PROVE PairedAt(Cells(u), t.width, r, c)
      OBVIOUS
    <3>1. PairedAt(Cells(t), t.width, r, c)
      BY DEF Paired
    <3>2. \A k \in 0..(t.width - 1) : Cells(u)[<<r, k>>] = Cells(t)[<<r, k>>]
      BY <1>1
    <3>3. c > 0 => c - 1 \in 0..(t.width - 1)
      BY <1>0
    <3>4. c + 1 < t.width => c + 1 \in 0..(t.width - 1)
      BY <1>0
    <3> QED
      BY <3>1, <3>2, <3>3, <3>4 DEF PairedAt
  <2>3. BlankCell(t).width = 1
    BY Blanks DEF BlankCell
  <2> QED
    BY <1>0, <1>c, <2>1, <2>2, <2>3, NormalizedPaired
<1>3. /\ Alters(u, SetCells(u, cells)) /\ Cells(SetCells(u, cells)) = cells
      /\ Cursor(SetCells(u, cells)) = Cursor(t)
  BY <1>s, <1>1, <1>2, CellsSet
<1>4. Works(t, SetCells(u, cells))
  BY <1>1, <1>3, <1>m, AltersOn DEF Works, Alters
<1> DEFINE v == SetCells(u, cells)
<1>5. ShiftCharacters(t, by) = Changed(v)
  BY <1>c DEF ShiftCharacters, u, row
<1>v. Cursor(v) = Cursor(t)
  BY <1>3
<1> HIDE DEF v
<1>6. Works(t, v)
  BY <1>4 DEF v
<1>7. Cursor(Changed(v)) = Cursor(v)
  BY <1>6, ChangedSound DEF Cursor, Works, Alters
<1> QED
  BY <1>5, <1>6, <1>7, <1>v, Redrawn

(* No more characters are shifted than the line has.                       *)
LEMMA ColumnsCounted ==
  ASSUME NEW t, Sound(t), NEW count \in Int
  PROVE  Columns(t, count) \in Int /\ -Columns(t, count) \in Int
BY CursorIn DEF Columns, Smaller, Larger

(* The erase functions tell of what they blank (ansi/terminal.go:757-810). *)
LEMMA Erased ==
  ASSUME NEW t, Sound(t), NEW n
  PROVE  \A u \in {EraseCharacters(t, n), EraseLine(t, n), EraseDisplay(t, n)} :
           Survives(t, u) /\ Tells(t, u)
<1>1. \A where : Survives(t, Changed(Erase(t, where))) /\ Tells(t, Changed(Erase(t, where)))
  BY Erases, Eroded
<1>2. Survives(t, t) /\ Tells(t, t)
  BY MovesNot DEF Moves, Onward, Survives
<1>3. Survives(t, EraseCharacters(t, n)) /\ Tells(t, EraseCharacters(t, n))
  BY <1>1 DEF EraseCharacters
<1>4. Survives(t, EraseLine(t, n)) /\ Tells(t, EraseLine(t, n))
  BY <1>1, <1>2 DEF EraseLine
<1>5. Survives(t, EraseDisplay(t, n)) /\ Tells(t, EraseDisplay(t, n))
  BY <1>1, <1>2 DEF EraseDisplay
<1> QED
  BY <1>3, <1>4, <1>5

-----------------------------------------------------------------------------
(* A combining rune is added to a cell (ansi/terminal.go:474-490).         *)
LEMMA Combines == ASSUME NEW t, Sound(t), NEW rune PROVE Moves(t, AppendCombining(t, rune))
<1>1. ASSUME NEW base PROVE Covers(t, [Cells(t) EXCEPT ![base].text = Append(@, rune)])
  BY ActiveFits DEF Covers, IsCell
<1>3. ASSUME NEW base
      PROVE  Mended(t, Cells(t), [Cells(t) EXCEPT ![base].text = Append(@, rune)])
  <2> DEFINE n == [Cells(t) EXCEPT ![base].text = Append(@, rune)]
  <2> SUFFICES ASSUME Paired(Cells(t), t.width, t.height) PROVE Paired(n, t.width, t.height)
    BY DEF Mended
  <2>1. \A p \in Positions(t.width, t.height) : n[p].width = Cells(t)[p].width
    BY ActiveFits DEF Covers, IsCell
  <2> HIDE DEF n
  <2>2. ASSUME NEW r \in 0..(t.height - 1), NEW c \in 0..(t.width - 1)
        PROVE  n[<<r, c>>].width = Cells(t)[<<r, c>>].width
    BY <2>1 DEF Positions
  <2>3. t.width \in Nat /\ t.height \in Nat
    BY CursorIn
  <2> QED
    BY <2>2, <2>3, RowsPaired
<1>2. ASSUME NEW base
      PROVE  Moves(t, Changed(SetCells(t, [Cells(t) EXCEPT ![base].text = Append(@, rune)])))
  BY <1>1, <1>3, CellsSet, Redrawn
<1> QED
  BY <1>2, MovesNot DEF AppendCombining

(* A character that does not fit on its line goes to the next              *)
(* (ansi/terminal.go:414-472).                                             *)
LEMMA Wraps == ASSUME NEW t, Sound(t), NEW width PROVE Moves(t, Wrap(t, width))
<1> DEFINE u == MoveTo(t, Cursor(t).row, 0)
           wrapped == IF t.autoWrap THEN LineFeed(u) ELSE t
<1>1. Works(t, u)
  BY CursorIn, CursorSet
<1>2. Moves(t, LineFeed(u))
  <2> HIDE DEF u
  <2> QED
    BY <1>1, LineFeeds
<1>3. Moves(t, wrapped)
  <2> HIDE DEF u
  <2> QED
    BY <1>2, MovesNot
<1> HIDE DEF wrapped
<1>4. Moves(t, NoWrap(wrapped))
  BY <1>3, WrapStops, MovesOn DEF Moves, Onward, Survives
<1> QED
  BY <1>4, MovesNot DEF Wrap, wrapped

(* Where every half has its other, the code clears both                    *)
(* (ansi/terminal.go:492-509).                                             *)
LEMMA WideHalves ==
  ASSUME NEW t, t.width \in Nat, NEW cells, cells = Cells(t),
         NEW row, NEW column \in 0..(t.width - 1),
         cells[<<row, column>>].width = 0 => column > 0 /\ cells[<<row, column - 1>>].width = 2,
         cells[<<row, column>>].width = 2 =>
           column + 1 < t.width /\ cells[<<row, column + 1>>].width = 0
  PROVE  WideCharacterAt(t, row, column) = Halves(cells, row, column)
<1> DEFINE Is(c, width) == c \in 0..(t.width - 1) /\ cells[<<row, c>>].width = width
<1>1. WideCharacterAt(t, row, column) =
        IF Is(column, 0)
          THEN {<<row, column>>} \cup {p \in {<<row, column - 1>>} : Is(column - 1, 2)}
        ELSE IF Is(column, 2)
          THEN {<<row, column>>} \cup {p \in {<<row, column + 1>>} : Is(column + 1, 0)}
        ELSE {}
  BY Zenon DEF WideCharacterAt
<1>2. /\ Is(column, 0) <=> cells[<<row, column>>].width = 0
      /\ Is(column, 2) <=> cells[<<row, column>>].width = 2
      /\ Is(column, 0) => Is(column - 1, 2)
      /\ Is(column, 2) => Is(column + 1, 0)
  OBVIOUS
<1> HIDE DEF Is
<1>3. \A a, b, q : q => {a} \cup {p \in {b} : q} = {a, b}
  OBVIOUS
<1> QED
  BY <1>1, <1>2, <1>3 DEF Halves

(* Both halves of what a character is drawn over are cleared               *)
(* (ansi/terminal.go:492-509).                                             *)
LEMMA Clears ==
  ASSUME NEW t, Sound(t), NEW row \in 0..(t.height - 1), NEW column \in 0..(t.width - 1),
         NEW u, u = ClearWideCharacterAt(t, row, column)
  PROVE  /\ Works(t, u)
         /\ Paired(Cells(t), t.width, t.height) => Cells(u)[<<row, column>>].width = 1
         /\ \A r \in 0..(t.height - 1), c \in 0..(t.width - 1) :
              Cells(u)[<<r, c>>].width \in {1, Cells(t)[<<r, c>>].width}
<1> DEFINE where == WideCharacterAt(t, row, column)
           cells == Cells(t)
<1>0. t.width \in Nat /\ t.height \in Nat /\ Covers(t, cells)
  BY CursorIn, ActiveFits
<1>1. /\ Alters(t, u)
      /\ \A p \in DOMAIN cells : Cells(u)[p] = IF p \in where THEN BlankCell(t) ELSE cells[p]
  BY Erases DEF ClearWideCharacterAt
<1>2. ASSUME NEW r \in 0..(t.height - 1), NEW c \in 0..(t.width - 1)
      PROVE  /\ <<r, c>> \in DOMAIN cells /\ cells[<<r, c>>].width \in 0..2
             /\ Cells(u)[<<r, c>>].width = IF <<r, c>> \in where THEN 1 ELSE cells[<<r, c>>].width
  <2>1. <<r, c>> \in DOMAIN cells
    BY <1>0 DEF Covers, Positions
  <2> QED
    BY <1>0, <1>1, <2>1, Blanks DEF Covers, IsCell, BlankCell
<1>3. ASSUME Paired(cells, t.width, t.height)
      PROVE  Paired(Cells(u), t.width, t.height) /\ Cells(u)[<<row, column>>].width = 1
  <2>1. PairedAt(cells, t.width, row, column)
    BY <1>3 DEF Paired
  <2>3. where = Halves(cells, row, column)
    BY <1>0, <2>1, WideHalves DEF PairedAt
  <2> HIDE DEF where, cells
  <2>4. \A r \in 0..(t.height - 1), c \in 0..(t.width - 1) : cells[<<r, c>>].width \in 0..2
    BY <1>2
  <2>5. \A r \in 0..(t.height - 1), c \in 0..(t.width - 1) :
          Cells(u)[<<r, c>>].width = IF <<r, c>> \in Halves(cells, row, column) THEN 1
                                     ELSE cells[<<r, c>>].width
    BY <1>2, <2>3
  <2> DEFINE w == t.width
             h == t.height
             n == Cells(u)
  <2>6. /\ w \in Nat /\ h \in Nat /\ row \in 0..(h - 1) /\ column \in 0..(w - 1)
        /\ Paired(cells, w, h)
        /\ \A r \in 0..(h - 1), c \in 0..(w - 1) : cells[<<r, c>>].width \in 0..2
        /\ ClearedAs(n, cells, w, h, row, column)
    BY <1>0, <1>3, <2>4, <2>5 DEF ClearedAs
  <2> HIDE DEF w, h, n
  <2>7. Paired(n, w, h) /\ n[<<row, column>>].width = 1
    BY ONLY <2>6, ClearedPaired
  <2> QED
    BY <2>7 DEF n, w, h
<1>4. Works(t, u)
  BY <1>1, <1>3 DEF Works, Alters, Mended
<1> QED
  BY <1>2, <1>3, <1>4

(* A character is drawn into cells of its line (ansi/terminal.go:414-472). *)
LEMMA Draws ==
  ASSUME NEW t, Sound(t), NEW rune, NEW width \in {1, 2},
         width = 2 => Cursor(t).column + 1 < t.width
  PROVE  Moves(t, Draw(t, rune, width))
<1> DEFINE row == Cursor(t).row
           column == Cursor(t).column
           halves == {<<row, column>>} \cup {p \in {<<row, column + 1>>} : width = 2}
           here == ClearWideCharacterAt(t, row, column)
           cleared == IF width = 2 THEN ClearWideCharacterAt(here, row, column + 1) ELSE here
           cell(p) == [text  |-> IF p[2] = column THEN <<rune>> ELSE <<>>,
                       width |-> IF p[2] = column THEN width ELSE 0,
                       style |-> t.style]
           cells == [p \in DOMAIN Cells(t) |->
                       IF p \in halves THEN cell(p) ELSE Cells(cleared)[p]]
           drawn == SetCells(t, cells)
           atEnd == column + width >= t.width
           next == IF atEnd THEN t.width - 1 ELSE column + width
           moved == MoveTo(drawn, row, next)
           u == [moved EXCEPT !.wrapPending = IF atEnd THEN t.autoWrap ELSE @]
<1>0. Draw(t, rune, width) = Changed(u)
  BY DEF Draw
<1>r. /\ t.width \in Nat /\ t.height \in Nat /\ row \in 0..(t.height - 1)
      /\ column \in 0..(t.width - 1) /\ (width = 2 => column + 1 \in 0..(t.width - 1))
  BY CursorIn
<1>1. /\ Works(t, cleared)
      /\ Paired(Cells(t), t.width, t.height) =>
           /\ Cells(cleared)[<<row, column>>].width = 1
           /\ width = 2 => Cells(cleared)[<<row, column + 1>>].width = 1
  <2> DEFINE then == ClearWideCharacterAt(here, row, column + 1)
  <2>1. /\ Works(t, here)
        /\ Paired(Cells(t), t.width, t.height) => Cells(here)[<<row, column>>].width = 1
    BY <1>r, Clears
  <2>2. CASE width = 1
    BY <2>1, <2>2
  <2>3. CASE width = 2
    <3> HIDE DEF here, row, column
    <3>1. Sound(here) /\ here.width = t.width /\ here.height = t.height
      BY <2>1 DEF Works, Alters, Kept
    <3>2. /\ Works(here, then)
          /\ Paired(Cells(here), t.width, t.height) => Cells(then)[<<row, column + 1>>].width = 1
          /\ Cells(then)[<<row, column>>].width \in {1, Cells(here)[<<row, column>>].width}
      BY <1>r, <2>3, <3>1, Clears
    <3> HIDE DEF then
    <3>3. Works(t, then)
      BY <2>1, <3>2, WorksOn
    <3>4. Paired(Cells(t), t.width, t.height) => Paired(Cells(here), t.width, t.height)
      BY <2>1 DEF Works, Mended, Alters
    <3>5. cleared = then
      BY <2>3 DEF then, row, column, here
    <3> QED
      BY <2>1, <3>2, <3>3, <3>4, <3>5
  <2> QED
    BY <2>2, <2>3
<1> HIDE DEF cleared
<1>2. Covers(t, cells)
  <2>1. \A p : IsCell(cell(p))
    BY DEF IsCell
  <2>2. Covers(t, Cells(t)) /\ Covers(t, Cells(cleared))
    BY <1>1, ActiveFits DEF Works, Kept, Covers, Alters
  <2> HIDE DEF cell, halves
  <2> QED
    BY <2>1, <2>2 DEF Covers
<1>m. Mended(t, Cells(t), cells)
  <2> SUFFICES ASSUME Paired(Cells(t), t.width, t.height)
               PROVE  Paired(cells, t.width, t.height)
    BY DEF Mended
  <2>1. ASSUME NEW r \in 0..(t.height - 1), NEW c \in 0..(t.width - 1)
        PROVE  cells[<<r, c>>].width = IF r = row /\ c = column THEN width
                                       ELSE IF width = 2 /\ r = row /\ c = column + 1 THEN 0
                                       ELSE Cells(cleared)[<<r, c>>].width
    <3> DEFINE p == <<r, c>>
    <3>1. p \in DOMAIN Cells(t)
      BY ActiveFits DEF Covers, Positions
    <3>2. p[2] = c
      OBVIOUS
    <3>3. p \in halves <=> r = row /\ (c = column \/ (width = 2 /\ c = column + 1))
      OBVIOUS
    <3>4. cells[p] = IF p \in halves THEN cell(p) ELSE Cells(cleared)[p]
      BY <3>1
    <3>5. cell(p).width = IF c = column THEN width ELSE 0
      BY <3>2
    <3> HIDE DEF p, cells, cell, halves
    <3> QED
      BY <3>3, <3>4, <3>5, <1>r DEF p
  <2>2. Paired(Cells(cleared), t.width, t.height)
    BY <1>1 DEF Works, Mended, Alters
  <2>3. CASE width = 1
    <3> HIDE DEF cells, row, column
    <3>1. ASSUME NEW r \in 0..(t.height - 1), NEW c \in 0..(t.width - 1)
          PROVE  cells[<<r, c>>].width = Cells(cleared)[<<r, c>>].width
      <4>1. CASE r = row /\ c = column
        <5>1. Cells(cleared)[<<r, c>>].width = 1
          BY <1>1, <4>1
        <5>2. cells[<<r, c>>].width = width
          BY <2>1, <4>1
        <5> QED
          BY <2>3, <5>1, <5>2
      <4>2. CASE ~(r = row /\ c = column)
        BY <2>1, <2>3, <4>2
      <4> QED
        BY <4>1, <4>2
    <3> QED
      BY <1>r, <2>2, <3>1, RowsPaired
  <2>4. CASE width = 2
    <3> HIDE DEF cells, row, column
    <3> DEFINE w == t.width
               h == t.height
               m == Cells(cleared)
    <3>1. /\ w \in Nat /\ h \in Nat /\ row \in 0..(h - 1) /\ column \in 0..(w - 1)
          /\ column + 1 < w /\ Paired(m, w, h)
          /\ m[<<row, column>>].width = 1 /\ m[<<row, column + 1>>].width = 1
          /\ DrawnAs(cells, m, w, h, row, column)
      BY <1>r, <1>1, <2>1, <2>2, <2>4 DEF DrawnAs
    <3> HIDE DEF w, h, m
    <3>2. Paired(cells, w, h)
      BY ONLY <3>1, DrawnPaired
    <3> QED
      BY <3>2 DEF w, h
  <2> QED
    BY <2>3, <2>4
<1> HIDE DEF cells
<1>3. Works(t, drawn)
  BY <1>2, <1>m, CellsSet
<1> HIDE DEF drawn
<1>4. row \in 0..(t.height - 1) /\ next \in 0..(t.width - 1)
  BY CursorIn
<1> HIDE DEF next, row
<1>5. Works(t, moved)
  BY <1>3, <1>4, CursorSet, WorksOn DEF Works, Kept, Alters
<1> HIDE DEF moved
<1>6. Works(t, u)
  <2>1. Sound(moved)
    BY <1>5 DEF Works, Alters
  <2>2. Works(moved, u)
    BY <2>1, WrapSet
  <2> HIDE DEF u
  <2> QED
    BY <1>5, <2>2, WorksOn
<1> HIDE DEF u
<1>7. Moves(t, Changed(u))
  BY <1>6, Redrawn
<1> QED
  BY <1>0, <1>7

(* Printing a rune tells of it (ansi/terminal.go:414-490).                 *)
LEMMA Prints == ASSUME NEW t, Sound(t), NEW r PROVE Moves(t, PrintRune(t, r))
<1> DEFINE rune == IF t.charsets[t.charset] THEN DecSpecialGraphics(r) ELSE r
           asked == IF XTerm(t) THEN RuneWidth(rune) ELSE 1
           wanted == IF asked > t.width THEN 1 ELSE asked
           placed == Wrap(t, wanted)
           width == IF wanted = 2 /\ Cursor(placed).column = t.width - 1 THEN 1 ELSE wanted
           open == IF t.insertMode THEN InsertCharacters(placed, width) ELSE placed
<1>0. asked \in {0, 1, 2}
  BY DEF RuneWidth
<1> HIDE DEF rune
<1>1. CASE asked = 0
  BY <1>1, Combines DEF PrintRune, rune
<1>2. CASE asked # 0
  <2>1. wanted \in {1, 2}
    BY <1>0, <1>2, CursorIn
  <2> HIDE DEF wanted
  <2>2. Moves(t, placed)
    BY Wraps
  <2> HIDE DEF placed
  <2>3. width \in {1, 2}
    BY <2>1
  <2> HIDE DEF width
  <2>p. Sound(placed)
    BY <2>2 DEF Moves, Onward, Survives
  <2>w. width = 2 => Cursor(placed).column + 1 < placed.width
    <3>1. Cursor(placed).column \in 0..(placed.width - 1) /\ placed.width \in Nat
      BY <2>p, CursorIn
    <3>2. placed.width = t.width
      BY <2>2 DEF Moves, Onward, Survives
    <3> QED
      BY <3>1, <3>2 DEF width
  <2>4. /\ Moves(placed, InsertCharacters(placed, width))
        /\ Cursor(InsertCharacters(placed, width)) = Cursor(placed)
    <3>1. width \in Int
      BY <2>3
    <3> QED
      BY <2>p, <3>1, CharactersShift, ColumnsCounted DEF InsertCharacters
  <2>5. Moves(t, open)
    BY <2>2, <2>4, MovesOn
  <2>o. Sound(open) /\ (width = 2 => Cursor(open).column + 1 < open.width)
    BY <2>p, <2>4, <2>w DEF Moves, Onward, Survives
  <2> HIDE DEF open
  <2>6. Moves(open, Draw(open, rune, width))
    BY <2>3, <2>o, Draws
  <2>7. Moves(t, Draw(open, rune, width))
    BY <2>5, <2>6, MovesOn
  <2> QED
    BY <1>2, <2>7 DEF PrintRune, rune, wanted, placed, width, open
<1> QED
  BY <1>1, <1>2

-----------------------------------------------------------------------------
(* What neither shows nor holds the screen is set without a change         *)
(* (ansi/terminal.go:597-655).                                             *)
Hidden ==
  {"style", "wrapPending", "autoWrap", "insertMode", "applicationCursor", "charsets", "charset",
   "answerback", "events"}
(* What is not a part of the screen may change untold.                     *)
LEMMA HiddenKept ==
  ASSUME NEW t, Sound(t), NEW u, DOMAIN u = Fields, \A f \in Fields \ Hidden : u[f] = t[f]
  PROVE  Moves(t, u) /\ Like(t, u)
<1>2. /\ u.profile = t.profile /\ u.width = t.width /\ u.height = t.height
      /\ u.active = t.active /\ u.revision = t.revision /\ u.title = t.title
      /\ u.scrollTop = t.scrollTop /\ u.scrollBottom = t.scrollBottom /\ u.buffer = t.buffer
  BY DEF Fields, Hidden
<1>3. Sound(u)
  BY <1>2 DEF Sound, Fits, Covers
<1>4. Screen(u) = Screen(t)
  BY <1>2 DEF Screen, Cells, Cursor
<1>5. u.revision >= t.revision
  BY <1>2 DEF Sound
<1> QED
  BY <1>2, <1>3, <1>4, <1>5, WholeKept DEF Moves, Onward, Tells, Like, Survives

(* One field that is not a part of the screen may change untold.           *)
LEMMA HiddenSet ==
  ASSUME NEW t, Sound(t), NEW f \in Hidden, NEW value
  PROVE  Moves(t, [t EXCEPT ![f] = value])
<1> DEFINE u == [t EXCEPT ![f] = value]
<1>1. DOMAIN u = Fields /\ \A g \in Fields \ Hidden : u[g] = t[g]
  BY DEF Sound
<1> HIDE DEF u
<1>2. Moves(t, u)
  BY <1>1, HiddenKept
<1> QED
  BY <1>2 DEF u

(* An event for the host is queued and shows nothing.                      *)
LEMMA Reports ==
  ASSUME NEW t, Sound(t)
  PROVE  /\ \A type, data : Moves(t, Report(t, type, data))
         /\ Moves(t, Unsupported(t))
<1>1. \A value : Moves(t, [t EXCEPT !.events = value])
  BY HiddenSet DEF Hidden
<1> QED
  BY <1>1 DEF Report, Unsupported

(* The control characters (ansi/terminal.go:526-558).                      *)
LEMMA Executes == ASSUME NEW t, Sound(t), NEW control PROVE Moves(t, Execute(t, control))
<1> DEFINE c == Cursor(t)
<1>1. \A column \in 0..(t.width - 1) : Moves(t, CursorChanged(MoveTo(t, c.row, column)))
  BY CursorIn, CursorMoves
<1>2. Moves(t, CursorChanged(MoveTo(t, c.row, Larger(0, c.column - 1))))
  <2>1. Larger(0, c.column - 1) \in 0..(t.width - 1)
    BY CursorIn DEF Larger
  <2> QED
    BY <1>1, <2>1
<1>3. Moves(t, CursorChanged(MoveTo(t, c.row, Smaller(((c.column \div 8) + 1) * 8, t.width - 1))))
  <2>1. Smaller(((c.column \div 8) + 1) * 8, t.width - 1) \in 0..(t.width - 1)
    BY CursorIn DEF Smaller
  <2> QED
    BY <1>1, <2>1
<1>4. Moves(t, CursorChanged(MoveTo(t, c.row, 0)))
  BY <1>1, CursorIn
<1>5. Moves(t, NoWrap(LineFeed(t)))
  <2>1. Moves(t, LineFeed(t))
    BY WorksNot, LineFeeds
  <2>2. Sound(LineFeed(t))
    BY <2>1 DEF Moves, Onward, Survives
  <2>3. Moves(LineFeed(t), NoWrap(LineFeed(t)))
    BY <2>2, WrapStops
  <2> QED
    BY <2>1, <2>3, MovesOn
<1>6. Moves(t, [t EXCEPT !.charset = 2]) /\ Moves(t, [t EXCEPT !.charset = 1])
  BY HiddenSet DEF Hidden
<1> HIDE DEF c
<1> QED
  BY <1>2, <1>3, <1>4, <1>5, <1>6, Reports, MovesNot DEF Execute, c

(* A new buffer (ansi/terminal.go:66-102).                                 *)
LEMMA Homes ==
  ASSUME NEW width \in Nat \ {0}, NEW height \in Nat \ {0}
  PROVE  /\ Home \in Cursors(width, height) /\ NoCursor \in Cursors(width, height)
         /\ \A visible \in BOOLEAN : [Home EXCEPT !.visible = visible] \in Cursors(width, height)
<1>1. 0 \in 0..(width - 1) /\ 0 \in 0..(height - 1)
  OBVIOUS
<1>2. Home \in Cursors(width, height)
  BY <1>1 DEF Home, Cursors
<1>3. ASSUME NEW c \in Cursors(width, height), NEW visible \in BOOLEAN
      PROVE  [c EXCEPT !.visible = visible] \in Cursors(width, height)
  BY DEF Cursors
<1> QED
  BY <1>2, <1>3 DEF NoCursor

(* A new buffer fits its screen (ansi/terminal.go:66-102).                 *)
LEMMA NewFits ==
  ASSUME NEW t, t.width \in Nat \ {0}, t.height \in Nat \ {0}, NEW style,
         NEW cursor \in Cursors(t.width, t.height)
  PROVE  /\ Fits(t, NewBuffer(t.width, t.height, style, cursor))
         /\ Paired(NewBuffer(t.width, t.height, style, cursor).cells, t.width, t.height)
<1> DEFINE b == NewBuffer(t.width, t.height, style, cursor)
<1>1. DOMAIN b = BufferParts
  BY DEF NewBuffer, BufferParts
<1>2. Covers(t, b.cells)
  BY Blanks DEF NewBuffer, Covers
<1>3. b.cursor \in Cursors(t.width, t.height) /\ b.saved \in Cursors(t.width, t.height)
  BY Homes DEF NewBuffer
<1>4. ASSUME NEW r \in 0..(t.height - 1), NEW c \in 0..(t.width - 1)
      PROVE  b.cells[<<r, c>>].width = 1
  <2>1. <<r, c>> \in Positions(t.width, t.height)
    BY DEF Positions
  <2> QED
    BY <2>1, Blanks DEF NewBuffer
<1> HIDE DEF b
<1>5. Paired(b.cells, t.width, t.height)
  <2> SUFFICES ASSUME NEW r \in 0..(t.height - 1), NEW c \in 0..(t.width - 1)
               PROVE  PairedAt(b.cells, t.width, r, c)
    BY DEF Paired
  <2>1. b.cells[<<r, c>>].width = 1
    BY <1>4
  <2> QED
    BY <2>1 DEF PairedAt
<1> QED
  BY <1>1, <1>2, <1>3, <1>5 DEF Fits, b

(* A new emulator is sound (ansi/terminal.go:66-102).                      *)
LEMMA NewSound ==
  ASSUME NEW profile, NEW s \in Dimension, s.width > 0, s.height > 0
  PROVE  /\ Sound(New(s, profile)) /\ Whole(New(s, profile)) /\ New(s, profile).profile = profile
         /\ New(s, profile).width = s.width /\ New(s, profile).height = s.height
         /\ New(s, profile).revision = 0
<1> DEFINE u == New(s, profile)
<1>1. DOMAIN u = Fields
  BY DEF New, Fields
<1>2. /\ u.profile = profile /\ u.width = s.width /\ u.height = s.height /\ u.active = "main"
      /\ u.revision = 0 /\ u.scrollTop = 0 /\ u.scrollBottom = s.height - 1
      /\ u.buffer = [main |-> NewBuffer(s.width, s.height, DefaultStyle, Home),
                     alternate |-> NoBuffer]
  BY DEF New
<1>3. s.width \in Nat \ {0} /\ s.height \in Nat \ {0}
  BY DEF Dimension
<1> HIDE DEF u
<1>5. Fits(u, u.buffer.main) /\ Paired(u.buffer.main.cells, u.width, u.height)
  BY <1>2, <1>3, Homes, NewFits
<1>6. DOMAIN u.buffer.alternate = BufferParts /\ u.buffer.alternate.cells = <<>>
  BY <1>2 DEF NoBuffer, BufferParts
<1>7. DOMAIN u.buffer = {"main", "alternate"}
  BY <1>2
<1>8. Sound(u)
  BY <1>1, <1>2, <1>3, <1>5, <1>6, <1>7 DEF Sound
<1>9. Whole(u)
  BY <1>5, <1>6 DEF Whole
<1> QED
  BY <1>2, <1>8, <1>9 DEF u

(* A full reset (ansi/terminal.go:1070-1087).                              *)
LEMMA ResetMoves == ASSUME NEW t, Sound(t) PROVE Moves(t, Reset(t))
<1> DEFINE s == [width |-> t.width, height |-> t.height]
           n == New(s, t.profile)
           u == [n EXCEPT !.revision = t.revision, !.title = t.title,
                          !.answerback = t.answerback, !.events = t.events]
<1>0. Reset(t) = Changed(u)
  BY DEF Reset
<1>1. s \in Dimension /\ s.width = t.width /\ s.height = t.height /\ t.width > 0 /\ t.height > 0
      /\ t.revision \in Nat
  BY DEF Sound, Dimension
<1> HIDE DEF s
<1>2. /\ Sound(n) /\ Whole(n)
      /\ n.profile = t.profile /\ n.width = t.width /\ n.height = t.height
  BY <1>1, NewSound
<1> HIDE DEF n
<1>3. DOMAIN u = Fields /\ DOMAIN n = Fields
  BY <1>2 DEF Sound
<1>4. /\ u.profile = n.profile /\ u.width = n.width /\ u.height = n.height
      /\ u.active = n.active /\ u.revision = t.revision
      /\ u.scrollTop = n.scrollTop /\ u.scrollBottom = n.scrollBottom /\ u.buffer = n.buffer
  BY <1>3 DEF Fields
<1> HIDE DEF u
<1>5. Sound(u)
  BY <1>1, <1>2, <1>3, <1>4 DEF Sound, Fits, Covers
<1>6. /\ Sound(Changed(u)) /\ Changed(u).revision = t.revision + 1
      /\ Changed(u).profile = t.profile /\ Changed(u).width = t.width
      /\ Changed(u).height = t.height
  BY <1>2, <1>4, <1>5, ChangedSound
<1>8. Whole(Changed(u))
  BY <1>2, <1>4, <1>5, ChangedSound DEF Whole
<1>7. Moves(t, Changed(u))
  BY <1>1, <1>6, <1>8 DEF Moves, Onward, Mends, Tells, Survives
<1> QED
  BY <1>0, <1>7

(* Saving the cursor shows nothing.                                        *)
LEMMA CursorSaved ==
  ASSUME NEW t, Sound(t)
  PROVE  Moves(t, [t EXCEPT !.buffer[t.active].saved = Cursor(t)])
<1> DEFINE u == [t EXCEPT !.buffer[t.active].saved = Cursor(t)]
<1>1. DOMAIN u = Fields /\ Kept(t, u)
  BY DEF Sound, Kept, Fields
<1>2. /\ DOMAIN u.buffer = {"main", "alternate"}
      /\ u.buffer[t.active] = [t.buffer[t.active] EXCEPT !.saved = Cursor(t)]
      /\ u.buffer[Other(t)] = t.buffer[Other(t)]
  BY DEF Sound, Other, Fields
<1>3. Fits(t, u.buffer[t.active]) /\ u.buffer[t.active].cells = Cells(t)
  BY <1>2, ActiveFits DEF Fits, BufferParts, Cells
<1> HIDE DEF u
<1>m. Mended(t, Cells(t), Cells(t))
  BY DEF Mended
<1>o. DOMAIN u.buffer = {"main", "alternate"} /\ u.buffer[Other(t)] = t.buffer[Other(t)]
  BY <1>2
<1>4. Works(t, u)
  BY <1>1, <1>o, <1>3, <1>m, BufferSet
<1>5. Cells(u) = Cells(t) /\ Cursor(u) = Cursor(t)
  BY <1>1, <1>2, ActiveFits DEF Cells, Cursor, Kept, Fits, BufferParts
<1> QED
  BY <1>4, <1>5, NotRedrawn DEF u

(* A saved cursor is inside of the screen when it is restored.             *)
LEMMA CursorRestored == ASSUME NEW t, Sound(t) PROVE Works(t, Restored(t))
<1> DEFINE u == Restored(t)
           saved == t.buffer[t.active].saved
<1>1. DOMAIN u = Fields /\ Kept(t, u)
  BY DEF Sound, Kept, Fields, Restored
<1>2. /\ DOMAIN u.buffer = {"main", "alternate"}
      /\ u.buffer[t.active] = [t.buffer[t.active] EXCEPT !.cursor = saved]
      /\ u.buffer[Other(t)] = t.buffer[Other(t)]
  BY DEF Sound, Other, Fields, Restored
<1>3. Fits(t, u.buffer[t.active]) /\ u.buffer[t.active].cells = Cells(t)
  BY <1>2, ActiveFits DEF Fits, BufferParts, Cells
<1> HIDE DEF u
<1>m. Mended(t, Cells(t), Cells(t))
  BY DEF Mended
<1>o. DOMAIN u.buffer = {"main", "alternate"} /\ u.buffer[Other(t)] = t.buffer[Other(t)]
  BY <1>2
<1>4. Works(t, u)
  BY <1>1, <1>o, <1>3, <1>m, BufferSet
<1> QED
  BY <1>4 DEF u

(* Designating a character set shows nothing.                              *)
LEMMA CharsetsSet ==
  ASSUME NEW t, Sound(t), NEW i, NEW value
  PROVE  Moves(t, [t EXCEPT !.charsets[i] = value])
<1> DEFINE u == [t EXCEPT !.charsets[i] = value]
<1>1. DOMAIN u = Fields /\ \A f \in Fields \ Hidden : u[f] = t[f]
  BY DEF Sound, Hidden
<1> HIDE DEF u
<1>2. Moves(t, u)
  BY <1>1, HiddenKept
<1> QED
  BY <1>2 DEF u

(* The escape sequences (ansi/terminal.go:597-629).                        *)
LEMMA Escapes ==
  ASSUME NEW t, Sound(t), NEW intermediate, NEW final
  PROVE  Moves(t, HandleEscape(t, intermediate, final))
<1>1. Moves(t, LineFeed(t)) /\ Moves(t, LineFeed(MoveTo(t, Cursor(t).row, 0)))
  <2>1. Works(t, MoveTo(t, Cursor(t).row, 0))
    BY CursorIn, CursorSet
  <2> QED
    BY <2>1, LineFeeds, WorksNot
<1>2. Moves(t, CursorChanged(Restored(t)))
  BY CursorRestored, CursorTold
<1>3. \A i, value : Moves(t, [t EXCEPT !.charsets[i] = value])
  BY CharsetsSet
<1> QED
  BY <1>1, <1>2, <1>3, CursorSaved, IndexReverses, ResetMoves, Reports, MovesNot DEF HandleEscape

(* The operating system commands (ansi/terminal.go:631-648).               *)
LEMMA Commands ==
  ASSUME NEW t, Sound(t), NEW command, NEW data
  PROVE  Moves(t, HandleOSC(t, command, data))
<1> DEFINE u == [t EXCEPT !.title = data]
<1>1. Like(t, u)
  <2>1. /\ DOMAIN u = Fields
        /\ u.profile = t.profile /\ u.width = t.width /\ u.height = t.height
        /\ u.active = t.active /\ u.revision = t.revision /\ u.buffer = t.buffer
        /\ u.scrollTop = t.scrollTop /\ u.scrollBottom = t.scrollBottom
    BY DEF Sound, Fields
  <2> HIDE DEF u
  <2> QED
    BY <2>1, WholeKept DEF Like, Sound, Fits, Covers
<1> HIDE DEF u
<1>2. Moves(t, Changed(u))
  BY <1>1, Redrawn
<1> QED
  BY <1>2, Reports, MovesNot DEF HandleOSC, u

-----------------------------------------------------------------------------
(* Control sequences (ansi/terminal.go:688-1068).                          *)
LEMMA Params ==
  ASSUME NEW parameters \in Seq(Parameter), NEW i \in Nat, NEW fallback \in Int
  PROVE  Param(parameters, i, fallback) \in Int
<1>1. i \in DOMAIN parameters => parameters[i] \in Parameter
  OBVIOUS
<1>2. i \in DOMAIN parameters => parameters[i].value \in Int
  BY <1>1 DEF Parameter
<1> QED
  BY <1>2 DEF Param

(* Margins are set inside of the screen or not at all                      *)
(* (ansi/terminal.go:1056-1068).                                           *)
LEMMA MarginsSet ==
  ASSUME NEW t, Sound(t), NEW parameters \in Seq(Parameter)
  PROVE  Moves(t, SetScrollRegion(t, parameters))
<1> DEFINE top == Param(parameters, 1, 1) - 1
           bottom == Param(parameters, 2, t.height) - 1
           u == [t EXCEPT !.scrollTop = top, !.scrollBottom = bottom]
<1>1. top \in Int /\ bottom \in Int /\ t.height \in Nat \ {0} /\ t.width \in Nat \ {0}
  <2>1. t.height \in Nat \ {0} /\ t.width \in Nat \ {0}
    BY CursorIn
  <2>2. Param(parameters, 1, 1) \in Int
    BY Params
  <2>3. ASSUME NEW height \in Int PROVE Param(parameters, 2, height) \in Int
    BY Params
  <2>4. t.height \in Int
    BY <2>1
  <2>5. Param(parameters, 2, t.height) \in Int
    BY ONLY <2>3, <2>4
  <2> QED
    BY <2>1, <2>2, <2>5
<1> HIDE DEF top, bottom
<1>2. CASE top < 0 \/ bottom >= t.height \/ top >= bottom
  BY <1>2, MovesNot DEF SetScrollRegion, top, bottom
<1>3. CASE ~(top < 0 \/ bottom >= t.height \/ top >= bottom)
  <2>1. Like(t, u)
    <3>1. /\ DOMAIN u = Fields /\ u.scrollTop = top /\ u.scrollBottom = bottom
          /\ u.profile = t.profile /\ u.width = t.width /\ u.height = t.height
          /\ u.active = t.active /\ u.revision = t.revision /\ u.buffer = t.buffer
      BY DEF Sound, Fields
    <3> HIDE DEF u
    <3> QED
      BY <1>1, <1>3, <3>1, WholeKept DEF Like, Sound, Fits, Covers
  <2> HIDE DEF u
  <2>2. 0 \in 0..(u.height - 1) /\ 0 \in 0..(u.width - 1)
    BY <1>1, <2>1 DEF Like
  <2>3. Like(t, MoveTo(u, 0, 0))
    <3>1. Works(u, MoveTo(u, 0, 0)) /\ Mends(u, MoveTo(u, 0, 0))
      BY <2>1, <2>2, CursorSet, WorksMend DEF Like
    <3> QED
      BY <2>1, <3>1 DEF Like, Works, Alters, Kept, Mends
  <2>4. Moves(t, CursorChanged(MoveTo(u, 0, 0)))
    BY <2>3, CursorTold
  <2> QED
    BY <1>3, <2>4 DEF SetScrollRegion, top, bottom, u
<1> QED
  BY <1>2, <1>3

(* Buffers and their choice are changed (ansi/terminal.go:914-964).        *)
Reframed(t, u) ==
  /\ DOMAIN u = Fields
  /\ u.profile = t.profile /\ u.width = t.width /\ u.height = t.height
  /\ u.revision = t.revision
  /\ u.scrollTop = t.scrollTop /\ u.scrollBottom = t.scrollBottom
(* Setting both buffers to ones that fit leaves the emulator sound.        *)
LEMMA BuffersSet ==
  ASSUME NEW t, Sound(t), NEW u, Reframed(t, u),
         DOMAIN u.buffer = {"main", "alternate"}, Fits(t, u.buffer.main),
         u.buffer.main.cells = t.buffer.main.cells,
         \/ u.buffer.alternate = t.buffer.alternate
         \/ /\ Fits(t, u.buffer.alternate)
            /\ \/ u.buffer.alternate.cells = t.buffer.alternate.cells
               \/ Paired(u.buffer.alternate.cells, t.width, t.height)
         \/ u.buffer.alternate.cells = <<>> /\ DOMAIN u.buffer.alternate = BufferParts,
         u.active \in {"main", "alternate"},
         u.active = "alternate" => u.buffer.alternate.cells # <<>>
  PROVE  Like(t, u) /\ Onward(t, u)
<1>1. \A c : Fits(t, c) => Fits(u, c) /\ DOMAIN c = BufferParts
  BY DEF Reframed, Fits, Covers
<1>2. Fits(u, u.buffer.main)
  BY <1>1
<1>3. DOMAIN u.buffer.alternate = BufferParts
  BY <1>1 DEF Sound
<1>4. u.buffer.alternate.cells # <<>> => Fits(u, u.buffer.alternate)
  BY <1>1 DEF Sound
<1>5. Sound(u)
  BY <1>2, <1>3, <1>4 DEF Reframed, Sound
<1>6. Mends(t, u)
  BY DEF Mends, Whole, Reframed
<1> QED
  BY <1>5, <1>6 DEF Reframed, Like, Onward, Sound, Survives

(* Showing or hiding the cursor leaves it where it is.                     *)
LEMMA VisibleSet ==
  ASSUME NEW t, NEW c \in Cursors(t.width, t.height), NEW visible \in BOOLEAN
  PROVE  [c EXCEPT !.visible = visible] \in Cursors(t.width, t.height)
BY DEF Cursors

(* The alternate screen is entered and left (ansi/terminal.go:914-955).    *)
LEMMA AlternateEntered ==
  ASSUME NEW t, Sound(t), NEW mode
  PROVE  Onward(t, EnterAlternate(t, mode # 47))
<1> DEFINE clear == mode # 47
           fresh(visible) ==
             NewBuffer(t.width, t.height, t.style, [Home EXCEPT !.visible = visible])
           old == t.buffer.alternate
           cleared == [fresh(TRUE) EXCEPT !.saved = old.saved]
           u == [t EXCEPT !.buffer.alternate = cleared]
           b == IF old.cells = <<>> \/ clear THEN fresh(t.buffer.main.cursor.visible) ELSE old
           v == [t EXCEPT !.active = "alternate", !.buffer.alternate = b]
<1>0. t.width \in Nat \ {0} /\ t.height \in Nat \ {0} /\ Fits(t, t.buffer.main)
  BY DEF Sound
<1>1. \A visible \in BOOLEAN :
        Fits(t, fresh(visible)) /\ Paired(fresh(visible).cells, t.width, t.height)
  BY <1>0, Homes, NewFits
<1>v. t.buffer.main.cursor.visible \in BOOLEAN
  BY <1>0 DEF Fits, Cursors
<1> HIDE DEF fresh
<1>2. CASE t.active = "alternate" /\ ~clear
  BY <1>2, MovesNot DEF EnterAlternate, Moves
<1>3. CASE t.active = "alternate" /\ clear
  <2>1. Fits(t, cleared) /\ Paired(cleared.cells, t.width, t.height)
    <3>1. /\ Fits(t, fresh(TRUE)) /\ Paired(fresh(TRUE).cells, t.width, t.height)
          /\ old.saved \in Cursors(t.width, t.height)
      BY <1>1, <1>3 DEF Sound, Fits
    <3> QED
      BY <3>1 DEF Fits, BufferParts
  <2>2. cleared.cells # <<>>
    BY <1>0, <2>1, HasCells DEF Fits
  <2> HIDE DEF cleared
  <2>3. /\ Reframed(t, u) /\ DOMAIN u.buffer = {"main", "alternate"}
        /\ u.buffer.main = t.buffer.main /\ u.buffer.alternate = cleared
        /\ u.active = t.active
    BY DEF Sound, Reframed, Fields
  <2> HIDE DEF u
  <2>4. Onward(t, u)
    BY <1>0, <1>3, <2>1, <2>2, <2>3, BuffersSet
  <2> QED
    BY <1>3, <2>4 DEF EnterAlternate, u, cleared, fresh
<1>4. CASE t.active # "alternate"
  <2>1. b = old \/ (Fits(t, b) /\ Paired(b.cells, t.width, t.height))
    BY <1>1, <1>v
  <2>2. b.cells # <<>>
    BY <1>0, <1>1, <1>v, HasCells DEF Fits
  <2> HIDE DEF b
  <2>3. /\ Reframed(t, v) /\ DOMAIN v.buffer = {"main", "alternate"}
        /\ v.buffer.main = t.buffer.main /\ v.buffer.alternate = b
        /\ v.active = "alternate"
    BY DEF Sound, Reframed, Fields
  <2> HIDE DEF v
  <2>4. Like(t, v)
    BY <1>0, <2>1, <2>2, <2>3, BuffersSet
  <2>5. Onward(t, CursorChanged(v))
    BY <2>4, CursorTold DEF Moves
  <2> QED
    BY <1>4, <2>5 DEF EnterAlternate, v, b, fresh
<1> QED
  BY <1>2, <1>3, <1>4

(* Back to the main buffer, with a revision if it was not in use           *)
(* (ansi/terminal.go:957-964).                                             *)
LEMMA AlternateLeft ==
  ASSUME NEW t, Sound(t)
  PROVE  Moves(t, ExitAlternate(t)) /\ ExitAlternate(t).buffer = t.buffer
<1> DEFINE u == [t EXCEPT !.active = "main"]
<1>1. /\ Reframed(t, u) /\ u.buffer = t.buffer /\ u.active = "main"
      /\ DOMAIN t.buffer = {"main", "alternate"} /\ Fits(t, t.buffer.main)
  BY DEF Sound, Reframed, Fields
<1> HIDE DEF u
<1>2. Like(t, u)
  BY <1>1, BuffersSet
<1>3. Moves(t, CursorChanged(u))
  BY <1>2, CursorTold
<1>4. CursorChanged(u).buffer = u.buffer
  <2>1. DOMAIN u = Fields
    BY <1>1 DEF Reframed
  <2> QED
    BY <2>1 DEF CursorChanged, Changed, NoWrap, Fields
<1> QED
  BY <1>1, <1>3, <1>4, MovesNot DEF ExitAlternate, u

(* Two sound steps are one.                                                *)
LEMMA OnwardOn ==
  ASSUME NEW t, NEW u, NEW v, Onward(t, u), Onward(u, v), Sound(t)
  PROVE  Onward(t, v)
BY DEF Onward, Mends, Sound, Survives

(* Mode 1049 saves the cursor of the main buffer                           *)
(* (ansi/terminal.go:929-930).                                             *)
LEMMA MainSaves == ASSUME NEW t, Sound(t) PROVE Onward(t, MainSaved(t))
<1> DEFINE u == MainSaved(t)
<1>1. /\ Reframed(t, u) /\ DOMAIN u.buffer = {"main", "alternate"}
      /\ u.buffer.main = [t.buffer.main EXCEPT !.saved = t.buffer.main.cursor]
      /\ u.buffer.alternate = t.buffer.alternate /\ u.active = t.active
  BY DEF Sound, Reframed, Fields, MainSaved
<1>2. Fits(t, u.buffer.main) /\ u.buffer.main.cells = t.buffer.main.cells
  BY <1>1 DEF Fits, BufferParts, Sound
<1> HIDE DEF u
<1>3. Onward(t, u)
  BY <1>1, <1>2, BuffersSet DEF Sound
<1> QED
  BY <1>3 DEF u

(* Mode 1049 restores the cursor of the main buffer                        *)
(* (ansi/terminal.go:932-936).                                             *)
LEMMA MainRestores == ASSUME NEW t, Sound(t) PROVE Onward(t, MainRestored(t))
<1> DEFINE u == MainRestored(t)
           main == t.buffer.main
           c == [main.saved EXCEPT !.visible = main.cursor.visible]
<1>1. /\ Reframed(t, u) /\ DOMAIN u.buffer = {"main", "alternate"}
      /\ u.buffer.main = [main EXCEPT !.cursor = c]
      /\ u.buffer.alternate = t.buffer.alternate /\ u.active = t.active
  BY DEF Sound, Reframed, Fields, MainRestored
<1>2. c \in Cursors(t.width, t.height)
  <2>1. main.saved \in Cursors(t.width, t.height) /\ main.cursor.visible \in BOOLEAN
    BY DEF Fits, Cursors, Sound
  <2> QED
    BY <2>1, VisibleSet
<1> HIDE DEF c
<1>3. Fits(t, u.buffer.main) /\ u.buffer.main.cells = t.buffer.main.cells
  BY <1>1, <1>2 DEF Fits, BufferParts, Sound
<1> HIDE DEF u
<1>4. Onward(t, u)
  BY <1>1, <1>3, BuffersSet DEF Sound
<1> QED
  BY <1>4 DEF u

(* The modes of an xterm's buffers (ansi/terminal.go:914-955).             *)
LEMMA XTermModes ==
  ASSUME NEW t, Sound(t), NEW mode, NEW enabled
  PROVE  Onward(t, SetXTermPrivateMode(t, mode, enabled))
<1> DEFINE saved == IF mode = 1049 THEN MainSaved(t) ELSE t
<1>1. Onward(t, EnterAlternate(saved, mode # 47))
  <2>1. Onward(t, saved)
    BY MainSaves, MovesNot DEF Moves
  <2> HIDE DEF saved
  <2>2. Sound(saved)
    BY <2>1 DEF Onward, Survives
  <2>3. Onward(saved, EnterAlternate(saved, mode # 47))
    BY <2>2, AlternateEntered
  <2> QED
    BY <2>1, <2>3, OnwardOn
<1>2. Onward(t, ExitAlternate(t))
  BY AlternateLeft DEF Moves
<1>3. Onward(t, MainRestored(ExitAlternate(t)))
  <2>1. Sound(ExitAlternate(t))
    BY <1>2 DEF Onward, Survives
  <2> QED
    BY <1>2, <2>1, MainRestores, OnwardOn
<1> QED
  BY <1>1, <1>2, <1>3 DEF SetXTermPrivateMode

(* Mode 25 (ansi/terminal.go:887-892).                                     *)
LEMMA CursorShown ==
  ASSUME NEW t, Sound(t), NEW enabled \in BOOLEAN
  PROVE  Like(t, ShowCursor(t, enabled))
<1> DEFINE m == t.buffer.main
           a == t.buffer.alternate
           u == ShowCursor(t, enabled)
<1>1. /\ Reframed(t, u) /\ DOMAIN u.buffer = {"main", "alternate"} /\ u.active = t.active
      /\ u.buffer.main = [m EXCEPT !.cursor = [m.cursor EXCEPT !.visible = enabled]]
      /\ u.buffer.alternate = [a EXCEPT !.cursor = [a.cursor EXCEPT !.visible =
                                  IF a.cells = <<>> THEN a.cursor.visible ELSE enabled]]
  BY DEF Sound, Reframed, Fields, ShowCursor
<1>0. t.active \in {"main", "alternate"} /\ (t.active = "alternate" => a.cells # <<>>)
  BY DEF Sound
<1> HIDE DEF u
<1>2. Fits(t, u.buffer.main)
  <2>1. Fits(t, m)
    BY DEF Sound
  <2> HIDE DEF m
  <2> QED
    BY <1>1, <2>1, VisibleSet DEF Fits, BufferParts
<1>6. u.buffer.main.cells = t.buffer.main.cells
  BY <1>1 DEF Sound, Fits, BufferParts
<1>3. /\ DOMAIN u.buffer.alternate = BufferParts /\ u.buffer.alternate.cells = a.cells
  BY <1>1 DEF Sound, BufferParts
<1>4. ASSUME a.cells = <<>> PROVE Like(t, u)
  <2>1. u.buffer.alternate.cells = <<>> /\ u.active # "alternate"
    BY <1>0, <1>1, <1>3, <1>4
  <2> QED
    BY <1>0, <1>1, <1>2, <1>3, <1>6, <2>1, BuffersSet
<1>5. ASSUME a.cells # <<>> PROVE Like(t, u)
  <2>1. Fits(t, a)
    BY <1>5 DEF Sound
  <2>2. u.buffer.alternate = [a EXCEPT !.cursor = [a.cursor EXCEPT !.visible = enabled]]
    BY <1>1, <1>5
  <2> HIDE DEF a
  <2>3. Fits(t, u.buffer.alternate)
    BY <2>1, <2>2, VisibleSet DEF Fits, BufferParts
  <2>6. u.buffer.alternate.cells = t.buffer.alternate.cells
    BY <1>3 DEF a
  <2>4. u.buffer.alternate.cells # <<>> /\ u.active \in {"main", "alternate"}
    BY <1>0, <1>1, <1>3, <1>5 DEF a
  <2>5. Reframed(t, u) /\ DOMAIN u.buffer = {"main", "alternate"}
    BY <1>1
  <2> QED
    BY <1>2, <1>6, <2>3, <2>4, <2>5, <2>6, BuffersSet
<1> QED
  BY <1>4, <1>5 DEF u

(* One private mode: only the switches of an xterm's buffers may be untold *)
(* (ansi/terminal.go:875-912).                                             *)
LEMMA PrivateModes ==
  ASSUME NEW t, Sound(t), NEW mode, NEW enabled \in BOOLEAN
  PROVE  /\ Onward(t, SetPrivateMode(t, mode, enabled))
         /\ ~XTerm(t) => Moves(t, SetPrivateMode(t, mode, enabled))
<1>1. Moves(t, [t EXCEPT !.applicationCursor = enabled])
  BY HiddenSet DEF Hidden
<1>2. Moves(t, NoWrap([t EXCEPT !.autoWrap = enabled]))
  <2> DEFINE u == [t EXCEPT !.autoWrap = enabled]
  <2>1. Moves(t, u)
    BY HiddenSet DEF Hidden
  <2> HIDE DEF u
  <2>2. Moves(t, NoWrap(u))
    BY <2>1, WrapStops, MovesOn DEF Moves, Onward, Survives
  <2> QED
    BY <2>2 DEF u
<1>3. Moves(t, Changed(ShowCursor(t, enabled)))
  BY CursorShown, Redrawn
<1>4. mode \in {47, 1047, 1049} => Onward(t, SetXTermPrivateMode(t, mode, enabled))
  BY XTermModes
<1>5. Moves(t, t) /\ Moves(t, Unsupported(t))
  BY MovesNot, Reports
<1> DEFINE u == SetPrivateMode(t, mode, enabled)
<1>6. \/ Moves(t, u)
      \/ XTerm(t) /\ mode \in {47, 1047, 1049} /\ u = SetXTermPrivateMode(t, mode, enabled)
  BY <1>1, <1>2, <1>3, <1>5 DEF SetPrivateMode
<1> QED
  BY <1>4, <1>6 DEF Moves

(* One mode that is not private (ansi/terminal.go:862-873).                *)
LEMMA OtherModes ==
  ASSUME NEW t, Sound(t), NEW mode, NEW enabled
  PROVE  Moves(t, SetMode(t, mode, enabled))
<1>1. Moves(t, [t EXCEPT !.insertMode = enabled])
  BY HiddenSet DEF Hidden
<1> QED
  BY <1>1, Reports DEF SetMode

(* Modes are set one after the other (ansi/terminal.go:862-912).           *)
LEMMA ModesSet ==
  ASSUME NEW t, Sound(t), NEW command, NEW parameters \in Seq(Parameter)
  PROVE  /\ Onward(t, SetModes(t, command, parameters))
         /\ ~XTerm(t) \/ command.prefix # "?" => Moves(t, SetModes(t, command, parameters))
<1> DEFINE N == Len(parameters)
           enabled == command.final = "h"
           Next1(u, n) == IF ~parameters[n].present THEN u
                       ELSE IF command.prefix = "?"
                         THEN SetPrivateMode(u, parameters[n].value, enabled)
                       ELSE SetMode(u, parameters[n].value, enabled)
           Body(f, n) == IF n = 0 THEN t ELSE Next1(f[n - 1], n)
           after == CHOOSE f : f = [n \in 0..N |-> Body(f, n)]
           Reaches(u) == Onward(t, u) /\ (~XTerm(t) \/ command.prefix # "?" => Moves(t, u))
<1>0. N \in Nat
  OBVIOUS
<1>d. SetModes(t, command, parameters) = after[N]
  BY DEF SetModes
<1>n. ASSUME NEW u, Reaches(u), NEW n PROVE Reaches(Next1(u, n))
  <2>1. Sound(u) /\ (XTerm(u) <=> XTerm(t))
    BY <1>n DEF Onward, XTerm, Survives
  <2>2. Moves(u, SetMode(u, parameters[n].value, enabled))
    BY <2>1, OtherModes
  <2>e. enabled \in BOOLEAN
    OBVIOUS
  <2> HIDE DEF enabled
  <2>3. /\ Onward(u, SetPrivateMode(u, parameters[n].value, enabled))
        /\ ~XTerm(u) => Moves(u, SetPrivateMode(u, parameters[n].value, enabled))
    BY <2>1, <2>e, PrivateModes
  <2>4. /\ Onward(u, Next1(u, n)) /\ (~XTerm(t) \/ command.prefix # "?" => Moves(u, Next1(u, n)))
    BY <2>1, <2>2, <2>3, MovesNot DEF Moves
  <2> HIDE DEF Next1
  <2> QED
    BY <1>n, <2>4, OnwardOn, MovesOn
<1>b. \A f : Body(f, 0) = t
  OBVIOUS
<1>s. \A f, g, n : n # 0 /\ f[n - 1] = g[n - 1] => Body(f, n) = Body(g, n)
  OBVIOUS
<1>t. \A f, n : n # 0 => Body(f, n) = Next1(f[n - 1], n)
  OBVIOUS
<1> HIDE DEF Next1
<1> HIDE DEF Body
<1>e. \E f : f = [n \in 0..N |-> Body(f, n)]
  <2> DEFINE T == {m \in Nat : \E f : f = [n \in 0..m |-> Body(f, n)]}
  <2>1. 0 \in T
    <3>1. \A f : [n \in 0..0 |-> Body(f, n)] = [n \in 0..0 |-> t]
      BY <1>b
    <3>2. [n \in 0..0 |-> t] = [n \in 0..0 |-> Body([m \in 0..0 |-> t], n)]
      BY <3>1
    <3> QED
      BY <3>2
  <2>2. ASSUME NEW m \in Nat, m \in T PROVE m + 1 \in T
    <3>1. PICK f : f = [n \in 0..m |-> Body(f, n)]
      BY <2>2
    <3> DEFINE g == [n \in 0..(m + 1) |-> Body(f, n)]
    <3>2. \A n \in 0..m : g[n] = f[n]
      BY <3>1
    <3>3. ASSUME NEW n \in 0..(m + 1) PROVE Body(g, n) = Body(f, n)
      <4>1. CASE n = 0
        BY <1>b, <4>1
      <4>2. CASE n # 0
        <5>1. n - 1 \in 0..m
          BY <4>2
        <5>2. g[n - 1] = f[n - 1]
          BY <3>2, <5>1
        <5> HIDE DEF g
        <5> QED
          BY <1>s, <4>2, <5>2
      <4> QED
        BY <4>1, <4>2
    <3>4. g = [n \in 0..(m + 1) |-> Body(g, n)]
      BY <3>3
    <3> HIDE DEF g
    <3> QED
      BY <3>4
  <2>3. Nat \subseteq T
    <3> HIDE DEF T
    <3> QED
      BY <2>1, <2>2, SetInduction
  <2> QED
    BY <2>3
<1>a. after = [n \in 0..N |-> Body(after, n)]
  BY <1>e
<1> HIDE DEF after, N
<1> DEFINE R == {m \in Nat : m <= N => Reaches(after[m])}
<1>1. 0 \in R
  BY <1>0, <1>a, <1>b, MovesNot DEF Moves
<1>2. ASSUME NEW m \in Nat, m \in R PROVE m + 1 \in R
  <2> SUFFICES ASSUME m + 1 <= N PROVE Reaches(after[m + 1])
    OBVIOUS
  <2>1. Reaches(after[m])
    BY <1>0, <1>2
  <2>2. after[m + 1] = Next1(after[m], m + 1)
    <3>1. m + 1 \in 0..N /\ m + 1 # 0 /\ m + 1 - 1 = m
      BY <1>0
    <3>2. after[m + 1] = Body(after, m + 1)
      BY <1>a, <3>1
    <3>3. Body(after, m + 1) = Next1(after[m + 1 - 1], m + 1)
      BY <1>t, <3>1
    <3> QED
      BY <3>1, <3>2, <3>3
  <2> HIDE DEF Reaches
  <2> QED
    BY <1>n, <2>1, <2>2
<1>3. N \in R
  <2>1. Nat \subseteq R
    <3> HIDE DEF R
    <3> QED
      BY <1>1, <1>2, SetInduction
  <2> QED
    BY <1>0, <2>1
<1> QED
  BY <1>0, <1>3, <1>d

(* Renditions (ansi/terminal.go:966-1054).                                 *)
LEMMA StyleSet == ASSUME NEW t, Sound(t) PROVE \A style : Moves(t, Styled(t, style))
<1>1. \A style : Moves(t, [t EXCEPT !.style = style])
  BY HiddenSet DEF Hidden
<1> QED
  BY <1>1 DEF Styled

(* One attribute of the rendition shows nothing until something is drawn.  *)
LEMMA AttributeSet == ASSUME NEW t, Sound(t), NEW value PROVE Moves(t, SetAttribute(t, value))
BY StyleSet, Reports DEF SetAttribute

(* An extended color shows nothing until something is drawn.               *)
LEMMA ColorSet ==
  ASSUME NEW t, Sound(t), NEW parameters, NEW n, NEW ground
  PROVE  Moves(t, SetExtendedColor(t, parameters, n, ground).terminal)
BY StyleSet, Reports, MovesNot DEF SetExtendedColor

(* One turn of the loop over the parameters of SGR                         *)
(* (ansi/terminal.go:966-1020).                                            *)
LEMMA Turns ==
  ASSUME NEW s, Sound(s.terminal), NEW parameters, NEW n
  PROVE  Moves(s.terminal, Turn(s, parameters, n).terminal)
BY AttributeSet, ColorSet, MovesNot DEF Turn

(* SGR, by induction over its parameters.                                  *)
LEMMA RenditionSet ==
  ASSUME NEW t, Sound(t), NEW parameters \in Seq(Parameter)
  PROVE  Moves(t, SetRendition(t, parameters))
<1> DEFINE N == Len(parameters)
           base == [terminal |-> t, index |-> 0]
           Body(f, n) == IF n = 0 THEN base ELSE Turn(f[n - 1], parameters, n)
           after == CHOOSE f : f = [n \in 0..N |-> Body(f, n)]
<1>0. N \in Nat
  OBVIOUS
<1>d. SetRendition(t, parameters) =
        IF parameters = <<>> THEN SetAttribute(t, 0) ELSE after[N].terminal
  BY DEF SetRendition
<1>b. \A f : Body(f, 0) = base
  OBVIOUS
<1>s. \A f, g, n : n # 0 /\ f[n - 1] = g[n - 1] => Body(f, n) = Body(g, n)
  OBVIOUS
<1>t. \A f, n : n # 0 => Body(f, n) = Turn(f[n - 1], parameters, n)
  OBVIOUS
<1>i. base.terminal = t
  OBVIOUS
<1> HIDE DEF base
<1> HIDE DEF Body
<1>e. \E f : f = [n \in 0..N |-> Body(f, n)]
  <2> DEFINE T == {m \in Nat : \E f : f = [n \in 0..m |-> Body(f, n)]}
  <2>1. 0 \in T
    <3>1. \A f : [n \in 0..0 |-> Body(f, n)] = [n \in 0..0 |-> base]
      BY <1>b
    <3>2. [n \in 0..0 |-> base] = [n \in 0..0 |-> Body([m \in 0..0 |-> base], n)]
      BY <3>1
    <3> QED
      BY <3>2
  <2>2. ASSUME NEW m \in Nat, m \in T PROVE m + 1 \in T
    <3>1. PICK f : f = [n \in 0..m |-> Body(f, n)]
      BY <2>2
    <3> DEFINE g == [n \in 0..(m + 1) |-> Body(f, n)]
    <3>2. \A n \in 0..m : g[n] = f[n]
      BY <3>1
    <3>3. ASSUME NEW n \in 0..(m + 1) PROVE Body(g, n) = Body(f, n)
      <4>1. CASE n = 0
        BY <1>b, <4>1
      <4>2. CASE n # 0
        <5>1. n - 1 \in 0..m
          BY <4>2
        <5>2. g[n - 1] = f[n - 1]
          BY <3>2, <5>1
        <5> HIDE DEF g
        <5> QED
          BY <1>s, <4>2, <5>2
      <4> QED
        BY <4>1, <4>2
    <3>4. g = [n \in 0..(m + 1) |-> Body(g, n)]
      BY <3>3
    <3> HIDE DEF g
    <3> QED
      BY <3>4
  <2>3. Nat \subseteq T
    <3> HIDE DEF T
    <3> QED
      BY <2>1, <2>2, SetInduction
  <2> QED
    BY <2>3
<1>a. after = [n \in 0..N |-> Body(after, n)]
  BY <1>e
<1> HIDE DEF after, N
<1> DEFINE R == {m \in Nat : m <= N => Moves(t, after[m].terminal)}
<1>1. 0 \in R
  BY <1>0, <1>a, <1>b, <1>i, MovesNot
<1>2. ASSUME NEW m \in Nat, m \in R PROVE m + 1 \in R
  <2> SUFFICES ASSUME m + 1 <= N PROVE Moves(t, after[m + 1].terminal)
    OBVIOUS
  <2>1. Moves(t, after[m].terminal) /\ Sound(after[m].terminal)
    BY <1>0, <1>2 DEF Moves, Onward, Survives
  <2>2. after[m + 1] = Turn(after[m], parameters, m + 1)
    <3>1. m + 1 \in 0..N /\ m + 1 # 0 /\ m + 1 - 1 = m
      BY <1>0
    <3>2. after[m + 1] = Body(after, m + 1)
      BY <1>a, <3>1
    <3>3. Body(after, m + 1) = Turn(after[m + 1 - 1], parameters, m + 1)
      BY <1>t, <3>1
    <3> QED
      BY <3>1, <3>2, <3>3
  <2>3. Moves(after[m].terminal, after[m + 1].terminal)
    BY <2>1, <2>2, Turns
  <2> QED
    BY <2>1, <2>3, MovesOn
<1>3. N \in R
  <2>1. Nat \subseteq R
    <3> HIDE DEF R
    <3> QED
      BY <1>1, <1>2, SetInduction
  <2> QED
    BY <1>0, <2>1
<1> QED
  BY <1>0, <1>3, <1>d, AttributeSet

(* One control sequence (ansi/terminal.go:688-743).                        *)
Switches(f) == f.final \in {"h", "l"}
Erasing(f) == f.final \in {"J", "K", "X"}
(* Every control sequence tells of its changes, but for the modes of an    *)
(* xterm; only an erasure cuts a wide character in two.                    *)
LEMMA Sequences ==
  ASSUME NEW t, Sound(t), NEW f, NEW parameters \in Seq(Parameter)
  PROVE  /\ Survives(t, HandleCSI(t, f, parameters))
         /\ ~(XTerm(t) /\ Switches(f)) => Tells(t, HandleCSI(t, f, parameters))
         /\ ~Erasing(f) => Mends(t, HandleCSI(t, f, parameters))
<1> DEFINE c == Cursor(t)
           n == Param(parameters, 1, 1)
           k == Param(parameters, 2, 1)
           e == Param(parameters, 1, 0)
           Row(r) == Smaller(t.height - 1, Larger(0, r))
           Column(q) == Smaller(t.width - 1, Larger(0, q))
           Move(r, q) == CursorChanged(MoveTo(t, Row(r), Column(q)))
           u == HandleCSI(t, f, parameters)
<1>1. n \in Int /\ k \in Int /\ e \in Int
  <2>1. ASSUME NEW i \in Nat, NEW fallback \in Int PROVE Param(parameters, i, fallback) \in Int
    BY Params
  <2>2. n \in Int
    BY <2>1
  <2>3. k \in Int
    BY <2>1
  <2>4. e \in Int
    BY <2>1
  <2> QED
    BY <2>2, <2>3, <2>4
<1>2. c.row \in Int /\ c.column \in Int
  BY CursorIn
<1>3. ASSUME NEW r \in Int, NEW q \in Int PROVE Moves(t, Move(r, q))
  <2>1. Row(r) \in 0..(t.height - 1) /\ Column(q) \in 0..(t.width - 1)
    BY CursorIn DEF Smaller, Larger
  <2> HIDE DEF Row, Column
  <2> QED
    BY <2>1, CursorMoves
<1>5. /\ Onward(t, SetModes(t, f, parameters))
      /\ ~XTerm(t) \/ f.prefix # "?" => Moves(t, SetModes(t, f, parameters))
  BY ModesSet
<1>6. /\ Moves(t, Move(c.row - n, c.column)) /\ Moves(t, Move(c.row + n, c.column))
      /\ Moves(t, Move(c.row, c.column + n)) /\ Moves(t, Move(c.row, c.column - n))
      /\ Moves(t, Move(c.row, n - 1)) /\ Moves(t, Move(n - 1, k - 1))
  <2> HIDE DEF Move, c, n, k
  <2> QED
    BY <1>1, <1>2, <1>3
<1>7. /\ Moves(t, InsertCharacters(t, n)) /\ Moves(t, DeleteCharacters(t, n))
      /\ Moves(t, InsertLines(t, n)) /\ Moves(t, DeleteLines(t, n))
  <2> HIDE DEF n
  <2>1. Moves(t, InsertCharacters(t, n)) /\ Moves(t, DeleteCharacters(t, n))
    BY <1>1, ColumnsCounted, CharactersShift DEF InsertCharacters, DeleteCharacters
  <2>2. Moves(t, ShiftLines(t, n, TRUE)) /\ Moves(t, ShiftLines(t, n, FALSE))
    BY <1>1, LinesShift
  <2> QED
    BY <2>1, <2>2 DEF InsertLines, DeleteLines
<1>8. /\ \A v \in {EraseCharacters(t, n), EraseLine(t, e), EraseDisplay(t, e)} :
           Survives(t, v) /\ Tells(t, v)
  <2> HIDE DEF n, e
  <2> QED
    BY Erased
<1>9. /\ Moves(t, SetRendition(t, parameters)) /\ Moves(t, SetScrollRegion(t, parameters))
      /\ Moves(t, Unsupported(t))
  BY RenditionSet, MarginsSet, Reports
<1>10. CASE f.prefix = "?" /\ f.intermediate = "" /\ Switches(f)
  <2>1. u = SetModes(t, f, parameters)
    BY <1>10 DEF HandleCSI, Switches
  <2> QED
    BY <1>5, <1>10, <2>1 DEF Moves, Onward, Survives
<1>11. CASE /\ ~(f.prefix = "?" /\ f.intermediate = "" /\ Switches(f))
            /\ f.prefix # "" \/ f.intermediate # ""
  <2>1. u = Unsupported(t)
    BY <1>11 DEF HandleCSI, Switches
  <2> QED
    BY <1>9, <2>1 DEF Moves, Onward, Survives
<1>12. CASE f.prefix = "" /\ f.intermediate = ""
  <2> HIDE DEF Move, n, k, e, c
  <2>1. \/ u = SetModes(t, f, parameters)
        \/ Moves(t, u)
        \/ Erasing(f) /\ u \in {EraseCharacters(t, n), EraseLine(t, e), EraseDisplay(t, e)}
    BY <1>6, <1>7, <1>9, <1>12 DEF HandleCSI, Erasing, Move, n, k, e, c
  <2> QED
    BY <1>5, <1>8, <1>12, <2>1 DEF Moves, Onward, Survives
<1> QED
  BY <1>10, <1>11, <1>12

-----------------------------------------------------------------------------
(* One control function (ansi/terminal.go:66-102).                         *)
LEMMA Applies ==
  ASSUME NEW t, Sound(t), NEW f \in ControlFunction
  PROVE  /\ Survives(t, Apply(t, f))
         /\ ~(XTerm(t) /\ CSI(f, {"h", "l"})) => Tells(t, Apply(t, f))
         /\ ~CSI(f, {"J", "K", "X"}) => Mends(t, Apply(t, f))
<1>1. f.kind = "csi" => f.parameters \in Seq(Parameter)
  BY DEF ControlFunction
<1>2. f.kind \in {"print", "execute", "escape", "osc", "csi", "string"}
  BY DEF ControlFunction
<1>3. CASE f.kind = "csi"
  <2>1. Apply(t, f) = HandleCSI(t, f, f.parameters)
    BY <1>3 DEF Apply
  <2> QED
    BY <1>1, <1>3, <2>1, Sequences DEF CSI, Switches, Erasing
<1>4. CASE f.kind # "csi"
  <2>1. Moves(t, Apply(t, f))
    BY <1>2, <1>4, Prints, Executes, Escapes, Commands, Reports DEF Apply
  <2> QED
    BY <2>1 DEF Moves, Onward, Survives
<1> QED
  BY <1>3, <1>4

(* A write (ansi/terminal.go:306-319): the revision is advanced once.      *)
LEMMA WriteApplied ==
  ASSUME NEW t, Sound(t), NEW data \in Seq(ControlFunction)
  PROVE  /\ Survives(t, Applied(t, data)) /\ Applied(t, data).revision <= t.revision + 1
         /\ ~(XTerm(t) /\ Carries(data, {"h", "l"})) => Tells(t, Applied(t, data))
         /\ ~Carries(data, {"J", "K", "X"}) => Mends(t, Applied(t, data))
<1> DEFINE N == Len(data)
           Body(f, n) == IF n = 0 THEN t ELSE Apply(f[n - 1], data[n])
           after == CHOOSE f : f = [n \in 0..N |-> Body(f, n)]
           Reaches(u) == /\ Survives(t, u)
                         /\ ~(XTerm(t) /\ Carries(data, {"h", "l"})) => Tells(t, u)
                         /\ ~Carries(data, {"J", "K", "X"}) => Mends(t, u)
           last == after[N]
           revision == IF last.revision = t.revision THEN last.revision ELSE t.revision + 1
           u == [last EXCEPT !.revision = revision]
<1>0. N \in Nat
  OBVIOUS
<1>d. Applied(t, data) = u
  BY DEF Applied
<1>n. ASSUME NEW v, Reaches(v), NEW n \in 1..N PROVE Reaches(Apply(v, data[n]))
  <2>1. Sound(v) /\ (XTerm(v) <=> XTerm(t)) /\ data[n] \in ControlFunction
    BY <1>n DEF Survives, XTerm
  <2>2. /\ ~(XTerm(t) /\ Carries(data, {"h", "l"})) => ~(XTerm(v) /\ CSI(data[n], {"h", "l"}))
        /\ ~Carries(data, {"J", "K", "X"}) => ~CSI(data[n], {"J", "K", "X"})
    BY <2>1 DEF Carries
  <2>3. /\ Survives(v, Apply(v, data[n]))
        /\ ~(XTerm(v) /\ CSI(data[n], {"h", "l"})) => Tells(v, Apply(v, data[n]))
        /\ ~CSI(data[n], {"J", "K", "X"}) => Mends(v, Apply(v, data[n]))
    BY <2>1, Applies
  <2> QED
    BY <1>n, <2>2, <2>3, TellsOn DEF Mends
<1>b. \A f : Body(f, 0) = t
  OBVIOUS
<1>s. \A f, g, n : n # 0 /\ f[n - 1] = g[n - 1] => Body(f, n) = Body(g, n)
  OBVIOUS
<1>t. \A f, n : n # 0 => Body(f, n) = Apply(f[n - 1], data[n])
  OBVIOUS
<1> HIDE DEF Body
<1>e. \E f : f = [n \in 0..N |-> Body(f, n)]
  <2> DEFINE T == {m \in Nat : \E f : f = [n \in 0..m |-> Body(f, n)]}
  <2>1. 0 \in T
    <3>1. \A f : [n \in 0..0 |-> Body(f, n)] = [n \in 0..0 |-> t]
      BY <1>b
    <3>2. [n \in 0..0 |-> t] = [n \in 0..0 |-> Body([m \in 0..0 |-> t], n)]
      BY <3>1
    <3> QED
      BY <3>2
  <2>2. ASSUME NEW m \in Nat, m \in T PROVE m + 1 \in T
    <3>1. PICK f : f = [n \in 0..m |-> Body(f, n)]
      BY <2>2
    <3> DEFINE g == [n \in 0..(m + 1) |-> Body(f, n)]
    <3>2. \A n \in 0..m : g[n] = f[n]
      BY <3>1
    <3>3. ASSUME NEW n \in 0..(m + 1) PROVE Body(g, n) = Body(f, n)
      <4>1. CASE n = 0
        BY <1>b, <4>1
      <4>2. CASE n # 0
        <5>1. n - 1 \in 0..m
          BY <4>2
        <5>2. g[n - 1] = f[n - 1]
          BY <3>2, <5>1
        <5> HIDE DEF g
        <5> QED
          BY <1>s, <4>2, <5>2
      <4> QED
        BY <4>1, <4>2
    <3>4. g = [n \in 0..(m + 1) |-> Body(g, n)]
      BY <3>3
    <3> HIDE DEF g
    <3> QED
      BY <3>4
  <2>3. Nat \subseteq T
    <3> HIDE DEF T
    <3> QED
      BY <2>1, <2>2, SetInduction
  <2> QED
    BY <2>3
<1>a. after = [n \in 0..N |-> Body(after, n)]
  BY <1>e
<1> HIDE DEF after
<1> DEFINE R == {m \in Nat : m <= N => Reaches(after[m])}
<1>1. 0 \in R
  BY <1>0, <1>a, <1>b, MovesNot DEF Moves, Onward, Survives
<1>2. ASSUME NEW m \in Nat, m \in R PROVE m + 1 \in R
  <2> SUFFICES ASSUME m + 1 <= N PROVE Reaches(after[m + 1])
    OBVIOUS
  <2>1. Reaches(after[m])
    BY <1>0, <1>2
  <2>2. after[m + 1] = Apply(after[m], data[m + 1])
    <3>1. m + 1 \in 0..N /\ m + 1 # 0 /\ m + 1 - 1 = m
      BY <1>0
    <3>2. after[m + 1] = Body(after, m + 1)
      BY <1>a, <3>1
    <3>3. Body(after, m + 1) = Apply(after[m + 1 - 1], data[m + 1])
      BY <1>t, <3>1
    <3> QED
      BY <3>1, <3>2, <3>3
  <2>3. m + 1 \in 1..N
    BY <1>0
  <2> HIDE DEF Reaches
  <2> QED
    BY <1>n, <2>1, <2>2, <2>3
<1>3. Reaches(last)
  <2>1. Nat \subseteq R
    <3> HIDE DEF R
    <3> QED
      BY <1>1, <1>2, SetInduction
  <2> QED
    BY <1>0, <2>1
<1> HIDE DEF last
<1>4. t.revision \in Nat /\ Sound(last) /\ last.revision >= t.revision
  BY <1>3 DEF Sound, Survives
<1>5. revision \in Nat /\ revision <= t.revision + 1 /\ revision >= t.revision
      /\ (revision = t.revision => last.revision = t.revision)
  BY <1>4, SMTT(40) DEF Sound
<1> HIDE DEF revision
<1>6. /\ DOMAIN u = Fields /\ u.revision = revision
      /\ u.profile = last.profile /\ u.width = last.width /\ u.height = last.height
      /\ u.active = last.active /\ u.title = last.title /\ u.buffer = last.buffer
      /\ u.scrollTop = last.scrollTop /\ u.scrollBottom = last.scrollBottom
  BY <1>4 DEF Sound, Fields
<1> HIDE DEF u
<1>7. Sound(u)
  BY <1>4, <1>5, <1>6 DEF Sound, Fits, Covers
<1>8. Screen(u) = Screen(last)
  BY <1>6 DEF Screen, Cells, Cursor
<1>9. Survives(t, u) /\ u.revision <= t.revision + 1
  BY <1>3, <1>5, <1>6, <1>7 DEF Survives
<1>10. ~(XTerm(t) /\ Carries(data, {"h", "l"})) => Tells(t, u)
  BY <1>3, <1>5, <1>6, <1>8 DEF Tells
<1>11. ~Carries(data, {"J", "K", "X"}) => Mends(t, u)
  <2>1. Mends(last, u)
    BY <1>6, WholeKept
  <2> QED
    BY <1>3, <2>1 DEF Mends
<1> QED
  BY <1>9, <1>10, <1>11, <1>d

(* A resize (ansi/terminal.go:347-384).                                    *)
LEMMA BufferResizes ==
  ASSUME NEW t, Sound(t), NEW b, Fits(t, b), NEW u,
         u.width \in Nat \ {0}, u.height \in Nat \ {0}
  PROVE  /\ Fits(u, ResizeBuffer(t, b, u.width, u.height))
         /\ Paired(ResizeBuffer(t, b, u.width, u.height).cells, u.width, u.height)
<1> DEFINE width == u.width
           height == u.height
           copied == [p \in Positions(width, height) |->
                        IF p \in Positions(t.width, t.height) THEN b.cells[p] ELSE BlankCell(t)]
           cells == NormalizeCells(copied, width, 0..(height - 1), BlankCell(t))
           Clamped(c) == Inside(c, width, height)
           r == ResizeBuffer(t, b, width, height)
<1>1. Covers(u, copied)
  BY Blanks DEF Covers, Fits, BlankCell
<1> HIDE DEF copied
<1>2. Covers(u, cells)
  BY <1>1, Normalized, Blanks DEF BlankCell
<1>8. Paired(cells, width, height)
  <2>1. /\ width \in Nat /\ height \in Nat /\ DOMAIN copied = Positions(width, height)
        /\ BlankCell(t).width = 1
        /\ \A i \in 0..(height - 1), k \in 0..(width - 1) :
             i \in 0..(height - 1) \/ PairedAt(copied, width, i, k)
    BY <1>1, Blanks DEF Covers, BlankCell
  <2> HIDE DEF width, height
  <2> QED
    BY <2>1, NormalizedPaired
<1> HIDE DEF cells
<1>3. ASSUME NEW c \in Cursors(t.width, t.height)
      PROVE  Clamped(c) \in Cursors(width, height)
  <2>1. c.row \in Nat /\ c.column \in Nat
    BY DEF Cursors, Sound
  <2>2. Smaller(c.row, height - 1) \in 0..(height - 1)
        /\ Smaller(c.column, width - 1) \in 0..(width - 1)
    BY <2>1 DEF Smaller
  <2>3. ASSUME NEW x \in 0..(height - 1), NEW y \in 0..(width - 1)
        PROVE  [c EXCEPT !.row = x, !.column = y] \in Cursors(width, height)
    BY DEF Cursors
  <2> QED
    BY <2>2, <2>3 DEF Inside
<1>4. Clamped(b.cursor) \in Cursors(width, height) /\ Clamped(b.saved) \in Cursors(width, height)
  BY <1>3 DEF Fits
<1>5. r = [cells |-> cells, cursor |-> Clamped(b.cursor), saved |-> Clamped(b.saved)]
  BY DEF ResizeBuffer, cells, copied
<1> HIDE DEF r, Clamped
<1>6. DOMAIN r = BufferParts
  BY <1>5 DEF BufferParts
<1>7. Fits(u, r) /\ r.cells = cells
  BY <1>2, <1>4, <1>5, <1>6 DEF Fits
<1> QED
  BY <1>7, <1>8 DEF r

(* A resize to a size of its own leaves the emulator sound and every wide  *)
(* character whole, and advances the revision (ansi/terminal.go:347-384).  *)
LEMMA TerminalResizes ==
  ASSUME NEW t, Sound(t), NEW width \in Nat \ {0}, NEW height \in Nat \ {0}
  PROVE  /\ Sound(Resized(t, width, height)) /\ Whole(Resized(t, width, height))
         /\ Resized(t, width, height).revision = t.revision + 1
<1> DEFINE u == Resized(t, width, height)
           Sized(b) == IF b.cells = <<>> THEN b ELSE ResizeBuffer(t, b, width, height)
<1>1. DOMAIN t = Fields /\ DOMAIN t.buffer = {"main", "alternate"} /\ t.revision \in Nat
      /\ t.active \in {"main", "alternate"}
      /\ (t.active = "alternate" => t.buffer.alternate.cells # <<>>)
  BY DEF Sound
<1>2. /\ DOMAIN u = Fields /\ u.width = width /\ u.height = height
      /\ u.active = t.active /\ u.revision = t.revision + 1
      /\ u.scrollTop = 0 /\ u.scrollBottom = height - 1
  BY <1>1 DEF Resized, Fields
<1>3. u.buffer = [b \in {"main", "alternate"} |-> Sized(t.buffer[b])]
  BY <1>1 DEF Resized, Fields
<1> HIDE DEF u, Sized
<1>4. DOMAIN u.buffer = {"main", "alternate"}
      /\ u.buffer.main = Sized(t.buffer.main)
      /\ u.buffer.alternate = Sized(t.buffer.alternate)
  BY <1>3
<1>5. \A b : Fits(t, b) => /\ Fits(u, ResizeBuffer(t, b, width, height))
                          /\ Paired(ResizeBuffer(t, b, width, height).cells, width, height)
  BY <1>2, BufferResizes
<1>6. \A b : Fits(u, b) => b.cells # <<>> /\ DOMAIN b = BufferParts
  BY <1>2, HasCells DEF Fits
<1>7. \A b : Fits(t, b) => b.cells # <<>>
  BY HasCells DEF Fits, Sound
<1>8. Fits(u, u.buffer.main) /\ Paired(u.buffer.main.cells, width, height)
  BY <1>4, <1>5, <1>7 DEF Sound, Sized
<1>9. CASE t.buffer.alternate.cells = <<>>
  <2>1. u.buffer.alternate = t.buffer.alternate /\ DOMAIN t.buffer.alternate = BufferParts
    BY <1>4, <1>9 DEF Sized, Sound
  <2> QED
    BY <1>1, <1>2, <1>4, <1>8, <1>9, <2>1 DEF Sound, Whole, u
<1>10. CASE t.buffer.alternate.cells # <<>>
  <2>1. Fits(u, u.buffer.alternate) /\ Paired(u.buffer.alternate.cells, width, height)
    BY <1>4, <1>5, <1>10 DEF Sized, Sound
  <2> QED
    BY <1>1, <1>2, <1>4, <1>6, <1>8, <2>1 DEF Sound, Whole, u
<1> QED
  BY <1>9, <1>10

-----------------------------------------------------------------------------
(* The emulator's calls.                                                   *)

(* Whatever the size, its buffers fit it, with every cursor inside; a call *)
(* advances the revision at most once.                                     *)
TerminalIInv == Sound(terminal) /\ calls \in Nat /\ terminal.revision <= calls

(* What one call does to the emulator (ansi/terminal.go:122-138, 306-384). *)
LEMMA TerminalGoesOn ==
  ASSUME TerminalIInv, Next
  PROVE  /\ TerminalIInv'
         /\ \/ terminal'.revision # terminal.revision \/ Screen(terminal') = Screen(terminal)
            \/ XTerm(terminal) /\ \E data \in Writes : Carries(data, {"h", "l"}) /\ Write(data)
         /\ \/ Mends(terminal, terminal')
            \/ \E data \in Writes : Carries(data, {"J", "K", "X"}) /\ Write(data)
<1> DEFINE Cut == \/ Mends(terminal, terminal')
                  \/ \E data \in Writes : Carries(data, {"J", "K", "X"}) /\ Write(data)
           Told == \/ terminal'.revision # terminal.revision \/ Screen(terminal') = Screen(terminal)
                   \/ XTerm(terminal) /\ \E data \in Writes :
                                           Carries(data, {"h", "l"}) /\ Write(data)
<1>0. Sound(terminal) /\ calls \in Nat /\ terminal.revision \in Nat
      /\ terminal.revision <= calls
  BY DEF TerminalIInv, Sound
<1>m. ASSUME Moves(terminal, terminal'), terminal'.revision <= calls', calls' \in Nat
      PROVE  TerminalIInv' /\ Told /\ Cut
  BY <1>m DEF TerminalIInv, Moves, Onward, Tells, Survives
<1>1. ASSUME NEW data \in Writes, Write(data) PROVE TerminalIInv' /\ Told /\ Cut
  <2>1. data \in Seq(ControlFunction)
    BY TerminalAssumption
  <2>2. terminal' = Applied(terminal, data) /\ calls' = calls + 1
    BY <1>1 DEF Write
  <2>3. /\ Survives(terminal, terminal') /\ terminal'.revision <= terminal.revision + 1
        /\ ~(XTerm(terminal) /\ Carries(data, {"h", "l"})) => Tells(terminal, terminal')
        /\ ~Carries(data, {"J", "K", "X"}) => Mends(terminal, terminal')
    BY <1>0, <2>1, <2>2, WriteApplied
  <2>4. TerminalIInv'
    BY <1>0, <2>2, <2>3 DEF TerminalIInv, Survives, Sound
  <2>5. Told
    BY <1>1, <2>3 DEF Tells
  <2>6. Cut
    BY <1>1, <2>3
  <2> QED
    BY <2>4, <2>5, <2>6
<1>2. ASSUME NEW s \in Sizes, Resize(s) PROVE TerminalIInv' /\ Told /\ Cut
  <2>1. s.width \in Nat \ {0} /\ s.height \in Nat \ {0} /\ calls' = calls + 1
    BY <1>2, TerminalAssumption DEF Resize, Dimension
  <2>2. CASE terminal' = terminal
    BY <1>0, <1>m, <2>1, <2>2, MovesNot
  <2>3. CASE terminal' = Resized(terminal, s.width, s.height)
    <3>1. /\ Sound(terminal') /\ Whole(terminal')
          /\ terminal'.revision = terminal.revision + 1
      BY <1>0, <2>1, <2>3, TerminalResizes
    <3> QED
      BY <1>0, <2>1, <3>1 DEF TerminalIInv, Mends
  <2> QED
    BY <1>2, <2>2, <2>3 DEF Resize
<1>3. ASSUME NEW message \in Answerbacks, SetAnswerback(message) PROVE TerminalIInv' /\ Told /\ Cut
  <2>1. terminal' = [terminal EXCEPT !.answerback = message] /\ calls' = calls + 1
    BY <1>3 DEF SetAnswerback
  <2>2. Moves(terminal, terminal') /\ terminal'.revision = terminal.revision
    BY <1>0, <2>1, HiddenSet DEF Hidden, Sound, Fields
  <2> QED
    BY <1>0, <1>m, <2>1, <2>2
<1>4. ASSUME DrainEvents PROVE TerminalIInv' /\ Told /\ Cut
  <2>1. terminal' = [terminal EXCEPT !.events = <<>>] /\ calls' = calls
    BY <1>4 DEF DrainEvents
  <2>2. Moves(terminal, terminal') /\ terminal'.revision = terminal.revision
    BY <1>0, <2>1, HiddenSet DEF Hidden, Sound, Fields
  <2> QED
    BY <1>0, <1>m, <2>1, <2>2
<1> QED
  BY <1>1, <1>2, <1>3, <1>4 DEF Next

(* What CharactersWhole asks of the buffers.                               *)
LEMMA WholeIs == ASSUME NEW t, Sound(t) PROVE CharactersWhole(t) <=> Whole(t)
<1> DEFINE Alone(b) == \E p \in DOMAIN b.cells : Unpaired(b.cells, t.width, p)
<1>0. t.width \in Nat /\ t.height \in Nat /\ DOMAIN t.buffer = {"main", "alternate"}
  BY DEF Sound
<1>1. ASSUME NEW b, Fits(t, b) PROVE ~Alone(b) <=> Paired(b.cells, t.width, t.height)
  <2>1. DOMAIN b.cells = Positions(t.width, t.height)
    BY <1>1 DEF Fits, Covers
  <2> QED
    BY <1>0, <2>1, PairedIs
<1>2. ASSUME NEW b, b.cells = <<>> PROVE ~Alone(b)
  BY <1>2
<1>3. CharactersWhole(t) <=> ~Alone(t.buffer.main) /\ ~Alone(t.buffer.alternate)
  BY <1>0 DEF CharactersWhole
<1> HIDE DEF Alone
<1> QED
  BY <1>1, <1>2, <1>3 DEF Whole, Sound

(* A new emulator is where the invariant begins.                           *)
LEMMA TerminalStarts == DisplayInit => TerminalIInv
<1>1. ASSUME Init PROVE TerminalIInv
  <2>1. PICK profile \in Profiles : terminal = New(InitSize, profile)
    BY <1>1 DEF Init
  <2> QED
    BY <1>1, <2>1, NewSound, TerminalAssumption DEF Init, TerminalIInv
<1> QED
  BY <1>1 DEF DisplayInit

(* Every step of any of the parts keeps the invariant of the emulator.     *)
LEMMA TerminalKeeps ==
  ASSUME TerminalIInv, [DisplayNext]_displayVars
  PROVE  TerminalIInv'
<1>1. CASE Next
  BY <1>1, TerminalGoesOn
<1>2. CASE UNCHANGED vars
  BY <1>2 DEF vars, TerminalIInv, Sound, Fits, Covers
<1> QED
  BY <1>1, <1>2 DEF DisplayNext, displayVars

(* The emulator never indexes a cell outside of its buffers: every cursor, *)
(* saved cursor and margin stays inside of the screen, whatever the host   *)
(* sends and whatever size the caller chooses in between                   *)
(* (ansi/terminal.go:347-384, 569-586, 757-860).                           *)
THEOREM EmulatorInBounds == DisplaySpec => []TypeOK
<1>1. TerminalIInv => TypeOK
  <2> SUFFICES ASSUME TerminalIInv PROVE TypeOK
    OBVIOUS
  <2>1. \A b : Fits(terminal, b) => BufferFits(terminal, b)
    BY DEF Fits, Covers, IsCell, BufferFits, OnScreen, Cursors
  <2> QED
    BY <2>1 DEF TerminalIInv, Sound, TypeOK
<1> QED
  BY <1>1, TerminalStarts, TerminalKeeps, PTL DEF DisplaySpec

(* Whoever compares revisions sees every change of the screen, but for the *)
(* switches of an xterm's buffers (ansi/terminal.go:306-319, 410-412,      *)
(* 914-955).                                                               *)
THEOREM RevisionsTell == DisplaySpec => RevisionTellsScreen
<1>1. ASSUME TerminalIInv, [DisplayNext]_displayVars
      PROVE  [Screen(terminal) # Screen(terminal') /\ terminal'.revision = terminal.revision
                => XTerm(terminal) /\ \E data \in Writes :
                                        Carries(data, {"h", "l"}) /\ Write(data)]_vars
  <2>1. CASE Next
    BY <1>1, <2>1, TerminalGoesOn
  <2>2. CASE UNCHANGED vars
    BY <2>2
  <2> QED
    BY <1>1, <2>1, <2>2 DEF DisplayNext, displayVars
<1> QED
  BY <1>1, TerminalStarts, TerminalKeeps, PTL DEF DisplaySpec, RevisionTellsScreen

(* Only a write that carries an erasure may leave half of a wide           *)
(* character: printing, insertion, deletion, scrolling and every resize    *)
(* keep or clear both halves (ansi/terminal.go:371-384, 414-472, 492-524,  *)
(* 757-860).                                                               *)
THEOREM OnlyErasuresSplit == DisplaySpec => OnlyErasureSplits
<1>1. ASSUME TerminalIInv, [DisplayNext]_displayVars
      PROVE  [CharactersWhole(terminal) /\ ~CharactersWhole(terminal')
                => \E data \in Writes : Carries(data, {"J", "K", "X"}) /\ Write(data)]_vars
  <2>1. CASE Next
    <3>1. /\ TerminalIInv'
          /\ \/ Mends(terminal, terminal')
             \/ \E data \in Writes : Carries(data, {"J", "K", "X"}) /\ Write(data)
      BY <1>1, <2>1, TerminalGoesOn
    <3>2. Sound(terminal) /\ Sound(terminal')
      BY <1>1, <3>1 DEF TerminalIInv
    <3>3. /\ CharactersWhole(terminal) <=> Whole(terminal)
          /\ CharactersWhole(terminal') <=> Whole(terminal')
      BY <3>2, WholeIs
    <3> QED
      BY <3>1, <3>3 DEF Mends
  <2>2. CASE UNCHANGED vars
    BY <2>2
  <2> QED
    BY <1>1, <2>1, <2>2 DEF DisplayNext, displayVars
<1> QED
  BY <1>1, TerminalStarts, TerminalKeeps, PTL DEF DisplaySpec, OnlyErasureSplits
===============================================================================
