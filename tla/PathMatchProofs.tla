-------------------------- MODULE PathMatchProofs --------------------------
(***************************************************************************)
(* What cleanPaths does to texts of any length over any characters, and    *)
(* why a search for cleaned texts respects the names of directories.       *)
(***************************************************************************)
EXTENDS PathMatch, SequenceTheorems, WellFoundedInduction, TLAPS

CONSTANT Characters  \* those that texts are made of, the slash among them

Text == Seq(Characters)

(* The two steps of cleanPaths.                                            *)
Undotted(path) ==
  IF Len(path) > 1 /\ path[1] = Dot /\ path[2] = Slash THEN Tail(path) ELSE path
Rooted(text) ==
  IF text # <<>> /\ text[1] # Slash THEN <<Slash>> \o text ELSE text
Closed(text) ==
  IF text # <<>> /\ text[Len(text)] # Slash THEN Append(text, Slash) ELSE text

LEMMA CleanSteps ==
  ASSUME NEW path
  PROVE  cleanPaths(path) = Closed(Rooted(Undotted(path)))
BY DEF cleanPaths, Undotted, Rooted, Closed

LEMMA UndottedText ==
  ASSUME NEW path \in Text
  PROVE  Undotted(path) \in Text /\ (Undotted(path) = <<>> <=> path = <<>>)
<1>1. CASE Len(path) > 1 /\ path[1] = Dot /\ path[2] = Slash
  <2>1. path # <<>>
    BY <1>1 DEF Text
  <2>2. Tail(path) \in Text /\ Len(Tail(path)) = Len(path) - 1
    BY <2>1, HeadTailProperties DEF Text
  <2>3. Len(Tail(path)) > 0
    BY <1>1, <2>2 DEF Text
  <2> QED
    <3>1. Undotted(path) = Tail(path)
      BY <1>1 DEF Undotted
    <3>2. Tail(path) # <<>>
      BY <2>3, EmptySeq
    <3> QED
      BY <2>1, <2>2, <3>1, <3>2
<1>2. CASE ~(Len(path) > 1 /\ path[1] = Dot /\ path[2] = Slash)
  BY <1>2 DEF Undotted
<1> QED
  BY <1>1, <1>2

LEMMA RootedText ==
  ASSUME Slash \in Characters, NEW text \in Text
  PROVE  /\ Rooted(text) \in Text
         /\ Rooted(text) = <<>> <=> text = <<>>
         /\ text # <<>> => Rooted(text)[1] = Slash
<1>1. CASE text # <<>> /\ text[1] # Slash
  <2>1. <<Slash>> \in Text /\ Len(<<Slash>>) = 1
    BY DEF Text
  <2>2. /\ <<Slash>> \o text \in Text
        /\ Len(<<Slash>> \o text) = 1 + Len(text)
        /\ (<<Slash>> \o text)[1] = Slash
    BY <2>1, ConcatProperties DEF Text
  <2> QED
    BY <1>1, <2>2 DEF Rooted, Text
<1>2. CASE ~(text # <<>> /\ text[1] # Slash)
  BY <1>2 DEF Rooted
<1> QED
  BY <1>1, <1>2

LEMMA ClosedText ==
  ASSUME Slash \in Characters, NEW text \in Text, text # <<>>, text[1] = Slash
  PROVE  LET closed == Closed(text)
         IN /\ closed \in Text /\ Len(closed) > 0
            /\ closed[1] = Slash
            /\ closed[Len(closed)] = Slash
<1>1. Len(text) \in Nat \ {0}
  BY EmptySeq DEF Text
<1>2. CASE text[Len(text)] # Slash
  <2>1. /\ Append(text, Slash) \in Text
        /\ Len(Append(text, Slash)) = Len(text) + 1
        /\ \A i \in 1 .. Len(text) : Append(text, Slash)[i] = text[i]
        /\ Append(text, Slash)[Len(text) + 1] = Slash
    BY AppendProperties DEF Text
  <2> QED
    BY <1>1, <1>2, <2>1 DEF Closed
<1>3. CASE text[Len(text)] = Slash
  BY <1>1, <1>3 DEF Closed
<1> QED
  BY <1>2, <1>3

(* A cleaned path is empty or stands between slashes.                      *)
THEOREM CleanBetweenSlashes ==
  ASSUME Slash \in Characters, NEW path \in Text, path # <<>>
  PROVE  LET clean == cleanPaths(path)
         IN /\ clean \in Text /\ Len(clean) > 0
            /\ clean[1] = Slash
            /\ clean[Len(clean)] = Slash
<1>1. Undotted(path) \in Text /\ Undotted(path) # <<>>
  BY UndottedText
<1>2. /\ Rooted(Undotted(path)) \in Text /\ Rooted(Undotted(path)) # <<>>
      /\ Rooted(Undotted(path))[1] = Slash
  BY <1>1, RootedText
<1> QED
  BY <1>2, CleanSteps, ClosedText

(* Cleaning a cleaned path changes nothing.                                *)
THEOREM CleanTwice ==
  ASSUME Slash \in Characters, NEW path \in Text
  PROVE  cleanPaths(cleanPaths(path)) = cleanPaths(path)
<1>1. \A text \in Text :
        Len(text) > 0 /\ text[1] = Slash /\ text[Len(text)] = Slash
          => cleanPaths(text) = text
  BY PathAssumption, CleanSteps DEF Undotted, Rooted, Closed
<1>2. CASE path = <<>>
  <2>1. cleanPaths(path) = <<>>
    BY <1>2, CleanSteps, EmptySeq DEF Undotted, Rooted, Closed
  <2> QED
    BY <1>2, <2>1
<1>3. CASE path # <<>>
  BY <1>1, <1>3, CleanBetweenSlashes
<1> QED
  BY <1>2, <1>3

(* A search that finds one cleaned path in another finds it from slash to  *)
(* slash: it begins and ends with whole names.                             *)
THEOREM MatchBetweenSlashes ==
  ASSUME Slash \in Characters, NEW file \in Text, NEW path \in Text, path # <<>>,
         ContainsText(cleanPaths(file), cleanPaths(path))
  PROVE  \E first, last \in 1 .. Len(cleanPaths(file)) :
           /\ SubSeq(cleanPaths(file), first, last) = cleanPaths(path)
           /\ cleanPaths(file)[first] = Slash
           /\ cleanPaths(file)[last] = Slash
<1> DEFINE text == cleanPaths(file)
           part == cleanPaths(path)
<1>1. /\ part \in Text /\ Len(part) \in Nat \ {0}
      /\ part[1] = Slash /\ part[Len(part)] = Slash
  BY CleanBetweenSlashes DEF Text
<1>2. text \in Text
  <2>1. file = <<>> => text = <<>>
    BY CleanSteps, EmptySeq DEF Undotted, Rooted, Closed
  <2> QED
    BY <2>1, CleanBetweenSlashes DEF Text
<1>3. PICK i \in 0 .. Len(text) - Len(part) : SubSeq(text, i + 1, i + Len(part)) = part
  BY DEF ContainsText
<1> HIDE DEF text, part
<1>4. Len(text) \in Nat /\ i + 1 \in 1 .. Len(text) /\ i + Len(part) \in 1 .. Len(text)
  BY <1>1, <1>2, <1>3 DEF Text
<1>5. \A j \in 1 .. Len(part) : part[j] = text[i + j]
  <2>1. i \in Nat /\ i + 1 \in Int /\ i + Len(part) \in Int
    BY <1>1, <1>2, <1>3 DEF Text
  <2>2. \A j \in i + 1 .. i + Len(part) : text[j] \in Characters
    BY <1>2, <1>4, <2>1, ElementOfSeq DEF Text
  <2>3. \A j \in 1 .. (i + Len(part)) - (i + 1) + 1 :
          SubSeq(text, i + 1, i + Len(part))[j] = text[(i + 1) + j - 1]
    BY <2>1, <2>2, SubSeqProperties
  <2>4. /\ (i + Len(part)) - (i + 1) + 1 = Len(part)
        /\ \A j \in 1 .. Len(part) : (i + 1) + j - 1 = i + j
    BY <1>1, <2>1
  <2>5. \A j \in 1 .. Len(part) : SubSeq(text, i + 1, i + Len(part))[j] = text[i + j]
    BY <2>3, <2>4
  <2> QED
    BY <1>3, <2>5
<1>6. text[i + 1] = Slash /\ text[i + Len(part)] = Slash
  <2>1. 1 \in 1 .. Len(part) /\ Len(part) \in 1 .. Len(part)
    BY <1>1
  <2> QED
    BY <1>1, <1>5, <2>1
<1> QED
  BY <1>3, <1>4, <1>6 DEF text, part

-----------------------------------------------------------------------------
(* Induction over the natural numbers, for sets: the least number that is  *)
(* missing has a predecessor that is not.                                  *)
LEMMA SetInduction ==
  ASSUME NEW S, 0 \in S, \A n \in Nat : n \in S => n + 1 \in S
  PROVE  Nat \subseteq S
<1> DEFINE T == Nat \ S
           R == OpToRel(<, Nat)
<1> SUFFICES ASSUME T # {} PROVE FALSE
  OBVIOUS
<1>1. PICK x \in T : \A y \in T : ~(<<y, x>> \in R)
  <2> HIDE DEF R
  <2> QED
    BY NatLessThanWellFounded, WFMin DEF R
<1>2. x \in Nat /\ x # 0
  OBVIOUS
<1>3. x - 1 \in Nat /\ x - 1 < x
  BY <1>2
<1>4. <<x - 1, x>> \in R
  BY <1>2, <1>3 DEF OpToRel
<1> HIDE DEF R
<1>5. x - 1 \in S
  BY <1>1, <1>3, <1>4
<1>6. (x - 1) + 1 = x
  BY <1>2
<1> QED
  BY <1>1, <1>3, <1>5, <1>6

(* The same from one number to another.                                    *)
LEMMA IntervalInduction ==
  ASSUME NEW S, NEW m \in Nat, NEW n \in Nat, m \in S,
         \A i \in m .. n - 1 : i \in S => i + 1 \in S
  PROVE  \A i \in m .. n : i \in S
<1> DEFINE T == {k \in Nat : m + k <= n => m + k \in S}
<1>1. 0 \in T
  OBVIOUS
<1>2. \A k \in Nat : k \in T => k + 1 \in T
  <2> SUFFICES ASSUME NEW k \in Nat, k \in T, m + (k + 1) <= n
               PROVE  m + (k + 1) \in S
    OBVIOUS
  <2>1. m + k \in m .. n - 1 /\ m + k \in S /\ m + (k + 1) = (m + k) + 1
    OBVIOUS
  <2> QED
    BY <2>1
<1> HIDE DEF T
<1>3. Nat \subseteq T
  BY <1>1, <1>2, SetInduction
<1> SUFFICES ASSUME NEW i \in m .. n PROVE i \in S
  OBVIOUS
<1>4. i - m \in Nat /\ m + (i - m) = i /\ i <= n
  OBVIOUS
<1> QED
  BY <1>3, <1>4 DEF T

(* The readings of a text: the recursive function exists.                  *)
LEMMA ReadingsExist ==
  ASSUME NEW text, Len(text) \in Nat
  PROVE  Readings(text) = [i \in 0 .. Len(text) |->
           IF i = 0 THEN NothingRead ELSE ReadNext(Readings(text)[i - 1], text[i])]
<1> DEFINE IsRead(f, n) ==
             f = [i \in 0 .. n |->
                    IF i = 0 THEN NothingRead ELSE ReadNext(f[i - 1], text[i])]
           S == {n \in Nat : \E f : IsRead(f, n)}
<1>1. 0 \in S
  <2>1. IsRead([i \in 0 .. 0 |-> NothingRead], 0)
    OBVIOUS
  <2> QED
    BY <2>1
<1>2. \A n \in Nat : n \in S => n + 1 \in S
  <2> SUFFICES ASSUME NEW n \in Nat, NEW f, IsRead(f, n)
               PROVE  \E g : IsRead(g, n + 1)
    BY SMTT(40)
  <2> DEFINE g == [i \in 0 .. n + 1 |->
                     IF i <= n THEN f[i] ELSE ReadNext(f[n], text[n + 1])]
  <2>1. \A i \in 0 .. n :
          /\ f[i] = IF i = 0 THEN NothingRead ELSE ReadNext(f[i - 1], text[i])
          /\ g[i] = f[i]
    OBVIOUS
  <2>2. \A i \in 0 .. n + 1 :
          g[i] = IF i = 0 THEN NothingRead ELSE ReadNext(g[i - 1], text[i])
    <3> TAKE i \in 0 .. n + 1
    <3>1. CASE i <= n
      <4>1. i \in 0 .. n /\ (i # 0 => i - 1 \in 0 .. n)
        BY <3>1
      <4> HIDE DEF g
      <4> QED
        BY <2>1, <4>1
    <3>2. CASE i = n + 1
      <4>1. g[i] = ReadNext(f[n], text[n + 1]) /\ n \in 0 .. n /\ i - 1 = n /\ i # 0
        BY <3>2
      <4> HIDE DEF g
      <4> QED
        BY <2>1, <3>2, <4>1
    <3> QED
      BY <3>1, <3>2
  <2>3. g = [i \in 0 .. n + 1 |->
               IF i = 0 THEN NothingRead ELSE ReadNext(g[i - 1], text[i])]
    BY <2>2
  <2> QED
    BY <2>3
<1> HIDE DEF S
<1>3. Len(text) \in S
  BY <1>1, <1>2, SetInduction
<1>4. \E f : IsRead(f, Len(text))
  BY <1>3 DEF S
<1> QED
  BY <1>4, Zenon DEF Readings

-----------------------------------------------------------------------------
(* A text between slashes spells names: behind the first slash, each name  *)
(* is followed by the next slash.  ends[j] is where the j-th name ends.    *)
Ends(text, names, ends) ==
  /\ ends \in [0 .. Len(names) -> Nat]
  /\ ends[0] = 1 /\ text[1] = Slash
  /\ \A j \in 1 .. Len(names) :
       /\ ends[j] = ends[j - 1] + Len(names[j]) + 1
       /\ text[ends[j]] = Slash
       /\ \A k \in 1 .. Len(names[j]) :
            text[ends[j - 1] + k] = names[j][k] /\ names[j][k] # Slash

Spells(text, names) ==
  \E ends : Ends(text, names, ends) /\ ends[Len(names)] = Len(text)

LEMMA EndsType ==
  ASSUME NEW text, NEW names \in Seq(Text), NEW ends, Ends(text, names, ends)
  PROVE  /\ Len(names) \in Nat
         /\ \A j \in 0 .. Len(names) :
              ends[j] \in Nat /\ ends[j] >= 1 /\ text[ends[j]] = Slash
<1>1. Len(names) \in Nat /\ ends \in [0 .. Len(names) -> Nat]
  BY DEF Ends
<1>2. ASSUME NEW j \in 1 .. Len(names)
      PROVE  ends[j] \in Nat /\ ends[j] >= 1 /\ text[ends[j]] = Slash
  <2>1. ends[j] = ends[j - 1] + Len(names[j]) + 1 /\ text[ends[j]] = Slash
    BY DEF Ends
  <2>2. ends[j - 1] \in Nat /\ ends[j] \in Nat
    <3>1. j - 1 \in 0 .. Len(names) /\ j \in 0 .. Len(names)
      BY <1>1
    <3> QED
      BY <1>1, <3>1
  <2>3. Len(names[j]) \in Nat
    <3>1. names[j] \in Text
      BY ElementOfSeq
    <3> QED
      BY <3>1 DEF Text
  <2> QED
    BY <2>1, <2>2, <2>3
<1>3. ends[0] = 1 /\ text[ends[0]] = Slash
  BY DEF Ends
<1> QED
  BY <1>1, <1>2, <1>3

(* One more name.                                                          *)
LEMMA EndsAppend ==
  ASSUME NEW text, NEW names \in Seq(Text), NEW ends, Ends(text, names, ends),
         NEW name \in Text,
         NEW last \in Nat, last = ends[Len(names)] + Len(name) + 1,
         text[last] = Slash,
         \A k \in 1 .. Len(name) :
           text[ends[Len(names)] + k] = name[k] /\ name[k] # Slash
  PROVE  /\ Append(names, name) \in Seq(Text)
         /\ \E more : /\ Ends(text, Append(names, name), more)
                      /\ more[Len(Append(names, name))] = last
<1> DEFINE longer == Append(names, name)
           n == Len(names)
           more == [j \in 0 .. n + 1 |-> IF j <= n THEN ends[j] ELSE last]
<1>1. /\ longer \in Seq(Text) /\ n \in Nat
      /\ Len(longer) = n + 1
      /\ \A j \in 1 .. n : longer[j] = names[j]
      /\ longer[n + 1] = name
  BY AppendProperties
<1>2. /\ more \in [0 .. n + 1 -> Nat]
      /\ \A j \in 0 .. n : more[j] = ends[j]
      /\ more[n + 1] = last
  BY <1>1 DEF Ends
<1> HIDE DEF longer, more
<1>3. ASSUME NEW j \in 1 .. n + 1
      PROVE  /\ more[j] = more[j - 1] + Len(longer[j]) + 1
             /\ text[more[j]] = Slash
             /\ \A k \in 1 .. Len(longer[j]) :
                  text[more[j - 1] + k] = longer[j][k] /\ longer[j][k] # Slash
  <2>1. CASE j <= n
    <3>1. j \in 1 .. n /\ j \in 0 .. n /\ j - 1 \in 0 .. n
      BY <1>1, <2>1
    <3>2. more[j] = ends[j] /\ more[j - 1] = ends[j - 1] /\ longer[j] = names[j]
      BY <1>1, <1>2, <3>1
    <3> QED
      BY <3>1, <3>2, SMTT(40) DEF Ends
  <2>2. CASE j = n + 1
    <3>1. more[j] = last /\ more[j - 1] = ends[n] /\ longer[j] = name
      BY <1>1, <1>2, <2>2
    <3> QED
      BY <3>1
  <2> QED
    BY <1>1, <2>1, <2>2
<1>4. Ends(text, longer, more)
  BY <1>1, <1>2, <1>3 DEF Ends
<1> QED
  BY <1>1, <1>2, <1>4 DEF longer

(* Where the first name of a path begins in its text, and how far the      *)
(* clean text is shifted from there on.                                    *)
LEMMA CleanShift ==
  ASSUME Slash \in Characters, NEW x \in Text, IsPath(x)
  PROVE  \E first \in 0 .. Len(x), d \in -1 .. 1 :
           LET text == cleanPaths(x)
           IN /\ first + d = 1
              /\ text \in Text /\ text[1] = Slash
              /\ \A i \in 1 .. Len(x) : first <= i => text[i + d] = x[i]
              /\ first = 0 => x[1] # Slash /\ ~(Len(x) > 1 /\ x[1] = Dot /\ x[2] = Slash)
              /\ first > 0 => x[first] = Slash
              /\ Readings(x)[first] = NothingRead
              /\ Len(text) = Len(x) + d + (IF x[Len(x)] = Slash THEN 0 ELSE 1)
              /\ text[Len(text)] = Slash
<1> DEFINE n == Len(x)
           r == Rooted(Undotted(x))
           text == cleanPaths(x)
           read == Readings(x)
<1>1. n \in Nat \ {0} /\ x # <<>>
  BY EmptySeq DEF Text, IsPath
<1>2. text = Closed(r)
  BY CleanSteps
<1>3. /\ text \in Text /\ text[1] = Slash /\ text[Len(text)] = Slash
      /\ Len(text) \in Nat
  BY <1>1, CleanBetweenSlashes DEF Text
<1>4. \A i \in 0 .. n :
        read[i] = IF i = 0 THEN NothingRead ELSE ReadNext(read[i - 1], x[i])
  BY <1>1, ReadingsExist
<1>5. ASSUME NEW d \in -1 .. 1, r \in Text, Len(r) = n + d, n + d \in Nat \ {0},
             \A i \in 1 .. n : i + d >= 1 => r[i + d] = x[i]
      PROVE  /\ \A i \in 1 .. n : i + d >= 1 => text[i + d] = x[i]
             /\ Len(text) = n + d + (IF x[n] = Slash THEN 0 ELSE 1)
  <2>1. r # <<>> /\ r[Len(r)] = x[n]
    BY <1>1, <1>5, EmptySeq
  <2>2. CASE x[n] = Slash
    BY <1>2, <1>5, <2>1, <2>2 DEF Closed
  <2>3. CASE x[n] # Slash
    <3>1. text = Append(r, Slash)
      BY <1>2, <2>1, <2>3 DEF Closed
    <3>2. /\ Len(text) = n + d + 1
          /\ \A i \in 1 .. n + d : text[i] = r[i]
      BY <1>5, <3>1, AppendProperties DEF Text
    <3>3. \A i \in 1 .. n : i + d >= 1 => i + d \in 1 .. n + d
      BY <1>1
    <3> QED
      BY <1>5, <2>3, <3>2, <3>3
  <2> QED
    BY <2>2, <2>3
<1>6. CASE n > 1 /\ x[1] = Dot /\ x[2] = Slash
  <2>1. Undotted(x) = Tail(x)
    BY <1>6 DEF Undotted
  <2>2. /\ Tail(x) \in Text /\ Len(Tail(x)) = n - 1
        /\ \A i \in 1 .. n - 1 : Tail(x)[i] = x[i + 1]
    BY <1>1, HeadTailProperties DEF Text
  <2>3. r = Tail(x)
    BY <1>6, <2>1, <2>2 DEF Rooted
  <2>4. \A i \in 1 .. n : i + -1 >= 1 => r[i + -1] = x[i]
    BY <1>1, <2>2, <2>3
  <2>5. /\ \A i \in 1 .. n : i + -1 >= 1 => text[i + -1] = x[i]
        /\ Len(text) = n + -1 + (IF x[n] = Slash THEN 0 ELSE 1)
    BY <1>5, <1>6, <2>2, <2>3, <2>4
  <2>6. read[2] = NothingRead
    <3>1. read[0] = NothingRead /\ read[1] = ReadNext(read[0], Dot)
          /\ read[2] = ReadNext(read[1], Slash)
      BY <1>4, <1>6
    <3>2. read[1] = [names |-> <<>>, name |-> <<Dot>>]
      BY <3>1, PathAssumption DEF ReadNext, NothingRead
    <3> QED
      BY <3>1, <3>2 DEF ReadNext, EndName, NothingRead
  <2>7. 2 \in 0 .. n /\ -1 \in -1 .. 1 /\ 2 + -1 = 1
    BY <1>6
  <2> HIDE DEF text, read
  <2> QED
    BY <1>1, <1>3, <1>6, <2>5, <2>6, <2>7 DEF text, read
<1>7. CASE x[1] = Slash
  <2>1. Undotted(x) = x /\ r = x
    BY <1>7, PathAssumption DEF Undotted, Rooted
  <2>2. /\ \A i \in 1 .. n : i + 0 >= 1 => text[i + 0] = x[i]
        /\ Len(text) = n + 0 + (IF x[n] = Slash THEN 0 ELSE 1)
    BY <1>1, <1>5, <2>1
  <2>3. read[1] = NothingRead
    <3>1. read[0] = NothingRead /\ read[1] = ReadNext(read[0], Slash)
      BY <1>1, <1>4, <1>7
    <3> QED
      BY <3>1 DEF ReadNext, EndName, NothingRead
  <2>4. 1 \in 0 .. n /\ 0 \in -1 .. 1 /\ 1 + 0 = 1
    BY <1>1
  <2> HIDE DEF text, read
  <2> QED
    BY <1>1, <1>3, <1>7, <2>2, <2>3, <2>4 DEF text, read
<1>8. CASE x[1] # Slash /\ ~(n > 1 /\ x[1] = Dot /\ x[2] = Slash)
  <2>1. Undotted(x) = x /\ r = <<Slash>> \o x
    BY <1>1, <1>8 DEF Undotted, Rooted
  <2>2. /\ r \in Text /\ Len(r) = n + 1
        /\ \A i \in 1 .. n : r[i + 1] = x[i]
    <3>1. <<Slash>> \in Text /\ Len(<<Slash>>) = 1
      BY DEF Text
    <3>2. /\ r \in Text /\ Len(r) = 1 + n
          /\ \A i \in 1 .. 1 + n : r[i] = IF i <= 1 THEN <<Slash>>[i] ELSE x[i - 1]
      BY <2>1, <3>1, ConcatProperties DEF Text
    <3> QED
      BY <1>1, <3>2
  <2>3. /\ \A i \in 1 .. n : i + 1 >= 1 => text[i + 1] = x[i]
        /\ Len(text) = n + 1 + (IF x[n] = Slash THEN 0 ELSE 1)
    BY <1>1, <1>5, <2>2
  <2>4. read[0] = NothingRead
    BY <1>1, <1>4
  <2>5. 0 \in 0 .. n /\ 1 \in -1 .. 1 /\ 0 + 1 = 1
    BY <1>1
  <2> HIDE DEF text, read
  <2> QED
    BY <1>1, <1>3, <1>8, <2>3, <2>4, <2>5 DEF text, read
<1> QED
  BY <1>6, <1>7, <1>8

(* What has been read when i characters are: complete names, then the      *)
(* beginning of one.                                                       *)
Reached(text, r, place) ==
  /\ r.names \in Seq(Text) /\ r.name \in Text
  /\ \E ends :
       /\ Ends(text, r.names, ends)
       /\ place = ends[Len(r.names)] + Len(r.name)
       /\ \A k \in 1 .. Len(r.name) :
            text[ends[Len(r.names)] + k] = r.name[k] /\ r.name[k] # Slash

(* A name that has begun ends before the next slash, or the text ends.     *)
LEMMA ReachedEnd ==
  ASSUME NEW text, NEW r, NEW place \in Nat, Reached(text, r, place),
         r.name \notin {<<>>, <<Dot>>}, text[place + 1] = Slash
  PROVE  /\ EndName(r) \in Seq(Text)
         /\ \E ends : Ends(text, EndName(r), ends) /\ ends[Len(EndName(r))] = place + 1
<1>1. EndName(r) = Append(r.names, r.name)
  BY DEF EndName
<1>2. PICK ends :
        /\ Ends(text, r.names, ends)
        /\ place = ends[Len(r.names)] + Len(r.name)
        /\ \A k \in 1 .. Len(r.name) :
             text[ends[Len(r.names)] + k] = r.name[k] /\ r.name[k] # Slash
  BY DEF Reached
<1>3. r.names \in Seq(Text) /\ r.name \in Text /\ place + 1 \in Nat
  BY DEF Reached
<1> DEFINE last == place + 1
<1>4. last \in Nat /\ last = ends[Len(r.names)] + Len(r.name) + 1
  BY <1>2, <1>3
<1>5. text[last] = Slash
  OBVIOUS
<1> HIDE DEF last
<1>6. /\ Append(r.names, r.name) \in Seq(Text)
      /\ \E more : /\ Ends(text, Append(r.names, r.name), more)
                   /\ more[Len(Append(r.names, r.name))] = last
  BY <1>2, <1>3, <1>4, <1>5, EndsAppend, SMTT(40)
<1> QED
  BY <1>1, <1>6 DEF last

(* The character before the place that is reached tells what has been      *)
(* read: a slash when no name has begun, and the first of a name of one.   *)
LEMMA ReachedLast ==
  ASSUME NEW text, NEW r, NEW place \in Nat, Reached(text, r, place)
  PROVE  /\ r.name = <<>> => text[place] = Slash
         /\ r.name # <<>> => text[place] # Slash
         /\ r.name = <<Dot>> => text[place] = Dot /\ text[place - 1] = Slash /\ place > 1
         /\ place >= 1
<1>1. PICK ends :
        /\ Ends(text, r.names, ends)
        /\ place = ends[Len(r.names)] + Len(r.name)
        /\ \A k \in 1 .. Len(r.name) :
             text[ends[Len(r.names)] + k] = r.name[k] /\ r.name[k] # Slash
  BY DEF Reached
<1> DEFINE n == Len(r.names)
<1>2. n \in Nat /\ Len(r.name) \in Nat
  BY DEF Reached, Text
<1>3. text[ends[n]] = Slash /\ ends[n] \in Nat /\ ends[n] >= 1
  BY <1>1, <1>2, EndsType DEF Reached
<1>4. CASE r.name = <<>>
  <2>1. Len(r.name) = 0
    BY <1>4
  <2> QED
    BY <1>1, <1>3, <1>4, <2>1
<1>5. CASE r.name # <<>>
  <2>1. Len(r.name) > 0
    BY <1>5, <1>2, EmptySeq DEF Reached, Text
  <2>2. Len(r.name) \in 1 .. Len(r.name)
    BY <1>2, <2>1
  <2>3. text[place] = r.name[Len(r.name)] /\ text[place] # Slash
    BY <1>1, <2>2
  <2>4. r.name = <<Dot>> => Len(r.name) = 1 /\ r.name[1] = Dot
    OBVIOUS
  <2> HIDE DEF n
  <2> QED
    BY <1>1, <1>3, <1>5, <2>3, <2>4 DEF n
<1> QED
  BY <1>4, <1>5

(* A path is read name by name: no empty one and no dot is met.            *)
LEMMA PathRead ==
  ASSUME Slash \in Characters, NEW x \in Text, IsPath(x),
         NEW first \in 0 .. Len(x), NEW d \in -1 .. 1, first + d = 1,
         NEW text \in Text, text[1] = Slash,
         \A i \in 1 .. Len(x) : first <= i => text[i + d] = x[i],
         first = 0 => x[1] # Slash /\ ~(Len(x) > 1 /\ x[1] = Dot /\ x[2] = Slash),
         Readings(x)[first] = NothingRead
  PROVE  /\ Reached(text, Readings(x)[Len(x)], Len(x) + d)
         /\ \A i \in first .. Len(x) : Reached(text, Readings(x)[i], i + d)
<1> DEFINE n == Len(x)
           read == Readings(x)
           S == {i \in first .. n : Reached(text, read[i], i + d)}
<1>1. n \in Nat /\ first \in Nat /\ d \in Int
  BY DEF Text
<1>2. \A i \in 1 .. n : read[i] = ReadNext(read[i - 1], x[i])
  BY <1>1, ReadingsExist
<1>3. first \in S
  <2>1. Reached(text, NothingRead, 1)
    <3>1. <<>> \in Seq(Text) /\ <<>> \in Text /\ Len(<<>>) = 0
      BY DEF Text
    <3>2. Ends(text, <<>>, [j \in 0 .. 0 |-> 1])
      BY <3>1 DEF Ends
    <3> QED
      BY <3>1, <3>2 DEF Reached, NothingRead
  <2> QED
    BY <1>1, <2>1
<1>4. \A i \in first .. n - 1 : i \in S => i + 1 \in S
  <2> SUFFICES ASSUME NEW i \in first .. n - 1, Reached(text, read[i], i + d)
               PROVE  Reached(text, read[i + 1], i + 1 + d)
    BY <1>1
  <2> DEFINE r == read[i]
             c == x[i + 1]
  <2>1. /\ i + 1 \in 1 .. n /\ i \in Nat /\ i + d \in Nat
        /\ read[i + 1] = ReadNext(r, c)
        /\ text[i + d + 1] = c /\ c \in Characters
    <3>1. i + 1 \in 1 .. n /\ i \in Nat /\ i + d \in Nat /\ first <= i + 1
      BY <1>1
    <3>2. read[i + 1] = ReadNext(read[(i + 1) - 1], x[i + 1]) /\ (i + 1) - 1 = i
      BY <1>2, <3>1
    <3>3. text[(i + 1) + d] = x[i + 1] /\ (i + 1) + d = i + d + 1
      BY <1>1, <3>1
    <3>4. x[i + 1] \in Characters
      BY <3>1, ElementOfSeq DEF Text
    <3> HIDE DEF read
    <3> QED
      BY <3>1, <3>2, <3>3, <3>4
  <2>2. r.names \in Seq(Text) /\ r.name \in Text
    BY DEF Reached
  <2>3. CASE c # Slash
    <3>1. read[i + 1] = [names |-> r.names, name |-> Append(r.name, c)]
      BY <2>1, <2>3 DEF ReadNext
    <3>2. /\ Append(r.name, c) \in Text
          /\ Len(Append(r.name, c)) = Len(r.name) + 1
          /\ \A k \in 1 .. Len(r.name) : Append(r.name, c)[k] = r.name[k]
          /\ Append(r.name, c)[Len(r.name) + 1] = c
          /\ Len(r.name) \in Nat
      <4> HIDE DEF r, c
      <4> QED
        BY <2>1, <2>2, AppendProperties DEF Text
    <3>3. PICK ends :
            /\ Ends(text, r.names, ends)
            /\ i + d = ends[Len(r.names)] + Len(r.name)
            /\ \A k \in 1 .. Len(r.name) :
                 text[ends[Len(r.names)] + k] = r.name[k] /\ r.name[k] # Slash
      BY DEF Reached
    <3> DEFINE longer == Append(r.name, c)
    <3>4. ends[Len(r.names)] \in Nat
      <4> HIDE DEF r
      <4>1. Len(r.names) \in 0 .. Len(r.names)
        BY <2>2, <3>3, EndsType
      <4> QED
        BY <2>2, <3>3, <4>1, EndsType
    <3>5. /\ i + 1 + d = ends[Len(r.names)] + Len(longer)
          /\ i + d + 1 = ends[Len(r.names)] + (Len(r.name) + 1)
      <4> HIDE DEF r, c, n
      <4> QED
        BY <1>1, <2>1, <3>2, <3>3, <3>4, SMTT(40)
    <3>6. \A k \in 1 .. Len(longer) :
            text[ends[Len(r.names)] + k] = longer[k] /\ longer[k] # Slash
      <4> TAKE k \in 1 .. Len(longer)
      <4>1. k \in 1 .. Len(r.name) \/ k = Len(r.name) + 1
        BY <3>2
      <4> HIDE DEF longer
      <4> QED
        BY <2>1, <2>3, <3>2, <3>3, <3>5, <4>1 DEF longer
    <3> HIDE DEF r, read
    <3> QED
      BY <2>2, <3>1, <3>2, <3>3, <3>5, <3>6, SMTT(40) DEF Reached
  <2>4. CASE c = Slash
    <3>1. read[i + 1] = [names |-> EndName(r), name |-> <<>>]
      BY <2>1, <2>4 DEF ReadNext
    <3>2. i > 0 => text[i + d] = x[i] /\ i \in 1 .. n - 1
      BY <1>1, <2>1
    <3>3. i = 0 => FALSE
      BY <1>1, <2>4
    <3>4. r.name # <<>>
      <4> SUFFICES ASSUME r.name = <<>> PROVE FALSE
        OBVIOUS
      <4>1. text[i + d] = Slash
        BY <2>1, ReachedLast
      <4>2. x[i] = Slash /\ i \in 1 .. n - 1
        BY <3>2, <3>3, <2>1, <4>1
      <4> QED
        BY <2>4, <4>2 DEF IsPath
    <3>5. r.name # <<Dot>>
      <4> SUFFICES ASSUME r.name = <<Dot>> PROVE FALSE
        OBVIOUS
      <4>1. text[i + d] = Dot /\ text[i + d - 1] = Slash /\ i + d > 1
        BY <2>1, ReachedLast
      <4>2. x[i] = Dot /\ i > first /\ i \in 1 .. n - 1
        BY <1>1, <3>2, <3>3, <2>1, <4>1, SMTT(40)
      <4>3. CASE i = 1
        BY <1>1, <2>4, <4>2, <4>3
      <4>4. CASE i > 1
        <5>1. i - 1 \in 1 .. n - 1 /\ first <= i - 1 /\ (i - 1) + d = i + d - 1
          BY <1>1, <4>2, <4>4
        <5>2. x[i - 1] = Slash /\ (i - 1) + 1 = i /\ (i - 1) + 2 = i + 1
          BY <1>1, <4>1, <5>1
        <5> QED
          BY <2>4, <4>2, <5>1, <5>2 DEF IsPath
      <4> QED
        BY <4>2, <4>3, <4>4
    <3>6. /\ EndName(r) \in Seq(Text)
          /\ \E ends : /\ Ends(text, EndName(r), ends)
                       /\ ends[Len(EndName(r))] = i + d + 1
      BY <2>1, <2>4, <3>4, <3>5, ReachedEnd
    <3>7. <<>> \in Text /\ Len(<<>>) = 0 /\ i + 1 + d = i + d + 1 + 0
      BY <1>1, <2>1 DEF Text
    <3> HIDE DEF r, read
    <3> QED
      BY <3>1, <3>6, <3>7 DEF Reached
  <2> QED
    BY <2>3, <2>4
<1>5. \A i \in first .. n : i \in S
  <2> HIDE DEF S
  <2> QED
    BY <1>1, <1>3, <1>4, IntervalInduction
<1> QED
  BY <1>1, <1>5

(* The clean text of a path spells its names.                              *)
LEMMA CleanSpells ==
  ASSUME Slash \in Characters, NEW x \in Text, IsPath(x)
  PROVE  Names(x) \in Seq(Text) /\ Spells(cleanPaths(x), Names(x))
<1> DEFINE n == Len(x)
           text == cleanPaths(x)
           r == Readings(x)[n]
<1>1. n \in Nat \ {0}
  BY EmptySeq DEF Text, IsPath
<1>2. PICK first \in 0 .. n, d \in -1 .. 1 :
        /\ first + d = 1
        /\ text \in Text /\ text[1] = Slash
        /\ \A i \in 1 .. n : first <= i => text[i + d] = x[i]
        /\ first = 0 => x[1] # Slash /\ ~(n > 1 /\ x[1] = Dot /\ x[2] = Slash)
        /\ first > 0 => x[first] = Slash
        /\ Readings(x)[first] = NothingRead
        /\ Len(text) = n + d + (IF x[n] = Slash THEN 0 ELSE 1)
        /\ text[Len(text)] = Slash
  BY CleanShift
<1> HIDE DEF text
<1>3. Reached(text, r, n + d) /\ n + d \in Nat
  BY <1>1, <1>2, PathRead
<1>4. text[n + d] = x[n]
  BY <1>1, <1>2
<1>5. Names(x) = EndName(r)
  BY DEF Names
<1>6. CASE x[n] = Slash
  <2>1. r.name = <<>>
    BY <1>3, <1>4, <1>6, ReachedLast
  <2>2. /\ EndName(r) = r.names /\ Len(r.name) = 0
        /\ r.names \in Seq(Text)
        /\ \E ends : Ends(text, r.names, ends) /\ n + d = ends[Len(r.names)] + Len(r.name)
    BY <1>3, <2>1 DEF EndName, Reached
  <2>3. PICK ends : Ends(text, r.names, ends) /\ n + d = ends[Len(r.names)] + Len(r.name)
    BY <2>2
  <2>4. ends[Len(r.names)] = Len(text)
    <3>1. ends[Len(r.names)] \in Nat
      <4> HIDE DEF r
      <4>1. Len(r.names) \in 0 .. Len(r.names)
        BY <2>2, <2>3, EndsType
      <4> QED
        BY <2>2, <2>3, <4>1, EndsType
    <3> HIDE DEF r, n
    <3> QED
      BY <1>2, <1>3, <1>6, <2>2, <2>3, <3>1
  <2> QED
    BY <1>5, <2>2, <2>3, <2>4 DEF Spells, text
<1>7. CASE x[n] # Slash
  <2>1. r.name # <<>>
    BY <1>3, <1>4, <1>7, ReachedLast
  <2>2. r.name # <<Dot>>
    <3> SUFFICES ASSUME r.name = <<Dot>> PROVE FALSE
      OBVIOUS
    <3>1. text[n + d] = Dot /\ text[n + d - 1] = Slash /\ n + d > 1
      BY <1>3, ReachedLast
    <3>2. x[n] = Dot /\ n > first
      BY <1>1, <1>2, <1>4, <3>1
    <3>3. CASE n = 1
      BY <3>2, <3>3 DEF IsPath, Text
    <3>4. CASE n > 1
      <4>1. n - 1 \in 1 .. n - 1 /\ first <= n - 1 /\ (n - 1) + d = n + d - 1
        BY <1>1, <1>2, <3>2, <3>4
      <4>2. x[n - 1] = Slash /\ (n - 1) + 1 = n /\ ~((n - 1) + 2 <= n)
        BY <1>1, <1>2, <3>1, <4>1, SMTT(40)
      <4> QED
        BY <3>2, <4>1, <4>2 DEF IsPath
    <3> HIDE DEF n
    <3> QED
      BY <1>1, <3>3, <3>4
  <2>3. text[n + d + 1] = Slash /\ Len(text) = n + d + 1
    BY <1>2, <1>7
  <2> QED
    BY <1>3, <1>5, <2>1, <2>2, <2>3, ReachedEnd DEF Spells, text
<1> QED
  BY <1>6, <1>7

-----------------------------------------------------------------------------
(* A search, character by character.                                       *)
StandsAt(text, part, i) == \A k \in 1 .. Len(part) : text[i + k] = part[k]

LEMMA ContainsAt ==
  ASSUME NEW S, NEW text \in Seq(S), NEW part \in Seq(S)
  PROVE  ContainsText(text, part) <=>
           \E i \in 0 .. Len(text) - Len(part) : StandsAt(text, part, i)
<1>1. ASSUME NEW i \in 0 .. Len(text) - Len(part)
      PROVE  SubSeq(text, i + 1, i + Len(part)) = part <=>
               \A k \in 1 .. Len(part) : text[i + k] = part[k]
  <2> DEFINE sub == SubSeq(text, i + 1, i + Len(part))
  <2>1. i \in Nat /\ Len(part) \in Nat /\ Len(text) \in Nat /\ i + Len(part) <= Len(text)
    OBVIOUS
  <2>2. i + 1 \in Int /\ i + Len(part) \in Int
    BY <2>1
  <2>3. \A k \in i + 1 .. i + Len(part) : text[k] \in S
    <3> TAKE k \in i + 1 .. i + Len(part)
    <3>1. k \in 1 .. Len(text)
      BY <2>1
    <3> QED
      BY <3>1, ElementOfSeq
  <2>4. /\ sub \in Seq(S)
        /\ Len(sub) = IF i + 1 <= i + Len(part) THEN i + Len(part) - (i + 1) + 1 ELSE 0
        /\ \A k \in 1 .. i + Len(part) - (i + 1) + 1 : sub[k] = text[i + 1 + k - 1]
    BY <2>2, <2>3, SubSeqProperties
  <2>5. i + Len(part) - (i + 1) + 1 = Len(part)
    BY <2>1
  <2>6. ASSUME NEW k \in 1 .. Len(part) PROVE sub[k] = text[i + k]
    <3>1. i + 1 + k - 1 = i + k
      BY <2>1
    <3> HIDE DEF sub
    <3> QED
      BY <2>4, <2>5, <3>1
  <2>7. Len(sub) = Len(part)
    <3> HIDE DEF sub
    <3> QED
      BY <2>1, <2>4, <2>5
  <2> HIDE DEF sub
  <2>8. (\A k \in 1 .. Len(part) : text[i + k] = part[k]) => sub = part
    BY <2>4, <2>6, <2>7, SeqEqual
  <2> QED
    BY <2>6, <2>8 DEF sub
<1> QED
  BY <1>1 DEF ContainsText, StandsAt

(* The ends of the names grow, and every place of the text is one of them  *)
(* or lies in a name.                                                      *)
LEMMA EndsGrow ==
  ASSUME NEW text, NEW names \in Seq(Text), NEW ends, Ends(text, names, ends),
         NEW i \in 0 .. Len(names), NEW j \in i .. Len(names)
  PROVE  ends[i] <= ends[j] /\ (i # j => ends[i] < ends[j])
<1> DEFINE S == {k \in i .. Len(names) : ends[i] <= ends[k] /\ (i # k => ends[i] < ends[k])}
<1>1. Len(names) \in Nat /\ \A k \in 0 .. Len(names) : ends[k] \in Nat
  BY EndsType
<1>2. i \in S
  BY <1>1
<1>3. ASSUME NEW k \in i .. Len(names) - 1, k \in S PROVE k + 1 \in S
  <2>1. k + 1 \in 1 .. Len(names) /\ k \in 0 .. Len(names) /\ k + 1 \in 0 .. Len(names)
    BY <1>1
  <2>2. ends[k + 1] = ends[(k + 1) - 1] + Len(names[k + 1]) + 1
    BY <2>1 DEF Ends
  <2>3. Len(names[k + 1]) \in Nat /\ (k + 1) - 1 = k
    <3>1. names[k + 1] \in Text
      BY <2>1, ElementOfSeq
    <3> QED
      BY <1>1, <3>1 DEF Text
  <2>4. ends[k] \in Nat /\ ends[k + 1] \in Nat /\ ends[i] \in Nat
    BY <1>1, <2>1
  <2> QED
    BY <1>1, <1>3, <2>1, <2>2, <2>3, <2>4
<1> HIDE DEF S
<1>4. i \in Nat /\ j \in Nat
  BY <1>1
<1>5. j \in S
  <2>1. \A k \in i .. j - 1 : k \in S => k + 1 \in S
    BY <1>1, <1>3
  <2>2. \A k \in i .. j : k \in S
    BY <1>2, <1>4, <2>1, IntervalInduction
  <2> QED
    BY <1>4, <2>2
<1> QED
  BY <1>5 DEF S

Covered(names, ends, k) ==
  \/ \E j \in 0 .. Len(names) : k = ends[j]
  \/ \E j \in 1 .. Len(names) : \E m \in 1 .. Len(names[j]) : k = ends[j - 1] + m

LEMMA EndsCover ==
  ASSUME NEW text, NEW names \in Seq(Text), NEW ends, Ends(text, names, ends),
         NEW k \in 1 .. ends[Len(names)]
  PROVE  Covered(names, ends, k)
<1> DEFINE n == Len(names)
           S == {q \in 0 .. n : \A i \in 1 .. ends[q] : Covered(names, ends, i)}
<1>1. n \in Nat /\ \A j \in 0 .. n : ends[j] \in Nat
  BY EndsType
<1>2. ends[0] = 1
  BY DEF Ends
<1>3. 0 \in S
  BY <1>1, <1>2 DEF Covered
<1>4. ASSUME NEW q \in 0 .. n - 1, q \in S PROVE q + 1 \in S
  <2>1. q + 1 \in 1 .. n /\ q \in 0 .. n /\ q + 1 \in 0 .. n /\ (q + 1) - 1 = q
    BY <1>1
  <2>2. ends[q + 1] = ends[q] + Len(names[q + 1]) + 1
    BY <2>1 DEF Ends
  <2>3. Len(names[q + 1]) \in Nat
    <3>1. names[q + 1] \in Text
      BY <2>1, ElementOfSeq
    <3> QED
      BY <3>1 DEF Text
  <2>4. ends[q] \in Nat
    BY <1>1, <2>1
  <2>5. ASSUME NEW i \in 1 .. ends[q + 1] PROVE Covered(names, ends, i)
    <3>1. CASE i \in 1 .. ends[q]
      BY <1>4, <3>1
    <3>2. CASE i = ends[q + 1]
      BY <2>1, <3>2 DEF Covered
    <3>3. CASE i > ends[q] /\ i < ends[q + 1]
      <4>1. i - ends[q] \in 1 .. Len(names[q + 1]) /\ i = ends[q] + (i - ends[q])
        BY <2>2, <2>3, <2>4, <3>3, SMTT(40)
      <4> QED
        BY <2>1, <4>1 DEF Covered
    <3> QED
      BY <2>2, <2>3, <2>4, <3>1, <3>2, <3>3
  <2> QED
    BY <2>1, <2>5
<1>5. \A q \in 0 .. n : q \in S
  <2> HIDE DEF S
  <2> QED
    BY <1>1, <1>3, <1>4, IntervalInduction
<1>6. n \in 0 .. n
  BY <1>1
<1>7. n \in S
  BY <1>5, <1>6
<1> QED
  BY <1>7

(* A place of the text with a slash is the end of a name.                  *)
LEMMA SlashEnds ==
  ASSUME NEW text, NEW names \in Seq(Text), NEW ends, Ends(text, names, ends),
         NEW k \in 1 .. ends[Len(names)], text[k] = Slash
  PROVE  \E j \in 0 .. Len(names) : k = ends[j]
<1>1. ASSUME NEW j \in 1 .. Len(names), NEW m \in 1 .. Len(names[j]), k = ends[j - 1] + m
      PROVE  FALSE
  BY <1>1 DEF Ends
<1> QED
  BY <1>1, EndsCover DEF Covered

(* Places that are as far from each other in one text as in another are    *)
(* all shifted alike.                                                      *)
Distant(s, r, j, m) ==
  /\ \A q \in 0 .. m : s[j + q] \in Nat /\ r[q] \in Nat
  /\ \A q \in 0 .. m - 1 : \E l \in Nat :
       s[j + (q + 1)] = s[j + q] + l + 1 /\ r[q + 1] = r[q] + l + 1
Shifted(s, r, j, m, i) ==
  \A q \in 0 .. m :
    /\ s[j + q] = i + r[q]
    /\ \A k \in Nat : i + (r[q] + k) = s[j + q] + k

LEMMA SameDistances ==
  ASSUME NEW s, NEW r, NEW j \in Nat, NEW m \in Nat, NEW i \in Nat,
         s[j] = i + 1, r[0] = 1, Distant(s, r, j, m)
  PROVE  Shifted(s, r, j, m, i)
<1> DEFINE S == {q \in 0 .. m : s[j + q] = i + r[q]}
<1>1. 0 \in S
  <2>1. j + 0 = j
    OBVIOUS
  <2> QED
    BY <2>1
<1>2. ASSUME NEW q \in 0 .. m - 1, q \in S PROVE q + 1 \in S
  <2>1. PICK l \in Nat : s[j + (q + 1)] = s[j + q] + l + 1 /\ r[q + 1] = r[q] + l + 1
    BY DEF Distant
  <2>2. s[j + q] = i + r[q] /\ r[q] \in Nat /\ q + 1 \in 0 .. m
    BY <1>2 DEF Distant
  <2> QED
    BY <2>1, <2>2
<1>3. \A q \in 0 .. m : q \in S
  <2> HIDE DEF S
  <2> QED
    BY <1>1, <1>2, IntervalInduction
<1>4. ASSUME NEW q \in 0 .. m
      PROVE  s[j + q] = i + r[q] /\ \A k \in Nat : i + (r[q] + k) = s[j + q] + k
  <2>1. s[j + q] = i + r[q] /\ r[q] \in Nat
    BY <1>3 DEF Distant
  <2> QED
    BY <2>1
<1> QED
  BY <1>4 DEF Shifted

(* Names that stand in a row stand in the text, at the same distances.     *)
LEMMA NamesThenTexts ==
  ASSUME NEW t \in Text, NEW u \in Text, NEW N \in Seq(Text), NEW M \in Seq(Text),
         Spells(t, N), Spells(u, M), ContainsText(N, M)
  PROVE  ContainsText(t, u)
<1>1. PICK s : Ends(t, N, s) /\ s[Len(N)] = Len(t)
  BY DEF Spells
<1>2. PICK r : Ends(u, M, r) /\ r[Len(M)] = Len(u)
  BY DEF Spells
<1>3. PICK j \in 0 .. Len(N) - Len(M) : StandsAt(N, M, j)
  BY ContainsAt
<1>4. /\ Len(N) \in Nat /\ \A q \in 0 .. Len(N) : s[q] \in Nat /\ s[q] >= 1 /\ t[s[q]] = Slash
      /\ Len(M) \in Nat /\ \A q \in 0 .. Len(M) : r[q] \in Nat /\ r[q] >= 1 /\ u[r[q]] = Slash
  BY <1>1, <1>2, EndsType
<1>5. j \in 0 .. Len(N) /\ j + Len(M) \in 0 .. Len(N) /\ j \in Nat
  BY <1>4
<1> DEFINE i == s[j] - 1
<1>6. i \in Nat /\ s[j] = i + 1
  <2>1. s[j] \in Nat /\ s[j] >= 1
    BY <1>4, <1>5
  <2> QED
    BY <2>1
<1> HIDE DEF i
<1>7. ASSUME NEW q \in 0 .. Len(M) - 1
      PROVE  \E l \in Nat :
               s[j + (q + 1)] = s[j + q] + l + 1 /\ r[q + 1] = r[q] + l + 1
  <2>1. /\ q + 1 \in 1 .. Len(M) /\ (q + 1) - 1 = q
        /\ j + (q + 1) \in 1 .. Len(N) /\ (j + (q + 1)) - 1 = j + q
    BY <1>4, <1>5
  <2>2. s[j + (q + 1)] = s[j + q] + Len(N[j + (q + 1)]) + 1
    BY <1>1, <2>1 DEF Ends
  <2>3. r[q + 1] = r[q] + Len(M[q + 1]) + 1
    BY <1>2, <2>1 DEF Ends
  <2>4. N[j + (q + 1)] = M[q + 1] /\ M[q + 1] \in Text
    BY <1>3, <2>1, ElementOfSeq DEF StandsAt
  <2>5. Len(M[q + 1]) \in Nat
    BY <2>4 DEF Text
  <2> QED
    BY <2>2, <2>3, <2>4, <2>5
<1>8. Shifted(s, r, j, Len(M), i)
  <2>1. \A q \in 0 .. Len(M) : s[j + q] \in Nat /\ r[q] \in Nat
    <3>1. \A q \in 0 .. Len(M) : j + q \in 0 .. Len(N)
      BY <1>4, <1>5
    <3> QED
      BY <1>4, <3>1
  <2>2. r[0] = 1
    BY <1>2 DEF Ends
  <2>3. j \in Nat /\ Len(M) \in Nat
    BY <1>4, <1>5
  <2>4. Distant(s, r, j, Len(M))
    BY <1>7, <2>1 DEF Distant
  <2> QED
    BY <1>6, <2>2, <2>3, <2>4, SameDistances
<1>9. i \in 0 .. Len(t) - Len(u)
  <2>1. s[j + Len(M)] <= s[Len(N)]
    <3>1. Len(N) \in j + Len(M) .. Len(N)
      BY <1>4, <1>5
    <3> QED
      BY <1>1, <1>5, <3>1, EndsGrow
  <2>2. s[j + Len(M)] = i + Len(u)
    BY <1>2, <1>4, <1>8 DEF Shifted
  <2>3. Len(t) \in Nat /\ Len(u) \in Nat
    BY DEF Text
  <2> QED
    BY <1>1, <1>6, <2>1, <2>2, <2>3
<1>10. ASSUME NEW k \in 1 .. Len(u) PROVE t[i + k] = u[k]
  <2>1. ASSUME NEW q \in 0 .. Len(M), k = r[q] PROVE t[i + k] = u[k]
    <3>1. j + q \in 0 .. Len(N) /\ i + k = s[j + q]
      BY <1>4, <1>5, <1>8, <2>1 DEF Shifted
    <3> QED
      BY <1>4, <2>1, <3>1
  <2>2. ASSUME NEW q \in 1 .. Len(M), NEW m \in 1 .. Len(M[q]), k = r[q - 1] + m
        PROVE  t[i + k] = u[k]
    <3>1. q - 1 \in 0 .. Len(M) /\ j + q \in 1 .. Len(N) /\ (j + q) - 1 = j + (q - 1)
      BY <1>4, <1>5
    <3>2. i + k = s[j + (q - 1)] + m
      <4>1. m \in Nat
        OBVIOUS
      <4> QED
        BY <1>8, <2>2, <3>1, <4>1 DEF Shifted
    <3>3. N[j + q] = M[q]
      BY <1>3 DEF StandsAt
    <3>4. t[s[(j + q) - 1] + m] = N[j + q][m]
      BY <1>1, <3>1, <3>3 DEF Ends
    <3>5. u[r[q - 1] + m] = M[q][m]
      BY <1>2 DEF Ends
    <3> QED
      BY <2>2, <3>1, <3>2, <3>3, <3>4, <3>5
  <2>3. Covered(M, r, k)
    BY <1>2, EndsCover
  <2> QED
    BY <2>1, <2>2, <2>3 DEF Covered
<1> QED
  <2>1. t \in Seq(Characters) /\ u \in Seq(Characters)
    BY DEF Text
  <2> QED
    BY <1>9, <1>10, <2>1, ContainsAt DEF StandsAt

(* A text that stands in another begins and ends at slashes of it, and so  *)
(* do its names.                                                           *)
LEMMA TextsThenNames ==
  ASSUME NEW t \in Text, NEW u \in Text, NEW N \in Seq(Text), NEW M \in Seq(Text),
         Spells(t, N), Spells(u, M), ContainsText(t, u)
  PROVE  ContainsText(N, M)
<1>1. PICK s : Ends(t, N, s) /\ s[Len(N)] = Len(t)
  BY DEF Spells
<1>2. PICK r : Ends(u, M, r) /\ r[Len(M)] = Len(u)
  BY DEF Spells
<1>3. PICK i \in 0 .. Len(t) - Len(u) : StandsAt(t, u, i)
  <2>1. t \in Seq(Characters) /\ u \in Seq(Characters)
    BY DEF Text
  <2> QED
    BY <2>1, ContainsAt
<1>4. /\ Len(N) \in Nat /\ \A q \in 0 .. Len(N) : s[q] \in Nat /\ s[q] >= 1 /\ t[s[q]] = Slash
      /\ Len(M) \in Nat /\ \A q \in 0 .. Len(M) : r[q] \in Nat /\ r[q] >= 1 /\ u[r[q]] = Slash
  BY <1>1, <1>2, EndsType
<1>5. /\ Len(t) \in Nat /\ Len(u) \in Nat /\ Len(u) >= 1 /\ i \in Nat
      /\ i + Len(u) <= Len(t)
  <2>1. Len(t) \in Nat /\ Len(u) \in Nat
    BY DEF Text
  <2>2. Len(u) >= 1
    BY <1>2, <1>4
  <2> QED
    BY <2>1, <2>2
<1>6. r[0] = 1 /\ u[1] = Slash
  BY <1>2 DEF Ends
<1>7. PICK j \in 0 .. Len(N) : i + 1 = s[j]
  <2>1. t[i + 1] = Slash /\ i + 1 \in 1 .. s[Len(N)]
    BY <1>1, <1>3, <1>5, <1>6 DEF StandsAt
  <2> QED
    BY <1>1, <2>1, SlashEnds
<1> DEFINE S == {q \in 0 .. Len(M) :
                   /\ j + q <= Len(N) /\ s[j + q] = i + r[q]
                   /\ q > 0 => N[j + q] = M[q]}
<1>8. 0 \in S
  <2>1. j + 0 = j
    BY <1>4
  <2> QED
    BY <1>4, <1>6, <1>7, <2>1
<1>9. ASSUME NEW q \in 0 .. Len(M) - 1, q \in S PROVE q + 1 \in S
  <2> DEFINE name == N[j + (q + 1)]
             part == M[q + 1]
  <2>1. /\ j + q <= Len(N) /\ s[j + q] = i + r[q]
        /\ q + 1 \in 1 .. Len(M) /\ q + 1 \in 0 .. Len(M) /\ q \in 0 .. Len(M)
        /\ (q + 1) - 1 = q /\ q \in Nat /\ j \in Nat /\ j + q \in 0 .. Len(N)
    BY <1>4, <1>9
  <2>2. r[q + 1] = r[q] + Len(part) + 1 /\ u[r[q + 1]] = Slash
    BY <1>2, <2>1 DEF Ends
  <2>3. \A k \in 1 .. Len(part) : u[r[q] + k] = part[k] /\ part[k] # Slash
    BY <1>2, <2>1, SMTT(40) DEF Ends
  <2>4. part \in Text /\ Len(part) \in Nat
    BY <2>1, ElementOfSeq DEF Text
  <2>5. r[q] \in Nat /\ r[q] >= 1 /\ r[q + 1] <= Len(u)
    <3>1. Len(M) \in q + 1 .. Len(M)
      BY <1>4, <2>1
    <3> QED
      BY <1>2, <1>4, <2>1, <3>1, EndsGrow
  <2>6. j + q # Len(N)
    <3> SUFFICES ASSUME j + q = Len(N) PROVE FALSE
      OBVIOUS
    <3>1. Len(t) = i + r[q]
      BY <1>1, <2>1
    <3> HIDE DEF part
    <3> QED
      BY <1>5, <2>2, <2>4, <2>5, <3>1, SMTT(40)
  <2>7. /\ j + (q + 1) \in 1 .. Len(N) /\ (j + (q + 1)) - 1 = j + q
        /\ j + (q + 1) <= Len(N)
    BY <1>4, <2>1, <2>6
  <2>8. s[j + (q + 1)] = s[j + q] + Len(name) + 1 /\ t[s[j + (q + 1)]] = Slash
    BY <1>1, <2>7 DEF Ends
  <2>9. \A k \in 1 .. Len(name) : t[s[j + q] + k] = name[k] /\ name[k] # Slash
    BY <1>1, <2>7, SMTT(40) DEF Ends
  <2>10. name \in Text /\ Len(name) \in Nat
    BY <2>7, ElementOfSeq DEF Text
  <2> HIDE DEF name, part
  <2>11. \A k \in 1 .. Len(part) + 1 : t[s[j + q] + k] = u[r[q] + k]
    <3> TAKE k \in 1 .. Len(part) + 1
    <3>1. r[q] + k \in 1 .. Len(u)
      <4>1. k \in 1 .. Len(part) + 1 /\ r[q] + Len(part) + 1 <= Len(u)
        BY <2>2, <2>5
      <4> QED
        BY <1>5, <2>4, <2>5, <4>1, SMTT(40)
    <3>2. t[i + (r[q] + k)] = u[r[q] + k]
      BY <1>3, <3>1 DEF StandsAt
    <3>3. i + (r[q] + k) = s[j + q] + k
      BY <1>5, <2>1, <2>4, <2>5, SMTT(40)
    <3> QED
      BY <3>2, <3>3
  <2>12. ~(Len(name) < Len(part))
    <3> SUFFICES ASSUME Len(name) < Len(part) PROVE FALSE
      OBVIOUS
    <3> DEFINE k == Len(name) + 1
    <3>1. k \in 1 .. Len(part) /\ k \in 1 .. Len(part) + 1
      BY <2>4, <2>10
    <3>2. t[s[j + q] + k] = part[k] /\ part[k] # Slash
      BY <2>3, <2>11, <3>1
    <3>3. s[j + (q + 1)] = s[j + q] + k
      <4>1. s[j + q] \in Nat
        BY <1>4, <2>1
      <4> QED
        BY <2>8, <2>10, <4>1, SMTT(40)
    <3> QED
      BY <2>8, <3>2, <3>3
  <2>13. ~(Len(part) < Len(name))
    <3> SUFFICES ASSUME Len(part) < Len(name) PROVE FALSE
      OBVIOUS
    <3> DEFINE k == Len(part) + 1
    <3>1. k \in 1 .. Len(name) /\ k \in 1 .. Len(part) + 1
      BY <2>4, <2>10
    <3>2. t[s[j + q] + k] # Slash /\ t[s[j + q] + k] = u[r[q] + k]
      BY <2>9, <2>11, <3>1
    <3>3. r[q + 1] = r[q] + k
      BY <2>2, <2>4, <2>5, SMTT(40)
    <3> QED
      BY <2>2, <3>2, <3>3
  <2>14. Len(name) = Len(part)
    BY <2>4, <2>10, <2>12, <2>13
  <2>15. name = part
    <3>1. \A k \in 1 .. Len(name) : name[k] = part[k]
      BY <2>3, <2>4, <2>9, <2>11, <2>14
    <3>2. name \in Seq(Characters) /\ part \in Seq(Characters)
      BY <2>4, <2>10 DEF Text
    <3> QED
      BY <2>14, <3>1, <3>2, SeqEqual
  <2>16. s[j + (q + 1)] = i + r[q + 1]
    BY <1>5, <2>1, <2>2, <2>4, <2>5, <2>8, <2>14, SMTT(40)
  <2> QED
    BY <2>1, <2>7, <2>15, <2>16 DEF name, part
<1>10. \A q \in 0 .. Len(M) : q \in S
  <2> HIDE DEF S
  <2> QED
    BY <1>4, <1>8, <1>9, IntervalInduction
<1>11. Len(M) \in S /\ \A q \in 1 .. Len(M) : q \in S
  <2>1. Len(M) \in 0 .. Len(M) /\ \A q \in 1 .. Len(M) : q \in 0 .. Len(M)
    BY <1>4
  <2> HIDE DEF S
  <2> QED
    BY <1>10, <2>1
<1>12. j \in 0 .. Len(N) - Len(M) /\ \A q \in 1 .. Len(M) : N[j + q] = M[q]
  <2>1. j + Len(M) <= Len(N)
    BY <1>11
  <2>2. \A q \in 1 .. Len(M) : N[j + q] = M[q]
    BY <1>11
  <2> QED
    BY <1>4, <2>1, <2>2
<1> QED
  BY <1>12, ContainsAt DEF StandsAt

(* The search of matchAppByRepoAndFiles for texts is one for names: a      *)
(* cleaned path stands in a cleaned file if and only if the names of the   *)
(* path stand in a row among the file's.  A directory whose name begins or *)
(* ends like another's is never taken for it.                              *)
THEOREM SearchIsOfNames ==
  ASSUME Slash \in Characters, NEW file \in Text, NEW path \in Text,
         IsPath(file), IsPath(path)
  PROVE  ContainsText(cleanPaths(file), cleanPaths(path)) <=> PassesThrough(file, path)
<1>1. cleanPaths(file) \in Text /\ cleanPaths(path) \in Text
  BY CleanBetweenSlashes DEF IsPath
<1>2. /\ Names(file) \in Seq(Text) /\ Spells(cleanPaths(file), Names(file))
      /\ Names(path) \in Seq(Text) /\ Spells(cleanPaths(path), Names(path))
  BY CleanSpells
<1> QED
  BY <1>1, <1>2, NamesThenTexts, TextsThenNames DEF PassesThrough

(* The old path of a file that was added, the new one of one that was      *)
(* removed: nothing is found in it.                                        *)
LEMMA NothingInNone ==
  ASSUME Slash \in Characters, NEW path \in Text, path # <<>>
  PROVE  ~ContainsText(cleanPaths(<<>>), cleanPaths(path))
<1>1. cleanPaths(<<>>) = <<>> /\ Len(<<>>) = 0
  BY CleanSteps, EmptySeq DEF Undotted, Rooted, Closed
<1>2. Len(cleanPaths(path)) \in Nat /\ Len(cleanPaths(path)) > 0
  BY CleanBetweenSlashes DEF Text
<1> QED
  BY <1>1, <1>2 DEF ContainsText
=============================================================================
