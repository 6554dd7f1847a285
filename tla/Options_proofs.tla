---------------------------- MODULE Options_proofs ----------------------------
(***************************************************************************)
(* Proofs about the command line: what the options parser makes of the     *)
(* words that the control script makes of a configuration file.            *)
(***************************************************************************)
EXTENDS Options, SequenceTheorems, WellFoundedInduction, TLAPS

-----------------------------------------------------------------------------
(* Parsing words one after the other *)

\* Induction over the natural numbers, for a set.
LEMMA SetInduction ==
  ASSUME NEW S, 0 \in S, \A n \in Nat : n \in S => n + 1 \in S
  PROVE  Nat \subseteq S
<1>. SUFFICES ASSUME Nat \ S # {} PROVE FALSE
  OBVIOUS
<1>1. PICK n \in Nat \ S : \A m \in Nat \ S : ~(<<m, n>> \in OpToRel(<, Nat))
  BY NatLessThanWellFounded, WFMin, Nat \ S \subseteq Nat
<1>2. n # 0 /\ n - 1 \in Nat
  OBVIOUS
<1>3. <<n - 1, n>> \in OpToRel(<, Nat)
  <2>1. <<n - 1, n>> \in Nat \X Nat /\ n - 1 < n
    BY <1>2
  <2>. QED
    BY <2>1 DEF OpToRel
<1>4. n - 1 \in S
  BY <1>1, <1>2, <1>3
<1>5. (n - 1) + 1 = n /\ n \in Nat /\ n \notin S
  OBVIOUS
<1>. QED
  BY <1>2, <1>4, <1>5

\* The recursive function of ParsedFrom, up to the word k.
Steps(parsed, words, k, after) ==
  /\ DOMAIN after = 0..k
  /\ after[0] = parsed
  /\ \A n \in 1..k : after[n] = ParseWord(after[n - 1], words[n])

\* There is such a function for every number of words.
LEMMA StepsExist ==
  ASSUME NEW parsed, NEW words, NEW k \in Nat
  PROVE  \E after : Steps(parsed, words, k, after)
<1>. DEFINE S == {n \in Nat : \E after : Steps(parsed, words, n, after)}
<1>1. 0 \in S
  <2>1. Steps(parsed, words, 0, [n \in 0..0 |-> parsed])
    BY DEF Steps
  <2>. QED
    BY <2>1
<1>2. ASSUME NEW n \in Nat, n \in S PROVE n + 1 \in S
  <2>1. PICK after : Steps(parsed, words, n, after)
    BY <1>2
  <2>. DEFINE next == [m \in 0..(n + 1) |-> IF m = n + 1 THEN ParseWord(after[n], words[n + 1])
                                            ELSE after[m]]
  <2>2. DOMAIN next = 0..(n + 1) /\ next[0] = parsed
    BY <2>1 DEF Steps
  <2>3. ASSUME NEW m \in 1..(n + 1) PROVE next[m] = ParseWord(next[m - 1], words[m])
    <3>1. CASE m = n + 1
      <4>1. next[m] = ParseWord(after[n], words[n + 1]) /\ next[m - 1] = after[n]
        BY <3>1
      <4>. QED
        BY <3>1, <4>1
    <3>2. CASE m # n + 1
      <4>1. m \in 1..n /\ next[m] = after[m] /\ next[m - 1] = after[m - 1]
        BY <3>2
      <4>2. after[m] = ParseWord(after[m - 1], words[m])
        BY <2>1, <4>1 DEF Steps
      <4>. QED
        BY <4>1, <4>2
    <3>. QED
      BY <3>1, <3>2
  <2>. HIDE DEF next
  <2>4. Steps(parsed, words, n + 1, next)
    BY <2>2, <2>3 DEF Steps
  <2>. QED
    BY <2>4
<1>. HIDE DEF S
<1>3. Nat \subseteq S
  BY <1>1, <1>2, SetInduction
<1>. QED
  BY <1>3 DEF S

\* ... and no other one.
LEMMA StepsUnique ==
  ASSUME NEW parsed, NEW words, NEW k \in Nat, NEW f, NEW g,
         Steps(parsed, words, k, f), Steps(parsed, words, k, g),
         NEW n \in 0..k
  PROVE  f[n] = g[n]
<1>. DEFINE S == {m \in Nat : m <= k => f[m] = g[m]}
<1>1. 0 \in S
  BY DEF Steps
<1>2. ASSUME NEW m \in Nat, m \in S PROVE m + 1 \in S
  <2>1. SUFFICES ASSUME m + 1 <= k PROVE f[m + 1] = g[m + 1]
    OBVIOUS
  <2>2. f[m] = g[m] /\ m + 1 \in 1..k /\ (m + 1) - 1 = m
    BY <1>2, <2>1
  <2>3. /\ f[m + 1] = ParseWord(f[(m + 1) - 1], words[m + 1])
        /\ g[m + 1] = ParseWord(g[(m + 1) - 1], words[m + 1])
    BY <2>2 DEF Steps
  <2>. QED
    BY <2>2, <2>3
<1>. HIDE DEF S
<1>3. Nat \subseteq S
  BY <1>1, <1>2, SetInduction
<1>. QED
  BY <1>3 DEF S

\* What is parsed is the last step, whoever takes the steps.
LEMMA LastStep ==
  ASSUME NEW parsed, NEW words \in Seq(AWord), NEW f, Steps(parsed, words, Len(words), f)
  PROVE  ParsedFrom(parsed, words) = f[Len(words)]
<1>. DEFINE k == Len(words)
            Rec(after) == after = [n \in 0..k |-> IF n = 0 THEN parsed
                                                  ELSE ParseWord(after[n - 1], words[n])]
            after0 == CHOOSE after : Rec(after)
<1>1. k \in Nat
  OBVIOUS
<1>2. Rec(f)
  <2>. DEFINE g == [n \in 0..k |-> IF n = 0 THEN parsed ELSE ParseWord(f[n - 1], words[n])]
  <2>. f = [n \in 0..k |-> f[n]]
    BY DEF Steps
  <2>. QED
    BY <1>1 DEF Steps
<1>3. Rec(after0)
  BY <1>2
<1>. HIDE DEF after0
<1>4. Steps(parsed, words, k, after0)
  <2>1. \A n \in 0..k : after0[n] = IF n = 0 THEN parsed ELSE ParseWord(after0[n - 1], words[n])
    BY <1>3
  <2>2. DOMAIN after0 = 0..k
    BY <1>3
  <2>. QED
    BY <1>1, <2>1, <2>2 DEF Steps
<1>5. ParsedFrom(parsed, words) = after0[k]
  BY DEF ParsedFrom, after0
<1>. QED
  BY <1>1, <1>4, <1>5, StepsUnique

\* No words leave everything as it is; one word is parsed as such; and words after
\* others start from what is parsed of the others.
LEMMA ParsedFromNone ==
  ASSUME NEW parsed
  PROVE  ParsedFrom(parsed, <<>>) = parsed
<1>1. PICK f : Steps(parsed, <<>>, 0, f)
  BY StepsExist
<1>2. <<>> \in Seq(AWord) /\ Len(<<>>) = 0
  OBVIOUS
<1>3. ParsedFrom(parsed, <<>>) = f[0]
  BY <1>1, <1>2, LastStep
<1>. QED
  BY <1>1, <1>3 DEF Steps

LEMMA ParsedFromAppend ==
  ASSUME NEW parsed, NEW words \in Seq(AWord), NEW word \in AWord
  PROVE  ParsedFrom(parsed, Append(words, word)) = ParseWord(ParsedFrom(parsed, words), word)
<1>. DEFINE k == Len(words)  longer == Append(words, word)
<1>1. k \in Nat /\ longer \in Seq(AWord) /\ Len(longer) = k + 1 /\ longer[k + 1] = word
  OBVIOUS
<1>2. \A n \in 1..k : longer[n] = words[n]
  OBVIOUS
<1>. HIDE DEF longer
<1>3. PICK f : Steps(parsed, longer, k + 1, f)
  BY <1>1, StepsExist
<1>. DEFINE g == [n \in 0..k |-> f[n]]
<1>4. Steps(parsed, words, k, g)
  BY <1>1, <1>2, <1>3 DEF Steps
<1>5. g[k] = f[k]
  BY <1>1
<1>. HIDE DEF g
<1>6. ParsedFrom(parsed, words) = g[k]
  BY <1>4, LastStep
<1>7. ParsedFrom(parsed, longer) = f[k + 1]
  BY <1>1, <1>3, LastStep
<1>8. f[k + 1] = ParseWord(f[k], word)
  <2>1. f[k + 1] = ParseWord(f[(k + 1) - 1], longer[k + 1])
    BY <1>1, <1>3 DEF Steps
  <2>. QED
    BY <1>1, <2>1
<1>. QED
  BY <1>5, <1>6, <1>7, <1>8 DEF longer

LEMMA ParsedFromConcat ==
  ASSUME NEW parsed, NEW first \in Seq(AWord), NEW second \in Seq(AWord)
  PROVE  ParsedFrom(parsed, first \o second) = ParsedFrom(ParsedFrom(parsed, first), second)
<1>. DEFINE S == {n \in Nat : \A words \in Seq(AWord) : Len(words) = n =>
                    ParsedFrom(parsed, first \o words)
                      = ParsedFrom(ParsedFrom(parsed, first), words)}
<1>1. 0 \in S
  <2>. SUFFICES ASSUME NEW words \in Seq(AWord), Len(words) = 0
                PROVE  ParsedFrom(parsed, first \o words)
                         = ParsedFrom(ParsedFrom(parsed, first), words)
    OBVIOUS
  <2>1. words = <<>> /\ first \o words = first
    BY EmptySeq, ConcatEmptySeq
  <2>. QED
    BY <2>1, ParsedFromNone
<1>2. ASSUME NEW n \in Nat, n \in S PROVE n + 1 \in S
  <2>. SUFFICES ASSUME NEW words \in Seq(AWord), Len(words) = n + 1
                PROVE  ParsedFrom(parsed, first \o words)
                         = ParsedFrom(ParsedFrom(parsed, first), words)
    OBVIOUS
  <2>. DEFINE front == SubSeq(words, 1, n)  last == words[n + 1]
  <2>1. front \in Seq(AWord) /\ Len(front) = n /\ last \in AWord
    OBVIOUS
  <2>2. words = Append(front, last)
    OBVIOUS
  <2>. HIDE DEF front, last
  <2>3. first \o words = Append(first \o front, last) /\ first \o front \in Seq(AWord)
    BY <2>1, <2>2
  <2>4. ParsedFrom(parsed, first \o words) = ParseWord(ParsedFrom(parsed, first \o front), last)
    BY <2>1, <2>3, ParsedFromAppend
  <2>5. ParsedFrom(parsed, first \o front) = ParsedFrom(ParsedFrom(parsed, first), front)
    BY <1>2, <2>1
  <2>6. ParsedFrom(ParsedFrom(parsed, first), words)
          = ParseWord(ParsedFrom(ParsedFrom(parsed, first), front), last)
    BY <2>1, <2>2, ParsedFromAppend
  <2>. QED
    BY <2>4, <2>5, <2>6
<1>. HIDE DEF S
<1>3. Nat \subseteq S
  BY <1>1, <1>2, SetInduction
<1>4. Len(second) \in S
  BY <1>3
<1>. QED
  BY <1>4 DEF S

-----------------------------------------------------------------------------
(* Options with their arguments *)

Valued == Numbers \union Texts

Between == [given : SUBSET Known, arguments : [Valued -> Seq(AWord)], awaits : {NoOption}]

\* What the script writes after an option that takes an argument.
Said(cfg, option) == IF option \in Unquoted THEN cfg.words[option] ELSE <<Text>>

\* Options are given, with the first of the words that the script writes after them.
After(cfg, parsed, options) ==
  [given     |-> parsed.given \union options,
   arguments |-> [option \in Valued |-> IF option \in options THEN <<Said(cfg, option)[1]>>
                                        ELSE parsed.arguments[option]],
   awaits    |-> NoOption]

Takes(cfg, words, options) ==
  /\ words \in Seq(AWord) /\ options \subseteq Known
  /\ \A option \in options \intersect Valued : Said(cfg, option) # <<>>
  /\ \A parsed \in Between : ParsedFrom(parsed, words) = After(cfg, parsed, options)

LEMMA OptionKinds ==
  /\ Numbers \intersect Texts = {} /\ Numbers \intersect Flags = {} /\ Texts \intersect Flags = {}
  /\ NoOption \notin Known /\ Unknown \notin Known /\ NoOption # Unknown
  BY DEF Known, Numbers, Texts, Flags, NoOption, Unknown

LEMMA WordsAreWords ==
  /\ \A option \in Known : Option(option) \in AWord
  /\ \A n \in Int : Word(n) \in AWord
  /\ Text \in AWord /\ Text.option = NoOption
  BY DEF Option, Word, Text, AWord

LEMMA SaidIsWords ==
  ASSUME NEW cfg \in ConfigFile, NEW option \in Valued
  PROVE  Said(cfg, option) \in Seq(AWord)
<1>1. <<Text>> \in Seq(AWord)
  BY WordsAreWords
<1>2. option \in Unquoted => cfg.words[option] \in Seq(AWord)
  BY DEF ConfigFile
<1>. QED
  BY <1>1, <1>2 DEF Said

LEMMA AfterIsBetween ==
  ASSUME NEW cfg \in ConfigFile, NEW parsed \in Between, NEW options \in SUBSET Known,
         \A option \in options \intersect Valued : Said(cfg, option) # <<>>
  PROVE  After(cfg, parsed, options) \in Between
<1>1. ASSUME NEW option \in Valued, option \in options PROVE <<Said(cfg, option)[1]>> \in Seq(AWord)
  <2>1. Said(cfg, option) \in Seq(AWord) /\ Said(cfg, option) # <<>>
    BY <1>1, SaidIsWords
  <2>2. Said(cfg, option)[1] \in AWord
    BY <2>1, EmptySeq
  <2>. QED
    BY <2>2
<1>2. [option \in Valued |-> IF option \in options THEN <<Said(cfg, option)[1]>>
                             ELSE parsed.arguments[option]] \in [Valued -> Seq(AWord)]
  BY <1>1 DEF Between
<1>. QED
  BY <1>2 DEF After, Between

\* No option at all; a flag.
LEMMA TakesNothing ==
  ASSUME NEW cfg \in ConfigFile
  PROVE  Takes(cfg, <<>>, {})
<1>1. ASSUME NEW parsed \in Between PROVE After(cfg, parsed, {}) = parsed
  BY DEF After, Between
<1>. QED
  BY <1>1, ParsedFromNone DEF Takes

LEMMA ParsedFromOne ==
  ASSUME NEW parsed, NEW word \in AWord
  PROVE  ParsedFrom(parsed, <<word>>) = ParseWord(parsed, word)
<1>. DEFINE none == <<>>
<1>1. <<word>> = Append(none, word) /\ none \in Seq(AWord)
  OBVIOUS
<1>2. ParsedFrom(parsed, none) = parsed
  BY ParsedFromNone
<1>. HIDE DEF none
<1>3. ParsedFrom(parsed, Append(none, word)) = ParseWord(ParsedFrom(parsed, none), word)
  BY <1>1, ParsedFromAppend
<1>. QED
  BY <1>1, <1>2, <1>3

LEMMA ParseOption ==
  ASSUME NEW parsed \in Between, NEW option \in Known
  PROVE  ParseWord(parsed, Option(option))
           = IF TakesArgument(option) THEN [parsed EXCEPT !.awaits = option]
             ELSE [parsed EXCEPT !.given = @ \union {option}]
<1>1. parsed.awaits = NoOption /\ Option(option).option = option
  BY DEF Between, Option
<1>2. NoOption \notin Numbers /\ NoOption \notin Texts /\ option # NoOption
  BY OptionKinds DEF Known
<1>. QED
  BY <1>1, <1>2 DEF ParseWord

LEMMA TakesFlag ==
  ASSUME NEW cfg \in ConfigFile, NEW option \in Flags
  PROVE  Takes(cfg, <<Option(option)>>, {option})
<1>1. option \in Known /\ option \notin Valued /\ ~TakesArgument(option)
  BY OptionKinds DEF Known, TakesArgument, Valued
<1>2. <<Option(option)>> \in Seq(AWord)
  BY <1>1, WordsAreWords
<1>3. ASSUME NEW parsed \in Between
      PROVE  ParsedFrom(parsed, <<Option(option)>>) = After(cfg, parsed, {option})
  <2>1. ParsedFrom(parsed, <<Option(option)>>) = [parsed EXCEPT !.given = @ \union {option}]
    BY <1>1, WordsAreWords, ParsedFromOne, ParseOption
  <2>. QED
    BY <1>1, <2>1 DEF After, Between
<1>. QED
  BY <1>1, <1>2, <1>3 DEF Takes

LEMMA ParsedFromPair ==
  ASSUME NEW parsed, NEW first \in AWord, NEW second \in AWord
  PROVE  /\ <<first>> \o <<second>> \in Seq(AWord)
         /\ ParsedFrom(parsed, <<first>> \o <<second>>) = ParseWord(ParseWord(parsed, first), second)
<1>. DEFINE one == <<first>>  two == <<second>>
<1>1. one \in Seq(AWord) /\ two \in Seq(AWord)
  OBVIOUS
<1>2. /\ ParsedFrom(parsed, one) = ParseWord(parsed, first)
      /\ ParsedFrom(ParseWord(parsed, first), two) = ParseWord(ParseWord(parsed, first), second)
  BY ParsedFromOne
<1>. HIDE DEF one, two
<1>3. one \o two \in Seq(AWord)
  BY <1>1
<1>4. ParsedFrom(parsed, one \o two) = ParsedFrom(ParsedFrom(parsed, one), two)
  BY <1>1, ParsedFromConcat
<1>. QED
  BY <1>2, <1>3, <1>4 DEF one, two

LEMMA ParseArgument ==
  ASSUME NEW parsed \in Between, NEW option \in Valued, NEW word \in AWord
  PROVE  ParseWord([parsed EXCEPT !.awaits = option], word)
           = [given |-> parsed.given \union {option},
              arguments |-> [parsed.arguments EXCEPT ![option] = <<word>>], awaits |-> NoOption]
<1>. DEFINE waiting == [given |-> parsed.given, arguments |-> parsed.arguments, awaits |-> option]
<1>1. [parsed EXCEPT !.awaits = option] = waiting
  BY DEF Between
<1>2. waiting.awaits = option /\ option # NoOption
  BY OptionKinds DEF Known, Valued
<1>. HIDE DEF waiting
<1>3. ParseWord(waiting, word)
        = [waiting EXCEPT !.given = @ \union {option}, !.awaits = NoOption,
                          !.arguments = [@ EXCEPT ![option] = <<word>>]]
  BY <1>2 DEF ParseWord
<1>. QED
  BY <1>1, <1>3 DEF waiting

\* Words that are no options are passed over where no argument is awaited.
LEMMA PassedOver ==
  ASSUME NEW parsed \in Between, NEW words \in Seq(AWord),
         \A i \in 1..Len(words) : words[i].option = NoOption
  PROVE  ParsedFrom(parsed, words) = parsed
<1>. DEFINE S == {n \in Nat : n <= Len(words) => ParsedFrom(parsed, SubSeq(words, 1, n)) = parsed}
<1>1. 0 \in S
  <2>1. SubSeq(words, 1, 0) = <<>>
    OBVIOUS
  <2>. QED
    BY <2>1, ParsedFromNone
<1>2. ASSUME NEW n \in Nat, n \in S PROVE n + 1 \in S
  <2>. SUFFICES ASSUME n + 1 <= Len(words)
                PROVE  ParsedFrom(parsed, SubSeq(words, 1, n + 1)) = parsed
    OBVIOUS
  <2>. DEFINE front == SubSeq(words, 1, n)  last == words[n + 1]
  <2>1. /\ front \in Seq(AWord) /\ last \in AWord /\ last.option = NoOption
        /\ SubSeq(words, 1, n + 1) = Append(front, last)
    OBVIOUS
  <2>2. ParsedFrom(parsed, front) = parsed
    BY <1>2
  <2>. HIDE DEF front, last
  <2>3. ParsedFrom(parsed, SubSeq(words, 1, n + 1)) = ParseWord(parsed, last)
    BY <2>1, <2>2, ParsedFromAppend
  <2>4. NoOption \notin Numbers /\ NoOption \notin Texts
    BY OptionKinds DEF Known
  <2>5. ParseWord(parsed, last) = [parsed EXCEPT !.given = @ \union {}]
    BY <2>1, <2>4 DEF ParseWord, TakesArgument, Between
  <2>. QED
    BY <2>3, <2>5 DEF Between
<1>. HIDE DEF S
<1>3. Nat \subseteq S
  BY <1>1, <1>2, SetInduction
<1>4. Len(words) \in S /\ Len(words) \in Nat
  BY <1>3
<1>5. SubSeq(words, 1, Len(words)) = words
  OBVIOUS
<1>6. ParsedFrom(parsed, SubSeq(words, 1, Len(words))) = parsed
  BY <1>4 DEF S
<1>. QED
  BY <1>5, <1>6

\* It makes no difference which two of three pieces are put together first.
LEMMA ConcatWords ==
  ASSUME NEW s \in Seq(AWord), NEW t \in Seq(AWord), NEW u \in Seq(AWord)
  PROVE  s \o (t \o u) = (s \o t) \o u
BY ConcatAssociative

\* An option with an argument: the first word is the argument, the others are passed over.
LEMMA TakesWords ==
  ASSUME NEW cfg \in ConfigFile, NEW option \in Valued, Said(cfg, option) # <<>>,
         \A i \in 2..Len(Said(cfg, option)) : Said(cfg, option)[i].option = NoOption
  PROVE  Takes(cfg, Always(option, Said(cfg, option)), {option})
<1>. DEFINE words == Said(cfg, option)
            start == <<Option(option)>>  first == <<words[1]>>
            rest  == [i \in 1..(Len(words) - 1) |-> words[i + 1]]
<1>1. words \in Seq(AWord) /\ Len(words) \in Nat /\ Len(words) >= 1 /\ words[1] \in AWord
  <2>1. words \in Seq(AWord)
    BY SaidIsWords
  <2>. HIDE DEF words
  <2>2. words # <<>>
    BY DEF words
  <2>. QED
    BY <2>1, <2>2, EmptySeq
<1>2. option \in Known /\ TakesArgument(option)
  BY DEF Known, Valued, TakesArgument
<1>3. start \in Seq(AWord) /\ first \in Seq(AWord) /\ start \o first \in Seq(AWord)
  BY <1>1, <1>2, WordsAreWords
<1>. HIDE DEF words
<1>4. ASSUME NEW i \in 1..(Len(words) - 1)
      PROVE  words[i + 1] \in AWord /\ words[i + 1].option = NoOption
  <2>1. i + 1 \in 2..Len(words) /\ words[i + 1] \in AWord
    BY <1>1
  <2>. QED
    BY <2>1 DEF words
<1>5. rest \in Seq(AWord) /\ Len(rest) = Len(words) - 1
      /\ \A i \in 1..Len(rest) : rest[i] = words[i + 1]
  BY <1>1, <1>4, IsASeq
<1>6. words = first \o rest
  <2>. HIDE DEF rest
  <2>. QED
    BY <1>1, <1>5
<1>. HIDE DEF rest, first, start
<1>7. start \o words = (start \o first) \o rest
  <2>1. start \in Seq(AWord) /\ first \in Seq(AWord) /\ rest \in Seq(AWord)
    BY <1>3, <1>5
  <2>2. start \o (first \o rest) = (start \o first) \o rest
    BY <2>1, ConcatWords
  <2>. QED
    BY <1>6, <2>2
<1>8. start \o words \in Seq(AWord)
  BY <1>3, <1>5, <1>7
<1>9. ASSUME NEW parsed \in Between
      PROVE  ParsedFrom(parsed, start \o words) = After(cfg, parsed, {option})
  <2>1. ParsedFrom(parsed, start \o first) = ParseWord(ParseWord(parsed, Option(option)), words[1])
    BY <1>1, <1>2, WordsAreWords, ParsedFromPair DEF start, first
  <2>2. ParseWord(parsed, Option(option)) = [parsed EXCEPT !.awaits = option]
    BY <1>2, ParseOption
  <2>3. ParsedFrom(parsed, start \o first)
          = [given |-> parsed.given \union {option},
             arguments |-> [parsed.arguments EXCEPT ![option] = <<words[1]>>], awaits |-> NoOption]
    BY <1>1, <2>1, <2>2, ParseArgument
  <2>4. [parsed.arguments EXCEPT ![option] = <<words[1]>>]
          = [o \in Valued |-> IF o \in {option} THEN <<Said(cfg, o)[1]>> ELSE parsed.arguments[o]]
    BY DEF Between, words
  <2>5. ParsedFrom(parsed, start \o first) = After(cfg, parsed, {option})
    BY <2>3, <2>4 DEF After
  <2>6. After(cfg, parsed, {option}) \in Between
    BY <1>2, AfterIsBetween
  <2>7. \A i \in 1..Len(rest) : rest[i].option = NoOption
    BY <1>4, <1>5
  <2>8. ParsedFrom(After(cfg, parsed, {option}), rest) = After(cfg, parsed, {option})
    BY <1>5, <2>6, <2>7, PassedOver
  <2>9. ParsedFrom(parsed, (start \o first) \o rest)
          = ParsedFrom(ParsedFrom(parsed, start \o first), rest)
    BY <1>3, <1>5, ParsedFromConcat
  <2>. QED
    BY <1>7, <2>5, <2>8, <2>9
<1>. QED
  BY <1>2, <1>8, <1>9 DEF Takes, Always, words, start

\* The script quotes a text, and a complete configuration file has words for what it
\* does not quote, without a dash after the first.
LEMMA TakesQuoted ==
  ASSUME NEW cfg \in ConfigFile, NEW option \in Texts \ {"err-log-file"}
  PROVE  Takes(cfg, Always(option, <<Text>>), {option})
<1>1. option \in Valued /\ option \notin Unquoted
  BY OptionKinds DEF Valued, Unquoted
<1>2. Said(cfg, option) = <<Text>> /\ <<Text>> # <<>> /\ 2..Len(<<Text>>) = {}
  BY <1>1 DEF Said
<1>. QED
  BY <1>1, <1>2, TakesWords

LEMMA TakesPlain ==
  ASSUME NEW cfg \in ConfigFile, Complete(cfg), NEW option \in Unquoted, cfg.words[option] # <<>>
  PROVE  Takes(cfg, Always(option, cfg.words[option]), {option})
<1>1. option \in Valued /\ Said(cfg, option) = cfg.words[option]
  BY DEF Said, Valued, Unquoted, Texts
<1>2. \A i \in 2..Len(cfg.words[option]) : cfg.words[option][i].option = NoOption
  BY DEF Complete
<1>. QED
  BY <1>1, <1>2, TakesWords

\* What words take, and words after them.
LEMMA TakesBoth ==
  ASSUME NEW cfg \in ConfigFile, NEW first, NEW second, NEW some, NEW more,
         Takes(cfg, first, some), Takes(cfg, second, more)
  PROVE  Takes(cfg, first \o second, some \union more)
<1>1. first \o second \in Seq(AWord) /\ some \union more \subseteq Known
  BY DEF Takes
<1>2. ASSUME NEW parsed \in Between
      PROVE  ParsedFrom(parsed, first \o second) = After(cfg, parsed, some \union more)
  <2>1. After(cfg, parsed, some) \in Between
    BY AfterIsBetween DEF Takes
  <2>2. ParsedFrom(parsed, first \o second) = After(cfg, After(cfg, parsed, some), more)
    BY <2>1, ParsedFromConcat DEF Takes
  <2>3. @ = After(cfg, parsed, some \union more)
    BY DEF After
  <2>. QED
    BY <2>2, <2>3
<1>. QED
  BY <1>1, <1>2 DEF Takes

-----------------------------------------------------------------------------
(* The command line *)

If(test, option) == IF test THEN {option} ELSE {}

LEMMA TakesIf ==
  ASSUME NEW cfg \in ConfigFile, NEW words, NEW test \in BOOLEAN, NEW option,
         test => Takes(cfg, words, {option})
  PROVE  Takes(cfg, IF test THEN words ELSE <<>>, If(test, option))
  BY TakesNothing DEF If

LEMMA TakesIfTrue ==
  ASSUME NEW cfg \in ConfigFile, NEW option \in Flags, NEW test \in BOOLEAN
  PROVE  Takes(cfg, IfTrue(option, test), If(test, option))
  BY TakesIf, TakesFlag DEF IfTrue

LEMMA TakesIfSet ==
  ASSUME NEW cfg \in ConfigFile, NEW option \in Unquoted, Complete(cfg)
  PROVE  Takes(cfg, IfSet(cfg, option), If(cfg.words[option] # <<>>, option))
<1>1. IsSet(cfg, option) <=> cfg.words[option] # <<>>
  BY DEF IsSet, Complete
<1>2. CASE cfg.words[option] = <<>>
  BY <1>1, <1>2, TakesNothing DEF IfSet, If
<1>3. CASE cfg.words[option] # <<>>
  BY <1>1, <1>3, TakesPlain DEF IfSet, If
<1>. QED
  BY <1>2, <1>3

\* What the optional part of the command line gives, ...
Optional(cfg) ==
  If(cfg.THREAD_MODEL = "INDEPENDENT", "independent-threads")
    \union If(cfg.THREAD_MODEL = "FIXED", "fixed-interval-threads")
    \union If(cfg.words["proc-run-time-warn"] # <<>>, "proc-run-time-warn")
    \union If(cfg.words["proc-run-time-max"] # <<>>, "proc-run-time-max")
    \union If(cfg.words["proc-term-timeout"] # <<>>, "proc-term-timeout")
    \union If(cfg.words["fixed-interval-wait"] # <<>>, "fixed-interval-wait")
    \union If(cfg.APPEND_THREAD_ID, "append-thread-id")
    \union If(cfg.words["err-log-file"] # <<>>, "err-log-file")
    \union If(cfg.RUN_ONCE, "run-once")
    \union If(cfg.TEST_FIRE, "test-fire")

\* ... and all of it.
Given(cfg, debug) ==
  {"log-file"} \union {"log-format"} \union {"command"} \union {"arguments"}
    \union {"working-directory"} \union {"pid-file"}
    \union {"sleep"} \union {"sleep-on-error"} \union {"threads"}
    \union If(TRUE, "daemonise") \union {"daemon-name"}
    \union If(debug, "debug") \union Optional(cfg)

\* The parameters that build_parameters adds.
LEMMA TakesParameters ==
  ASSUME NEW cfg \in ConfigFile, Complete(cfg)
  PROVE  Takes(cfg, Parameters(cfg), Optional(cfg))
<1>. DEFINE w1 == IfTrue("independent-threads", cfg.THREAD_MODEL = "INDEPENDENT")
            w2 == IfTrue("fixed-interval-threads", cfg.THREAD_MODEL = "FIXED")
            w3 == IfSet(cfg, "proc-run-time-warn")
            w4 == IfSet(cfg, "proc-run-time-max")
            w5 == IfSet(cfg, "proc-term-timeout")
            w6 == IfSet(cfg, "fixed-interval-wait")
            w7 == IfTrue("append-thread-id", cfg.APPEND_THREAD_ID)
            w8 == IfSet(cfg, "err-log-file")
            w9 == IfTrue("run-once", cfg.RUN_ONCE)
            w10 == IfTrue("test-fire", cfg.TEST_FIRE)
            s1 == If(cfg.THREAD_MODEL = "INDEPENDENT", "independent-threads")
            s2 == If(cfg.THREAD_MODEL = "FIXED", "fixed-interval-threads")
            s3 == If(cfg.words["proc-run-time-warn"] # <<>>, "proc-run-time-warn")
            s4 == If(cfg.words["proc-run-time-max"] # <<>>, "proc-run-time-max")
            s5 == If(cfg.words["proc-term-timeout"] # <<>>, "proc-term-timeout")
            s6 == If(cfg.words["fixed-interval-wait"] # <<>>, "fixed-interval-wait")
            s7 == If(cfg.APPEND_THREAD_ID, "append-thread-id")
            s8 == If(cfg.words["err-log-file"] # <<>>, "err-log-file")
            s9 == If(cfg.RUN_ONCE, "run-once")
            s10 == If(cfg.TEST_FIRE, "test-fire")
<1>1. Takes(cfg, w1, s1) /\ Takes(cfg, w2, s2)
  BY TakesIfTrue DEF Flags
<1>2. Takes(cfg, w3, s3) /\ Takes(cfg, w4, s4) /\ Takes(cfg, w5, s5) /\ Takes(cfg, w6, s6)
  BY TakesIfSet DEF Unquoted, Numbers
<1>3. Takes(cfg, w7, s7) /\ Takes(cfg, w9, s9) /\ Takes(cfg, w10, s10)
  BY TakesIfTrue DEF Flags, ConfigFile
<1>4. Takes(cfg, w8, s8)
  BY TakesIfSet DEF Unquoted
<1>. HIDE DEF w1, s1, w2, s2, w3, s3, w4, s4, w5, s5, w6, s6, w7, s7, w8, s8, w9, s9, w10, s10
<1>5. Takes(cfg, w1 \o w2,
                s1 \union s2)
  BY <1>1, <1>2, <1>3, <1>4, TakesBoth
<1>6. Takes(cfg, w1 \o w2 \o w3,
                s1 \union s2 \union s3)
  BY <1>1, <1>2, <1>3, <1>4, <1>5, TakesBoth
<1>7. Takes(cfg, w1 \o w2 \o w3 \o w4,
                s1 \union s2 \union s3 \union s4)
  BY <1>1, <1>2, <1>3, <1>4, <1>6, TakesBoth
<1>8. Takes(cfg, w1 \o w2 \o w3 \o w4 \o w5,
                s1 \union s2 \union s3 \union s4 \union s5)
  BY <1>1, <1>2, <1>3, <1>4, <1>7, TakesBoth
<1>9. Takes(cfg, w1 \o w2 \o w3 \o w4 \o w5 \o w6,
                s1 \union s2 \union s3 \union s4 \union s5 \union s6)
  BY <1>1, <1>2, <1>3, <1>4, <1>8, TakesBoth
<1>10. Takes(cfg, w1 \o w2 \o w3 \o w4 \o w5 \o w6 \o w7,
                s1 \union s2 \union s3 \union s4 \union s5 \union s6 \union s7)
  BY <1>1, <1>2, <1>3, <1>4, <1>9, TakesBoth
<1>11. Takes(cfg, w1 \o w2 \o w3 \o w4 \o w5 \o w6 \o w7 \o w8,
                s1 \union s2 \union s3 \union s4 \union s5 \union s6 \union s7 \union s8)
  BY <1>1, <1>2, <1>3, <1>4, <1>10, TakesBoth
<1>12. Takes(cfg, w1 \o w2 \o w3 \o w4 \o w5 \o w6 \o w7 \o w8 \o w9,
                s1 \union s2 \union s3 \union s4 \union s5 \union s6 \union s7 \union s8 \union s9)
  BY <1>1, <1>2, <1>3, <1>4, <1>11, TakesBoth
<1>13. Takes(cfg, w1 \o w2 \o w3 \o w4 \o w5 \o w6 \o w7 \o w8 \o w9 \o w10,
                s1 \union s2 \union s3 \union s4 \union s5 \union s6 \union s7 \union s8 \union s9 \union s10)
  BY <1>1, <1>2, <1>3, <1>4, <1>12, TakesBoth
<1>. QED
  BY <1>13 DEF Parameters, Optional,
       w1, s1, w2, s2, w3, s3, w4, s4, w5, s5, w6, s6, w7, s7, w8, s8, w9, s9, w10, s10

LEMMA TakesCommandLine ==
  ASSUME NEW cfg \in ConfigFile, Complete(cfg), NEW debug \in BOOLEAN
  PROVE  Takes(cfg, CommandLine(cfg, debug), Given(cfg, debug))
<1>. DEFINE w1 == Always("log-file", <<Text>>)
            w2 == Always("log-format", <<Text>>)
            w3 == Always("command", <<Text>>)
            w4 == Always("arguments", <<Text>>)
            w5 == Always("working-directory", <<Text>>)
            w6 == Always("pid-file", <<Text>>)
            w7 == Always("sleep", cfg.words["sleep"])
            w8 == Always("sleep-on-error", cfg.words["sleep-on-error"])
            w9 == Always("threads", cfg.words["threads"])
            w10 == IfTrue("daemonise", TRUE)
            w11 == Always("daemon-name", <<Text>>)
            w12 == IfTrue("debug", debug)
            w13 == Parameters(cfg)
            s1 == {"log-file"}
            s2 == {"log-format"}
            s3 == {"command"}
            s4 == {"arguments"}
            s5 == {"working-directory"}
            s6 == {"pid-file"}
            s7 == {"sleep"}
            s8 == {"sleep-on-error"}
            s9 == {"threads"}
            s10 == If(TRUE, "daemonise")
            s11 == {"daemon-name"}
            s12 == If(debug, "debug")
            s13 == Optional(cfg)
<1>1. Takes(cfg, w1, s1) /\ Takes(cfg, w2, s2) /\ Takes(cfg, w3, s3) /\ Takes(cfg, w4, s4) /\ Takes(cfg, w5, s5) /\ Takes(cfg, w6, s6) /\ Takes(cfg, w11, s11)
  BY TakesQuoted DEF Texts
<1>2. Takes(cfg, w7, s7) /\ Takes(cfg, w8, s8) /\ Takes(cfg, w9, s9)
  BY TakesPlain DEF Unquoted, Numbers, Complete
<1>3. Takes(cfg, w10, s10) /\ Takes(cfg, w12, s12)
  BY TakesIfTrue DEF Flags
<1>4. Takes(cfg, w13, s13)
  BY TakesParameters
<1>. HIDE DEF w1, s1, w2, s2, w3, s3, w4, s4, w5, s5, w6, s6, w7, s7, w8, s8, w9, s9, w10, s10, w11, s11, w12, s12, w13, s13
<1>5. Takes(cfg, w1 \o w2,
                s1 \union s2)
  BY <1>1, <1>2, <1>3, <1>4, TakesBoth
<1>6. Takes(cfg, w1 \o w2 \o w3,
                s1 \union s2 \union s3)
  BY <1>1, <1>2, <1>3, <1>4, <1>5, TakesBoth
<1>7. Takes(cfg, w1 \o w2 \o w3 \o w4,
                s1 \union s2 \union s3 \union s4)
  BY <1>1, <1>2, <1>3, <1>4, <1>6, TakesBoth
<1>8. Takes(cfg, w1 \o w2 \o w3 \o w4 \o w5,
                s1 \union s2 \union s3 \union s4 \union s5)
  BY <1>1, <1>2, <1>3, <1>4, <1>7, TakesBoth
<1>9. Takes(cfg, w1 \o w2 \o w3 \o w4 \o w5 \o w6,
                s1 \union s2 \union s3 \union s4 \union s5 \union s6)
  BY <1>1, <1>2, <1>3, <1>4, <1>8, TakesBoth
<1>10. Takes(cfg, w1 \o w2 \o w3 \o w4 \o w5 \o w6 \o w7,
                s1 \union s2 \union s3 \union s4 \union s5 \union s6 \union s7)
  BY <1>1, <1>2, <1>3, <1>4, <1>9, TakesBoth
<1>11. Takes(cfg, w1 \o w2 \o w3 \o w4 \o w5 \o w6 \o w7 \o w8,
                s1 \union s2 \union s3 \union s4 \union s5 \union s6 \union s7 \union s8)
  BY <1>1, <1>2, <1>3, <1>4, <1>10, TakesBoth
<1>12. Takes(cfg, w1 \o w2 \o w3 \o w4 \o w5 \o w6 \o w7 \o w8 \o w9,
                s1 \union s2 \union s3 \union s4 \union s5 \union s6 \union s7 \union s8 \union s9)
  BY <1>1, <1>2, <1>3, <1>4, <1>11, TakesBoth
<1>13. Takes(cfg, w1 \o w2 \o w3 \o w4 \o w5 \o w6 \o w7 \o w8 \o w9 \o w10,
                s1 \union s2 \union s3 \union s4 \union s5 \union s6 \union s7 \union s8 \union s9 \union s10)
  BY <1>1, <1>2, <1>3, <1>4, <1>12, TakesBoth
<1>14. Takes(cfg, w1 \o w2 \o w3 \o w4 \o w5 \o w6 \o w7 \o w8 \o w9 \o w10 \o w11,
                s1 \union s2 \union s3 \union s4 \union s5 \union s6 \union s7 \union s8 \union s9 \union s10 \union s11)
  BY <1>1, <1>2, <1>3, <1>4, <1>13, TakesBoth
<1>15. Takes(cfg, w1 \o w2 \o w3 \o w4 \o w5 \o w6 \o w7 \o w8 \o w9 \o w10 \o w11 \o w12,
                s1 \union s2 \union s3 \union s4 \union s5 \union s6 \union s7 \union s8 \union s9 \union s10 \union s11 \union s12)
  BY <1>1, <1>2, <1>3, <1>4, <1>14, TakesBoth
<1>16. Takes(cfg, w1 \o w2 \o w3 \o w4 \o w5 \o w6 \o w7 \o w8 \o w9 \o w10 \o w11 \o w12 \o w13,
                s1 \union s2 \union s3 \union s4 \union s5 \union s6 \union s7 \union s8 \union s9 \union s10 \union s11 \union s12 \union s13)
  BY <1>1, <1>2, <1>3, <1>4, <1>15, TakesBoth
<1>. QED
  BY <1>16 DEF CommandLine, Given,
       w1, s1, w2, s2, w3, s3, w4, s4, w5, s5, w6, s6, w7, s7, w8, s8, w9, s9, w10, s10, w11, s11, w12, s12, w13, s13

\* The program accepts the command line that the script makes of a configuration
\* file that sets what the script relies on, and takes from it the settings that the
\* file asks for: scripts/fatcontrollerd and dgetopts.c agree on such files.  They do
\* not on one without THREADS, or with a space in ERR_LOG_FILE.
THEOREM CommandLineSaysWhatIsConfigured ==
  ASSUME NEW cfg \in ConfigFile, Complete(cfg), NEW debug \in BOOLEAN
  PROVE  /\ Accepts(CommandLine(cfg, debug))
         /\ SettingsOf(CommandLine(cfg, debug)) = Configured(cfg, debug)
<1>. DEFINE words == CommandLine(cfg, debug)  given == Given(cfg, debug)
            start == [given |-> {}, arguments |-> NoArguments, awaits |-> NoOption]
<1>1. Takes(cfg, words, given)
  BY TakesCommandLine
<1>2. start \in Between
  BY DEF Between, NoArguments, Valued
<1>. HIDE DEF words, given
<1>3. Parse(words) = After(cfg, start, given)
  BY <1>1, <1>2 DEF Parse, Takes
<1>4. /\ Parse(words).given = given /\ Parse(words).awaits = NoOption
      /\ \A option \in Valued : Parse(words).arguments[option]
           = IF option \in given THEN <<Said(cfg, option)[1]>> ELSE <<>>
  <2>1. start.given = {} /\ start.arguments = NoArguments
    OBVIOUS
  <2>2. \A option \in Valued : NoArguments[option] = <<>>
    BY DEF NoArguments, Valued
  <2>. HIDE DEF start
  <2>3. /\ Parse(words).given = start.given \union given /\ Parse(words).awaits = NoOption
        /\ \A option \in Valued : Parse(words).arguments[option]
             = IF option \in given THEN <<Said(cfg, option)[1]>> ELSE start.arguments[option]
    BY <1>3 DEF After
  <2>. QED
    BY <2>1, <2>2, <2>3
<1>5. given \subseteq Known
  BY <1>1 DEF Takes
<1>6. /\ {"command", "log-file", "pid-file", "working-directory", "daemonise", "sleep",
           "sleep-on-error", "threads"} \subseteq given
      /\ "help" \notin given
  BY DEF given, Given, Optional, If
<1>7. /\ "independent-threads" \in given <=> cfg.THREAD_MODEL = "INDEPENDENT"
      /\ "fixed-interval-threads" \in given <=> cfg.THREAD_MODEL = "FIXED"
  BY DEF given, Given, Optional, If
<1>8. \A option \in Unquoted : option \in given <=> cfg.words[option] # <<>>
  BY DEF given, Given, Optional, If, Unquoted, Numbers, Complete
<1>9. given \intersect Switches = Configured(cfg, debug).switches
  BY DEF given, Given, Optional, If, Switches, Configured
<1>10. ASSUME NEW option \in Unquoted
       PROVE  /\ cfg.words[option] \in Seq(AWord)
              /\ Parse(words).arguments[option]
                   = IF cfg.words[option] = <<>> THEN <<>> ELSE <<cfg.words[option][1]>>
  <2>1. option \in Valued /\ Said(cfg, option) = cfg.words[option]
    BY DEF Valued, Unquoted, Texts, Said
  <2>2. cfg.words[option] \in Seq(AWord)
    BY DEF ConfigFile
  <2>. QED
    BY <1>4, <1>8, <2>1, <2>2
<1>11. words # <<>>
  <2>1. Parse(<<>>).given = {}
    BY ParsedFromNone DEF Parse
  <2>. QED
    BY <1>4, <1>6, <2>1
<1>12. Accepts(words)
  BY <1>4, <1>5, <1>6, <1>7, <1>11 DEF Accepts
<1>13. SettingsOf(words).numbers = Configured(cfg, debug).numbers
  <2>1. ASSUME NEW option \in Numbers
        PROVE  Number(option, Parse(words).arguments[option]) = Number(option, cfg.words[option])
    <3>1. option \in Unquoted
      BY DEF Unquoted
    <3>2. CASE cfg.words[option] = <<>>
      BY <1>10, <3>1, <3>2
    <3>3. CASE cfg.words[option] # <<>>
      <4>1. Parse(words).arguments[option] = <<cfg.words[option][1]>>
        BY <1>10, <3>1, <3>3
      <4>2. <<cfg.words[option][1]>> # <<>> /\ <<cfg.words[option][1]>>[1] = cfg.words[option][1]
        OBVIOUS
      <4>. QED
        BY <3>3, <4>1, <4>2 DEF Number
    <3>. QED
      BY <3>2, <3>3
  <2>. QED
    BY <2>1 DEF SettingsOf, Configured
<1>14. SettingsOf(words).threadModel = Configured(cfg, debug).threadModel
  <2>1. cfg.THREAD_MODEL \in {"DEPENDENT", "INDEPENDENT", "FIXED"}
    BY DEF ConfigFile
  <2>. QED
    BY <1>4, <1>7, <2>1 DEF SettingsOf, Configured
<1>15. SettingsOf(words).errlogfile = Configured(cfg, debug).errlogfile
  <2>. DEFINE name == cfg.words["err-log-file"]
  <2>1. /\ name \in Seq(AWord)
        /\ Parse(words).arguments["err-log-file"] = IF name = <<>> THEN <<>> ELSE <<name[1]>>
    BY <1>10 DEF Unquoted
  <2>2. 2..Len(name) = {}
    BY DEF Complete, Unquoted
  <2>. HIDE DEF name
  <2>3. name # <<>> => name = <<name[1]>>
    <3>1. Len(name) \in Nat /\ ~(2 <= Len(name))
      <4>1. Len(name) \in Nat
        BY <2>1
      <4>2. 2 <= Len(name) => 2 \in 2..Len(name)
        BY <4>1
      <4>. QED
        BY <2>2, <4>1, <4>2
    <3>2. name # <<>> => Len(name) = 1
      <4>1. Len(name) = 0 => name = <<>>
        BY <2>1
      <4>2. Len(name) = 0 \/ Len(name) = 1
        BY <3>1
      <4>. QED
        BY <4>1, <4>2
    <3>3. Len(name) = 1 => name = <<name[1]>>
      BY <2>1
    <3>. QED
      BY <3>2, <3>3
  <2>. QED
    BY <2>1, <2>3 DEF SettingsOf, Configured, name
<1>16. SettingsOf(words).switches = Configured(cfg, debug).switches
  BY <1>4, <1>9 DEF SettingsOf
<1>17. SettingsOf(words) = Configured(cfg, debug)
  BY <1>13, <1>14, <1>15, <1>16 DEF SettingsOf, Configured
<1>. QED
  BY <1>12, <1>17 DEF words
=============================================================================
