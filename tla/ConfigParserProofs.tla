------------------------- MODULE ConfigParserProofs -------------------------
(***************************************************************************)
(* For any phrases, of any length and written in any order.                *)
(*                                                                         *)
(* While Parse runs, the stack of open blocks is a path through the blocks *)
(* it has built, so that what it takes from the top and from the back is   *)
(* there.  The blocks are numbered as they are opened, and the stack is    *)
(* ascending: a word added to the innermost block changes no other block   *)
(* on it.                                                                  *)
(*                                                                         *)
(* Parse reads the file: after k lexemes, whatever part of the next one    *)
(* ParseToken holds, what is printed of the blocks, the unfinished         *)
(* statement ended and the open blocks closed, is the tokens among the     *)
(* first k lexemes.                                                        *)
(*                                                                         *)
(* main serves what the file lists: each block stands among the tokens     *)
(* where it is printed, its statements one behind the other, and what a    *)
(* getter finds in the block is what the tokens there say.  By induction   *)
(* over the blocks, the youngest first.                                    *)
(***************************************************************************)
EXTENDS ConfigParser, FiniteSetTheorems, WellFoundedInduction, SequenceTheorems, TLAPS

\* The blocks are sequences of statements, whatever their tokens are.
StatementsOf(L) == [tokens : L, child : Nat]
Built == \E L : blocks \in Seq(Seq(StatementsOf(L)))

Ascending == \A i, j \in 1..Len(config_stack) : i < j => config_stack[i] < config_stack[j]

IInv ==
    /\ config_stack \in Seq(1..Len(blocks))
    /\ Built
    /\ Ascending
    /\ OpenBlocksAreNested

\* What IInv says of the stack, one fact at a time.
LEMMA StackFacts ==
    ASSUME IInv
    PROVE  /\ Len(blocks) \in Nat /\ Len(config_stack) \in Nat
           /\ \A i \in 1..Len(config_stack) : config_stack[i] \in 1..Len(blocks)
           /\ config_stack # <<>> => Len(config_stack) > 0
           /\ \A i \in 1..(Len(config_stack) - 1) : config_stack[i] # Last(config_stack)
<1>1. Len(blocks) \in Nat
  BY LenProperties DEF IInv, Built
<1>2. /\ Len(config_stack) \in Nat
      /\ \A i \in 1..Len(config_stack) : config_stack[i] \in 1..Len(blocks)
  BY LenProperties, ElementOfSeq DEF IInv
<1>3. config_stack # <<>> => Len(config_stack) > 0
  BY <1>2, EmptySeq DEF IInv
<1>4. \A i \in 1..(Len(config_stack) - 1) : config_stack[i] # Last(config_stack)
  <2>1. \A i \in 1..(Len(config_stack) - 1) :
            i \in 1..Len(config_stack) /\ Len(config_stack) \in 1..Len(config_stack) /\ i < Len(config_stack)
    BY <1>2
  <2>2. \A i \in 1..(Len(config_stack) - 1) : config_stack[i] < config_stack[Len(config_stack)]
    BY <2>1 DEF IInv, Ascending
  <2>3. \A i \in 1..Len(config_stack) : config_stack[i] \in Nat
    BY <1>1, <1>2
  <2>4. \A a, b \in Nat : a < b => a # b
    OBVIOUS
  <2> QED BY <2>1, <2>2, <2>3, <2>4 DEF Last
<1> QED BY <1>1, <1>2, <1>3, <1>4

\* What is left of a stack that is popped.
LEMMA PopStep ==
    ASSUME IInv, outcome = "parsing", config_stack # <<>>,
           config_stack' = Front(config_stack), blocks' = blocks, last_token_type' # "NORMAL"
    PROVE  IInv'
<1> DEFINE n == Len(config_stack)
<1>1. n \in Nat \ {0} /\ \A i \in 1..n : config_stack[i] \in 1..Len(blocks)
  BY StackFacts
<1>2. /\ config_stack' \in Seq(1..Len(blocks)) /\ Len(config_stack') = n - 1
      /\ \A i \in 1..(n - 1) : config_stack'[i] = config_stack[i]
  <2>1. config_stack' = SubSeq(config_stack, 1, n - 1)
    BY DEF Front
  <2> HIDE DEF n
  <2> QED BY <1>1, <2>1, SubSeqProperties
<1>3. Built' /\ config_stack' \in Seq(1..Len(blocks'))
  BY <1>2 DEF IInv, Built
<1>4. Ascending /\ OpenBlocksAreNested
  BY DEF IInv
<1> HIDE DEF n
<1>5. Ascending'
  <2>1. Ascending /\ n = Len(config_stack)
    BY <1>4 DEF n
  <2>2. ASSUME NEW i \in 1..Len(config_stack'), NEW j \in 1..Len(config_stack'), i < j
        PROVE  config_stack'[i] < config_stack'[j]
    <3>1. i \in 1..(n - 1) /\ j \in 1..(n - 1) /\ i \in 1..n /\ j \in 1..n
      BY <1>1, <1>2
    <3>2. config_stack[i] < config_stack[j]
      BY <2>1, <2>2, <3>1 DEF Ascending
    <3> QED BY <1>2, <3>1, <3>2
  <2> QED BY <2>2 DEF Ascending
<1>6. OpenBlocksAreNested'
  <2>1. ASSUME NEW i \in 1..(Len(config_stack') - 1)
        PROVE  /\ blocks'[config_stack'[i]] # <<>>
               /\ Last(blocks'[config_stack'[i]]).child = config_stack'[i + 1]
    <3>1. i \in 1..(n - 1) /\ i + 1 \in 1..(n - 1)
      BY <1>1, <1>2
    <3>2. config_stack'[i] = config_stack[i] /\ config_stack'[i + 1] = config_stack[i + 1]
      BY <1>2, <3>1
    <3> QED BY <1>4, <3>1, <3>2 DEF OpenBlocksAreNested, n
  <2> QED BY <2>1 DEF OpenBlocksAreNested
<1> QED BY <1>3, <1>5, <1>6 DEF IInv

\* The innermost block becomes another, whose last statement has no block.
LEMMA TopChanges ==
    ASSUME IInv, outcome = "parsing", config_stack # <<>>, NEW L, NEW new,
           blocks \in Seq(Seq(StatementsOf(L))),
           new \in Seq(StatementsOf(L)), new # <<>>, Last(new).child = 0,
           UNCHANGED <<config_stack, outcome>>,
           blocks' = [blocks EXCEPT ![Last(config_stack)] = new]
    PROVE  IInv'
<1>1. Last(config_stack) \in 1..Len(blocks)
  BY StackFacts DEF Last
<1>2. /\ blocks' \in Seq(Seq(StatementsOf(L))) /\ Len(blocks') = Len(blocks)
      /\ blocks'[Last(config_stack)] = new
      /\ \A c \in 1..Len(blocks) : c # Last(config_stack) => blocks'[c] = blocks[c]
  BY <1>1, ExceptSeq
<1>3. \A i \in 1..(Len(config_stack) - 1) : blocks'[config_stack[i]] = blocks[config_stack[i]]
  BY <1>2, StackFacts
<1>4. OpenBlocksAreNested'
  <2>1. ASSUME NEW i \in 1..(Len(config_stack') - 1)
        PROVE  /\ blocks'[config_stack'[i]] # <<>>
               /\ Last(blocks'[config_stack'[i]]).child = config_stack'[i + 1]
    <3>1. blocks'[config_stack'[i]] = blocks[config_stack[i]] /\ i \in 1..(Len(config_stack) - 1)
      BY <1>3
    <3>2. blocks[config_stack[i]] # <<>> /\ Last(blocks[config_stack[i]]).child = config_stack[i + 1]
      BY <3>1 DEF IInv, OpenBlocksAreNested
    <3> QED BY <3>1, <3>2
  <2>2. config_stack' # <<>> /\ Statements' = new
    BY <1>2 DEF Statements, Top
  <2> QED BY <2>1, <2>2 DEF OpenBlocksAreNested
<1> QED BY <1>2, <1>4 DEF IInv, Built, Ascending

\* It becomes one whose last statement has the new block.
LEMMA TopOpens ==
    ASSUME IInv, outcome = "parsing", config_stack # <<>>, NEW L, NEW new,
           blocks \in Seq(Seq(StatementsOf(L))),
           new \in Seq(StatementsOf(L)), new # <<>>, Last(new).child = Len(blocks) + 1,
           last_token_type' # "NORMAL", UNCHANGED outcome,
           config_stack' = Append(config_stack, Len(blocks) + 1),
           blocks' = Append([blocks EXCEPT ![Last(config_stack)] = new], <<>>)
    PROVE  IInv'
<1> DEFINE n   == Len(blocks)
           k   == Len(config_stack)
           mid == [blocks EXCEPT ![Last(config_stack)] = new]
<1>1. /\ Last(config_stack) \in 1..n /\ n \in Nat /\ k \in Nat \ {0}
      /\ \A i \in 1..k : config_stack[i] \in 1..n
      /\ \A i \in 1..(k - 1) : config_stack[i] # Last(config_stack)
  <2>1. Last(config_stack) = config_stack[Len(config_stack)]
    BY DEF Last
  <2> QED BY <2>1, StackFacts
<1>2. /\ mid \in Seq(Seq(StatementsOf(L))) /\ Len(mid) = n /\ mid[Last(config_stack)] = new
      /\ \A c \in 1..n : c # Last(config_stack) => mid[c] = blocks[c]
  BY <1>1, ExceptSeq
<1>3. /\ blocks' \in Seq(Seq(StatementsOf(L))) /\ Len(blocks') = n + 1
      /\ \A c \in 1..n : blocks'[c] = mid[c]
  <2>1. <<>> \in Seq(StatementsOf(L))
    BY EmptySeq
  <2>2. blocks' = Append(mid, <<>>)
    OBVIOUS
  <2> HIDE DEF mid
  <2>3. /\ Append(mid, <<>>) \in Seq(Seq(StatementsOf(L)))
        /\ Len(Append(mid, <<>>)) = Len(mid) + 1
        /\ \A c \in 1..Len(mid) : Append(mid, <<>>)[c] = mid[c]
    <3> DEFINE T == Seq(StatementsOf(L))
    <3>1. mid \in Seq(T) /\ <<>> \in T
      BY <1>2, <2>1
    <3> HIDE DEF T
    <3>2. /\ Append(mid, <<>>) \in Seq(T) /\ Len(Append(mid, <<>>)) = Len(mid) + 1
          /\ \A c \in 1..Len(mid) : Append(mid, <<>>)[c] = mid[c]
      BY <3>1, AppendProperties
    <3> QED BY <3>2 DEF T
  <2> QED BY <1>2, <2>2, <2>3
<1>4. /\ config_stack' \in Seq(1..(n + 1)) /\ Len(config_stack') = k + 1
      /\ config_stack'[k + 1] = n + 1
      /\ \A i \in 1..k : config_stack'[i] = config_stack[i]
  <2>1. config_stack \in Seq(1..(n + 1)) /\ n + 1 \in 1..(n + 1)
    <3>1. config_stack \in Seq(1..n)
      BY DEF IInv
    <3>2. n + 1 \in 1..(n + 1) /\ 1..n \subseteq 1..(n + 1)
      BY <1>1
    <3> QED BY <3>1, <3>2, SeqMonotonic
  <2> QED BY <2>1, AppendProperties
<1> HIDE DEF n, k, mid
<1>5. Ascending'
  <2>1. Ascending /\ k = Len(config_stack)
    BY DEF IInv, k
  <2>2. \A i \in 1..k : config_stack'[i] < config_stack'[k + 1]
    BY <1>1, <1>4, SMTT(30)
  <2>3. \A i, j \in 1..k : i < j => config_stack'[i] < config_stack'[j]
    BY <1>4, <2>1 DEF Ascending
  <2>4. \A i, j \in 1..(k + 1) : i < j => i \in 1..k /\ (j \in 1..k \/ j = k + 1)
    BY <1>1
  <2> QED BY <1>4, <2>2, <2>3, <2>4 DEF Ascending
<1>6. OpenBlocksAreNested'
  <2>1. ASSUME NEW i \in 1..k
        PROVE  /\ blocks'[config_stack'[i]] # <<>>
               /\ Last(blocks'[config_stack'[i]]).child = config_stack'[i + 1]
    <3>1. CASE i = k
      BY <1>1, <1>2, <1>3, <1>4, <3>1 DEF Last, k, n
    <3>2. CASE i # k
      <4>1. i \in 1..(k - 1) /\ i + 1 \in 1..k
        BY <1>1, <3>2
      <4>2. blocks'[config_stack'[i]] = blocks[config_stack[i]]
        BY <1>1, <1>2, <1>3, <1>4, <4>1
      <4>3. /\ blocks[config_stack[i]] # <<>>
            /\ Last(blocks[config_stack[i]]).child = config_stack[i + 1]
        BY <4>1 DEF IInv, OpenBlocksAreNested, k
      <4> QED BY <1>4, <4>1, <4>2, <4>3
    <3> QED BY <3>1, <3>2
  <2>2. 1..(Len(config_stack') - 1) = 1..k
    BY <1>1, <1>4
  <2> QED BY <2>1, <2>2 DEF OpenBlocksAreNested
<1> QED BY <1>3, <1>4, <1>5, <1>6 DEF IInv, Built

-----------------------------------------------------------------------------

\* A sequence whose last element becomes e.
LEMMA LastChanges ==
    ASSUME NEW S, NEW s \in Seq(S), s # <<>>, NEW e \in S
    PROVE  /\ [s EXCEPT ![Len(s)] = e] \in Seq(S)
           /\ [s EXCEPT ![Len(s)] = e] # <<>>
           /\ Last([s EXCEPT ![Len(s)] = e]) = e
<1>1. Len(s) \in Nat \ {0}
  BY EmptySeq
<1>2. /\ [s EXCEPT ![Len(s)] = e] \in Seq(S) /\ Len([s EXCEPT ![Len(s)] = e]) = Len(s)
      /\ [s EXCEPT ![Len(s)] = e][Len(s)] = e
  BY <1>1, ExceptSeq
<1>3. [s EXCEPT ![Len(s)] = e] # <<>>
  BY <1>1, <1>2, EmptySeq
<1> QED BY <1>2, <1>3 DEF Last

\* The innermost block, while a statement of it is being read.
LEMMA StatementFacts ==
    ASSUME IInv, outcome = "parsing", config_stack # <<>>, NEW L,
           blocks \in Seq(Seq(StatementsOf(L)))
    PROVE  /\ blocks[Last(config_stack)] \in Seq(StatementsOf(L))
           /\ last_token_type = "NORMAL" =>
                 /\ blocks[Last(config_stack)] # <<>>
                 /\ Last(blocks[Last(config_stack)]) \in StatementsOf(L)
                 /\ Last(blocks[Last(config_stack)]).child = 0
<1> DEFINE old == blocks[Last(config_stack)]
<1>1. old \in Seq(StatementsOf(L))
  BY StackFacts, ElementOfSeq DEF Last
<1>2. last_token_type = "NORMAL" => old # <<>> /\ Last(old).child = 0
  BY DEF IInv, OpenBlocksAreNested, Statements, Top
<1>3. old # <<>> => Last(old) \in StatementsOf(L)
  <2> HIDE DEF old
  <2> QED BY <1>1, EmptySeq, ElementOfSeq DEF Last
<1> QED BY <1>1, <1>2, <1>3

\* A word: the innermost block gets a statement, or its last one a token.
LEMMA AddTokenStep ==
    ASSUME IInv, outcome = "parsing", config_stack # <<>>, NEW tok, AddToken(tok)
    PROVE  IInv'
<1> DEFINE old == blocks[Last(config_stack)]
<1>1. PICK L : blocks \in Seq(Seq(StatementsOf(L)))
  BY DEF IInv, Built
<1> DEFINE M == L \cup {<<tok>>} \cup {Append(l, tok) : l \in L}
           s == Last(old)
           e == [s EXCEPT !.tokens = Append(@, tok)]
           f == [tokens |-> <<tok>>, child |-> 0]
<1>2. /\ old \in Seq(StatementsOf(L))
      /\ last_token_type = "NORMAL" => old # <<>> /\ s \in StatementsOf(L) /\ s.child = 0
  BY <1>1, StatementFacts
<1>3. StatementsOf(L) \subseteq StatementsOf(M) /\ f \in StatementsOf(M)
  BY DEF StatementsOf
<1>4. old \in Seq(StatementsOf(M)) /\ blocks \in Seq(Seq(StatementsOf(M)))
  <2>1. Seq(StatementsOf(L)) \subseteq Seq(StatementsOf(M))
    BY <1>3, SeqMonotonic
  <2> QED BY <1>1, <1>2, <2>1, SeqMonotonic
<1>5. CASE last_token_type = "NORMAL"
  <2>1. e \in StatementsOf(M) /\ e.child = 0
    <3> HIDE DEF s
    <3> QED BY <1>2, <1>5 DEF StatementsOf
  <2>2. /\ blocks' = [blocks EXCEPT ![Last(config_stack)] = [old EXCEPT ![Len(old)] = e]]
        /\ UNCHANGED <<config_stack, outcome>>
    BY <1>5 DEF AddToken, Top, Statements, Last
  <2> DEFINE new == [old EXCEPT ![Len(old)] = e]
  <2>3. new \in Seq(StatementsOf(M)) /\ new # <<>> /\ Last(new).child = 0
    <3> HIDE DEF e, M, old
    <3> QED BY <1>2, <1>4, <1>5, <2>1, LastChanges
  <2>4. blocks' = [blocks EXCEPT ![Last(config_stack)] = new]
    BY <2>2
  <2> HIDE DEF new, M
  <2> QED BY <1>4, <2>2, <2>3, <2>4, TopChanges
<1>6. CASE last_token_type # "NORMAL"
  <2> DEFINE new == Append(old, f)
  <2>1. /\ blocks' = [blocks EXCEPT ![Last(config_stack)] = new]
        /\ UNCHANGED <<config_stack, outcome>>
    BY <1>6 DEF AddToken, Top
  <2>2. new \in Seq(StatementsOf(M)) /\ new # <<>> /\ Last(new).child = 0
    <3>1. f.child = 0
      OBVIOUS
    <3> HIDE DEF f, M, old
    <3> QED BY <1>3, <1>4, <3>1, AppendProperties, LenProperties DEF Last
  <2> HIDE DEF new, M
  <2> QED BY <1>4, <2>1, <2>2, TopChanges
<1> QED BY <1>5, <1>6

\* A block: the last statement of the innermost gets it.
LEMMA OpenBlockStep ==
    ASSUME IInv, outcome = "parsing", config_stack # <<>>, last_token_type = "NORMAL",
           OpenBlock, last_token_type' # "NORMAL"
    PROVE  IInv'
<1> DEFINE old == blocks[Last(config_stack)]
           s   == Last(old)
           e   == [s EXCEPT !.child = Len(blocks) + 1]
           new == [old EXCEPT ![Len(old)] = e]
<1>1. PICK L : blocks \in Seq(Seq(StatementsOf(L)))
  BY DEF IInv, Built
<1>2. old \in Seq(StatementsOf(L)) /\ old # <<>> /\ s \in StatementsOf(L)
  BY <1>1, StatementFacts
<1>3. e \in StatementsOf(L) /\ e.child = Len(blocks) + 1
  <2>1. Len(blocks) + 1 \in Nat
    BY StackFacts
  <2> HIDE DEF s
  <2> QED BY <1>2, <2>1 DEF StatementsOf
<1>4. new \in Seq(StatementsOf(L)) /\ new # <<>> /\ Last(new).child = Len(blocks) + 1
  <2> HIDE DEF e, old
  <2> QED BY <1>2, <1>3, LastChanges
<1>5. /\ blocks' = Append([blocks EXCEPT ![Last(config_stack)] = new], <<>>)
      /\ config_stack' = Append(config_stack, Len(blocks) + 1) /\ UNCHANGED outcome
  BY DEF OpenBlock, Top, Statements, Last
<1> HIDE DEF new
<1> QED BY <1>1, <1>4, <1>5, TopOpens

-----------------------------------------------------------------------------
(* The invariant                                                           *)

\* Steps that leave the blocks alone, or end the run of Parse.
LEMMA KeepStep ==
    ASSUME IInv, UNCHANGED <<config_stack, blocks>>,
           last_token_type' # "NORMAL" \/ outcome' # "parsing" \/ last_token_type' = last_token_type,
           outcome' # "parsing" \/ outcome = "parsing"
    PROVE  IInv'
BY DEF IInv, Built, Ascending, OpenBlocksAreNested, Statements, Top

LEMMA ParseStep ==
    ASSUME IInv, outcome = "parsing", NEW type, NEW tok, Parse(type, tok)
    PROVE  IInv'
<1>1. CASE type = "COMMENT"
  BY <1>1, KeepStep DEF Parse
<1>2. CASE type # "COMMENT" /\ ~Allowed(type)
  BY <1>2, KeepStep DEF Parse
<1>3. CASE type # "COMMENT" /\ Allowed(type)
  <2>0. type \in {"NORMAL", "START_BLOCK", "END_BLOCK", "EOF", "STATEMENT_END"}
    BY <1>3 DEF Allowed
  <2>1. last_token_type' = type
    BY <1>3 DEF Parse
  <2>2. CASE config_stack = <<>> /\ type # "STATEMENT_END"
    <3>1. Undefined
      BY <1>3, <2>2 DEF Parse
    <3> QED BY <3>1, KeepStep DEF Undefined
  <2>3. CASE type = "NORMAL" /\ config_stack # <<>>
    <3>1. AddToken(tok)
      BY <1>3, <2>3 DEF Parse
    <3> QED BY <2>3, <3>1, AddTokenStep
  <2>4. CASE type = "START_BLOCK" /\ config_stack # <<>>
    <3>1. OpenBlock /\ last_token_type = "NORMAL"
      BY <1>3, <2>4 DEF Parse, Allowed
    <3> QED BY <2>1, <2>4, <3>1, OpenBlockStep
  <2>5. CASE type = "END_BLOCK" /\ config_stack # <<>>
    <3>1. config_stack' = Front(config_stack) /\ UNCHANGED <<blocks, outcome>>
      BY <1>3, <2>5 DEF Parse
    <3> QED BY <2>1, <2>5, <3>1, PopStep
  <2>6. CASE type = "EOF" /\ config_stack # <<>>
    <3>1. config_stack' = Front(config_stack) /\ UNCHANGED blocks
      BY <1>3, <2>6 DEF Parse, PopAtEnd
    <3> QED BY <2>1, <2>6, <3>1, PopStep
  <2>7. CASE type = "STATEMENT_END"
    <3>1. UNCHANGED <<config_stack, blocks, outcome>>
      BY <1>3, <2>7 DEF Parse
    <3> QED BY <2>1, <2>7, <3>1, KeepStep
  <2> QED BY <2>0, <2>2, <2>3, <2>4, <2>5, <2>6, <2>7
<1> QED BY <1>1, <1>2, <1>3

LEMMA IInvInit == Init => IInv
<1> SUFFICES ASSUME Init PROVE IInv
  OBVIOUS
<1>1. config_stack = <<1>> /\ blocks = << <<>> >> /\ last_token_type = "START"
  BY DEF Init
<1>2. blocks \in Seq(Seq(StatementsOf({})))
  <2>1. <<>> \in Seq(StatementsOf({}))
    BY EmptySeq
  <2> QED BY <1>1, <2>1
<1>3. config_stack \in Seq(1..Len(blocks)) /\ Len(config_stack) = 1
  BY <1>1
<1>4. Ascending /\ OpenBlocksAreNested
  BY <1>1, <1>3 DEF Ascending, OpenBlocksAreNested
<1> QED BY <1>2, <1>3, <1>4 DEF IInv, Built

LEMMA IInvStep == IInv /\ [Next]_vars => IInv'
<1> SUFFICES ASSUME IInv, [Next]_vars PROVE IInv'
  OBVIOUS
<1>1. CASE ParseToken
  <2>1. ASSUME NEW type, NEW tok, Parse(type, tok), outcome = "parsing" PROVE IInv'
    BY <2>1, ParseStep
  <2>2. ASSUME UNCHANGED <<last_token_type, config_stack, blocks, outcome>> PROVE IInv'
    BY <2>2, KeepStep
  <2> QED BY <1>1, <2>1, <2>2 DEF ParseToken
<1>2. CASE ParseTokenEnds
  <2>1. CASE Parse("EOF", <<>>)
    BY <1>2, <2>1, ParseStep DEF ParseTokenEnds
  <2>2. CASE outcome' = "false" /\ UNCHANGED <<last_token_type, config_stack, blocks>>
    BY <2>2, KeepStep
  <2> QED BY <1>2, <2>1, <2>2 DEF ParseTokenEnds
<1>3. CASE (\E p \in Phrases : Write(p)) \/ End \/ main \/ UNCHANGED vars
  <2>1. UNCHANGED <<last_token_type, config_stack, blocks, outcome>>
    BY <1>3 DEF Write, End, main, vars
  <2> QED BY <2>1, KeepStep
<1> QED BY <1>1, <1>2, <1>3 DEF Next

\* Parse never takes a statement from an empty block or a block that is not open:
\* config_stack.top()->statements_.back() is there whenever it is used.
THEOREM BlocksAreNested == Spec => []OpenBlocksAreNested
<1>1. IInv => OpenBlocksAreNested
  BY DEF IInv
<1> QED BY <1>1, IInvInit, IInvStep, PTL DEF Spec

-----------------------------------------------------------------------------
(* The order of the blocks                                                 *)

Follows(child, b, n) == child = 0 \/ child \in (b + 1)..n

\* A statement's block is younger than the block the statement is in.
ChildrenAreYounger ==
    \A b \in 1..Len(blocks) : \A i \in 1..Len(blocks[b]) :
        Follows(blocks[b][i].child, b, Len(blocks))

\* The innermost block becomes one whose statements have no block or a younger one.
LEMMA YoungerChange ==
    ASSUME IInv, ChildrenAreYounger, NEW L, NEW T, NEW new, NEW n, n \in {Len(blocks), Len(blocks) + 1},
           blocks \in Seq(T), blocks' \in Seq(L), Len(blocks') = n, config_stack # <<>>,
           blocks'[Last(config_stack)] = new,
           \A c \in 1..Len(blocks) : c # Last(config_stack) => blocks'[c] = blocks[c],
           n = Len(blocks) + 1 => blocks'[n] = <<>>,
           \A i \in 1..Len(new) : Follows(new[i].child, Last(config_stack), n)
    PROVE  ChildrenAreYounger'
<1>1. Len(blocks) \in Nat /\ n \in Nat /\ Len(blocks) <= n
  BY StackFacts
<1>2. ASSUME NEW b \in 1..n, NEW i \in 1..Len(blocks'[b]) PROVE Follows(blocks'[b][i].child, b, n)
  <2>1. CASE b = Last(config_stack)
    BY <2>1, <1>2
  <2>2. CASE b # Last(config_stack) /\ b \in 1..Len(blocks)
    <3>1. blocks'[b] = blocks[b]
      BY <2>2
    <3>2. Follows(blocks[b][i].child, b, Len(blocks))
      BY <1>2, <2>2, <3>1 DEF ChildrenAreYounger
    <3> QED BY <1>1, <2>2, <3>1, <3>2 DEF Follows
  <2>3. CASE b \notin 1..Len(blocks)
    <3>1. b = n /\ n = Len(blocks) + 1
      BY <1>1, <2>3
    <3>2. Len(blocks'[b]) = 0
      BY <3>1, EmptySeq
    <3> QED BY <1>2, <3>2
  <2> QED BY <2>1, <2>2, <2>3
<1> QED BY <1>2 DEF ChildrenAreYounger

\* A sequence of statements with another last one, or with one more.
LEMMA LastIs ==
    ASSUME NEW S, NEW s \in Seq(S), NEW e
    PROVE  /\ s # <<>> => /\ Len([s EXCEPT ![Len(s)] = e]) = Len(s)
                          /\ [s EXCEPT ![Len(s)] = e][Len(s)] = e
                          /\ \A i \in 1..(Len(s) - 1) : [s EXCEPT ![Len(s)] = e][i] = s[i]
           /\ Len(Append(s, e)) = Len(s) + 1 /\ Append(s, e)[Len(s) + 1] = e
           /\ \A i \in 1..Len(s) : Append(s, e)[i] = s[i]
<1>1. Len(s) \in Nat /\ (s # <<>> => Len(s) # 0)
  BY EmptySeq, LenProperties
<1>2. s \in Seq(S \cup {e}) /\ e \in S \cup {e}
  BY SeqMonotonic
<1>3. s # <<>> => Len(s) \in 1..Len(s)
  BY <1>1
<1>4. s # <<>> =>
         /\ Len([s EXCEPT ![Len(s)] = e]) = Len(s)
         /\ [s EXCEPT ![Len(s)] = e][Len(s)] = e
         /\ \A i \in 1..Len(s) : i # Len(s) => [s EXCEPT ![Len(s)] = e][i] = s[i]
  BY <1>2, <1>3, ExceptSeq
<1>5. \A i \in 1..(Len(s) - 1) : i \in 1..Len(s) /\ i # Len(s)
  BY <1>1
<1>6. /\ Len(Append(s, e)) = Len(s) + 1 /\ Append(s, e)[Len(s) + 1] = e
      /\ \A i \in 1..Len(s) : Append(s, e)[i] = s[i]
  BY <1>2, AppendProperties
<1> QED BY <1>4, <1>5, <1>6

LEMMA AddTokenYounger ==
    ASSUME IInv, ChildrenAreYounger, outcome = "parsing", config_stack # <<>>, NEW tok, AddToken(tok)
    PROVE  ChildrenAreYounger'
<1> DEFINE c   == Last(config_stack)
           n   == Len(blocks)
           old == blocks[c]
           s   == old[Len(old)]
           e   == [s EXCEPT !.tokens = Append(@, tok)]
           f   == [tokens |-> <<tok>>, child |-> 0]
<1>1. PICK L : blocks \in Seq(Seq(StatementsOf(L)))
  BY DEF IInv, Built
<1>2. /\ old \in Seq(StatementsOf(L)) /\ c \in 1..n /\ n \in Nat /\ Len(old) \in Nat
      /\ last_token_type = "NORMAL" => old # <<>> /\ s \in StatementsOf(L)
  <2>1. c = config_stack[Len(config_stack)] /\ s = Last(old)
    BY DEF Last
  <2>2. c \in 1..n /\ n \in Nat
    BY <2>1, StackFacts
  <2>3. old \in Seq(StatementsOf(L)) /\ (last_token_type = "NORMAL" => old # <<>> /\ Last(old) \in StatementsOf(L))
    BY <1>1, StatementFacts
  <2> HIDE DEF old, s, c
  <2> QED BY <2>1, <2>2, <2>3, LenProperties
<1>3. \A i \in 1..Len(old) : Follows(old[i].child, c, n)
  BY <1>2 DEF ChildrenAreYounger
<1>4. PICK new : /\ blocks' = [blocks EXCEPT ![c] = new]
                 /\ \A i \in 1..Len(new) : Follows(new[i].child, c, n)
  <2>1. CASE last_token_type = "NORMAL"
    <3> DEFINE new == [old EXCEPT ![Len(old)] = e]
    <3>1. blocks' = [blocks EXCEPT ![c] = new]
      BY <2>1 DEF AddToken, Top, Statements, Last
    <3>2. e.child = s.child
      <4>1. s \in StatementsOf(L)
        BY <1>2, <2>1
      <4> HIDE DEF s
      <4> QED BY <4>1 DEF StatementsOf
    <3>3. Len(old) \in 1..Len(old)
      <4> HIDE DEF old
      <4> QED BY <1>2, <2>1, EmptySeq
    <3> HIDE DEF e, old, c, n
    <3>4. /\ Len(new) = Len(old) /\ new[Len(old)] = e
          /\ \A i \in 1..(Len(old) - 1) : new[i] = old[i]
      BY <1>2, <2>1, LastIs
    <3>5. \A i \in 1..Len(old) : i = Len(old) \/ i \in 1..(Len(old) - 1)
      BY <1>2
    <3>6. Follows(e.child, c, n)
      BY <1>3, <3>2, <3>3 DEF e
    <3> HIDE DEF new
    <3>7. \A i \in 1..Len(new) : Follows(new[i].child, c, n)
      BY <1>3, <3>4, <3>5, <3>6
    <3> QED BY <3>1, <3>7
  <2>2. CASE last_token_type # "NORMAL"
    <3> DEFINE new == Append(old, f)
    <3>1. blocks' = [blocks EXCEPT ![c] = new]
      BY <2>2 DEF AddToken, Top
    <3>2. Follows(f.child, c, n)
      BY DEF Follows
    <3> HIDE DEF f, old, c, n
    <3>3. /\ Len(new) = Len(old) + 1 /\ new[Len(old) + 1] = f
          /\ \A i \in 1..Len(old) : new[i] = old[i]
      BY <1>2, LastIs
    <3>4. \A i \in 1..(Len(old) + 1) : i = Len(old) + 1 \/ i \in 1..Len(old)
      BY <1>2
    <3> HIDE DEF new
    <3>5. \A i \in 1..Len(new) : Follows(new[i].child, c, n)
      BY <1>3, <3>2, <3>3, <3>4
    <3> QED BY <3>1, <3>5
  <2> QED BY <2>1, <2>2
<1>5. /\ blocks' \in Seq(Seq(StatementsOf(L)) \cup {new}) /\ Len(blocks') = n /\ blocks'[c] = new
      /\ \A b \in 1..n : b # c => blocks'[b] = blocks[b]
  <2> DEFINE T == Seq(StatementsOf(L)) \cup {new}
  <2>1. blocks \in Seq(T) /\ new \in T
    BY <1>1, SeqMonotonic
  <2> HIDE DEF T, c
  <2>2. /\ blocks' \in Seq(T) /\ Len(blocks') = n
        /\ \A b \in 1..n : blocks'[b] = IF b = c THEN new ELSE blocks[b]
    BY <1>2, <1>4, <2>1, ExceptSeq
  <2> QED BY <1>2, <2>2 DEF T
<1>6. n # Len(blocks) + 1
  BY <1>2
<1> DEFINE T == Seq(StatementsOf(L)) \cup {new}
           U == Seq(StatementsOf(L))
<1>7. blocks' \in Seq(T) /\ blocks \in Seq(U)
  BY <1>1, <1>5
<1> HIDE DEF T, U, n
<1> QED BY <1>1, <1>4, <1>5, <1>6, <1>7, YoungerChange DEF n

LEMMA OpenBlockYounger ==
    ASSUME IInv, ChildrenAreYounger, outcome = "parsing", config_stack # <<>>,
           last_token_type = "NORMAL", OpenBlock
    PROVE  ChildrenAreYounger'
<1> DEFINE c   == Last(config_stack)
           n   == Len(blocks)
           old == blocks[c]
           s   == old[Len(old)]
           e   == [s EXCEPT !.child = n + 1]
           new == [old EXCEPT ![Len(old)] = e]
           mid == [blocks EXCEPT ![c] = new]
<1>1. PICK L : blocks \in Seq(Seq(StatementsOf(L)))
  BY DEF IInv, Built
<1>2. /\ old \in Seq(StatementsOf(L)) /\ c \in 1..n /\ n \in Nat /\ Len(old) \in Nat
      /\ old # <<>> /\ s \in StatementsOf(L)
  <2>1. c = config_stack[Len(config_stack)] /\ s = Last(old)
    BY DEF Last
  <2>2. c \in 1..n /\ n \in Nat
    BY <2>1, StackFacts
  <2>3. old \in Seq(StatementsOf(L)) /\ old # <<>> /\ Last(old) \in StatementsOf(L)
    BY <1>1, StatementFacts
  <2> HIDE DEF old, s, c
  <2> QED BY <2>1, <2>2, <2>3, LenProperties
<1>3. \A i \in 1..Len(old) : Follows(old[i].child, c, n)
  BY <1>2 DEF ChildrenAreYounger
<1>4. blocks' = Append(mid, <<>>)
  BY DEF OpenBlock, Top, Statements, Last
<1>5. e.child = n + 1
  <2> HIDE DEF s
  <2> QED BY <1>2 DEF StatementsOf
<1>6. Len(old) \in 1..Len(old)
  <2> HIDE DEF old
  <2> QED BY <1>2, EmptySeq
<1> HIDE DEF e, old, c, n
<1>7. /\ Len(new) = Len(old) /\ new[Len(old)] = e
      /\ \A i \in 1..(Len(old) - 1) : new[i] = old[i]
  BY <1>2, LastIs
<1>8. \A i \in 1..Len(new) : Follows(new[i].child, c, n + 1)
  <2>1. Follows(e.child, c, n + 1)
    BY <1>2, <1>5 DEF Follows
  <2>2. \A k : Follows(k, c, n) => Follows(k, c, n + 1)
    BY <1>2 DEF Follows
  <2>3. \A i \in 1..Len(old) : i = Len(old) \/ i \in 1..(Len(old) - 1)
    BY <1>2
  <2> HIDE DEF new
  <2> QED BY <1>3, <1>7, <2>1, <2>2, <2>3
<1> HIDE DEF new
<1> DEFINE U == Seq(StatementsOf(L))
           T == U \cup {new, <<>>}
<1>9. blocks \in Seq(U) /\ blocks \in Seq(T) /\ new \in T /\ <<>> \in T
  BY <1>1, SeqMonotonic
<1> HIDE DEF U, T
<1>10. /\ mid \in Seq(T) /\ Len(mid) = n
       /\ \A b \in 1..n : mid[b] = IF b = c THEN new ELSE blocks[b]
  BY <1>2, <1>9, ExceptSeq DEF n
<1> HIDE DEF mid
<1>11. /\ blocks' \in Seq(T) /\ Len(blocks') = n + 1 /\ blocks'[n + 1] = <<>>
       /\ \A b \in 1..n : blocks'[b] = mid[b]
  BY <1>4, <1>9, <1>10, AppendProperties
<1>12. blocks'[c] = new /\ \A b \in 1..n : b # c => blocks'[b] = blocks[b]
  BY <1>2, <1>10, <1>11
<1> QED BY <1>8, <1>9, <1>11, <1>12, YoungerChange DEF c, n

LEMMA ParseYounger ==
    ASSUME IInv, ChildrenAreYounger, outcome = "parsing", NEW type, NEW tok, Parse(type, tok)
    PROVE  ChildrenAreYounger'
<1>1. ASSUME UNCHANGED blocks PROVE ChildrenAreYounger'
  BY <1>1 DEF ChildrenAreYounger
<1>2. CASE type = "COMMENT" \/ ~Allowed(type)
  BY <1>1, <1>2 DEF Parse
<1>3. CASE type # "COMMENT" /\ Allowed(type)
  <2>1. type \in {"NORMAL", "START_BLOCK", "END_BLOCK", "EOF", "STATEMENT_END"}
    BY <1>3 DEF Allowed
  <2>2. CASE config_stack = <<>> /\ type # "STATEMENT_END"
    <3>1. Undefined
      BY <1>3, <2>2 DEF Parse
    <3> QED BY <1>1, <3>1 DEF Undefined
  <2>3. CASE type = "NORMAL" /\ config_stack # <<>>
    <3>1. AddToken(tok)
      BY <1>3, <2>3 DEF Parse
    <3> QED BY <2>3, <3>1, AddTokenYounger
  <2>4. CASE type = "START_BLOCK" /\ config_stack # <<>>
    <3>1. OpenBlock /\ last_token_type = "NORMAL"
      BY <1>3, <2>4 DEF Parse, Allowed
    <3> QED BY <2>4, <3>1, OpenBlockYounger
  <2>5. CASE type \in {"END_BLOCK", "EOF"} /\ config_stack # <<>>
    <3>1. UNCHANGED blocks
      BY <1>3, <2>5 DEF Parse, PopAtEnd
    <3> QED BY <1>1, <3>1
  <2>6. CASE type = "STATEMENT_END"
    <3>1. UNCHANGED blocks
      BY <1>3, <2>6 DEF Parse
    <3> QED BY <1>1, <3>1
  <2> QED BY <2>1, <2>2, <2>3, <2>4, <2>5, <2>6
<1> QED BY <1>2, <1>3

LEMMA YoungerStep == IInv /\ ChildrenAreYounger /\ [Next]_vars => ChildrenAreYounger'
<1> SUFFICES ASSUME IInv, ChildrenAreYounger, [Next]_vars PROVE ChildrenAreYounger'
  OBVIOUS
<1>1. ASSUME UNCHANGED blocks PROVE ChildrenAreYounger'
  BY <1>1 DEF ChildrenAreYounger
<1>2. CASE ParseToken
  <2>1. ASSUME NEW type, NEW tok, Parse(type, tok), outcome = "parsing" PROVE ChildrenAreYounger'
    BY <2>1, ParseYounger
  <2> QED BY <1>1, <1>2, <2>1 DEF ParseToken
<1>3. CASE ParseTokenEnds
  BY <1>1, <1>3, ParseYounger DEF ParseTokenEnds
<1>4. CASE (\E p \in Phrases : Write(p)) \/ End \/ main \/ UNCHANGED vars
  <2>1. UNCHANGED blocks
    BY <1>4 DEF Write, End, main, vars
  <2> QED BY <1>1, <2>1
<1> QED BY <1>2, <1>3, <1>4 DEF Next

\* The blocks that Parse builds are finitely deep, whatever the file: the search of
\* main for ports and threads, which goes from a statement to its block, ends
\* (NginxConfig::get_port, get_threads, ToString).
THEOREM BlocksEndSomewhere == Spec => []ChildrenAreYounger
<1>1. Init => ChildrenAreYounger
  BY DEF Init, ChildrenAreYounger
<1> QED BY <1>1, IInvInit, IInvStep, YoungerStep, PTL DEF Spec

-----------------------------------------------------------------------------
(* Recursive definitions: a set of numbers has a least one, hence induction;  *)
(* a definition that descends has a solution, and a fold is such a definition.*)

\* A set of numbers has a least one.
LEMMA LeastExists == ASSUME NEW A \in SUBSET Nat, A # {} PROVE \E x \in A : \A y \in A : x =< y
<1> DEFINE R == StrictSubsetOrdering(Nat)
           T == {0..x : x \in A}
<1>1. T \subseteq FiniteSubsetsOf(Nat)
  <2>1. ASSUME NEW x \in A PROVE 0..x \in FiniteSubsetsOf(Nat)
    <3>1. IsFiniteSet(0..x)
      BY FS_Interval
    <3> QED BY <3>1 DEF FiniteSubsetsOf
  <2> QED BY <2>1
<1>2. PICK s \in T : \A r \in T : ~(<<r, s>> \in R)
  <2>1. T # {}
    OBVIOUS
  <2>2. IsWellFoundedOn(R, FiniteSubsetsOf(Nat))
    BY FS_StrictSubsetOrderingWellFounded
  <2> QED BY <1>1, <2>1, <2>2, WFMin
<1>3. PICK x \in A : s = 0..x
  OBVIOUS
<1>4. ASSUME NEW y \in A, y < x PROVE FALSE
  <2>1. 0..y \subseteq 0..x /\ 0..y # 0..x
    <3>1. x \in 0..x /\ x \notin 0..y
      BY <1>4
    <3> QED BY <3>1, <1>4
  <2>2. <<0..y, 0..x>> \in R
    BY <2>1 DEF StrictSubsetOrdering
  <2> QED BY <2>2, <1>2, <1>3
<1> QED BY <1>4

\* Induction, for a set of numbers.
LEMMA Induction ==
    ASSUME NEW A, 0 \in A, \A n \in Nat : n \in A => n + 1 \in A
    PROVE  Nat \subseteq A
<1> DEFINE B == Nat \ A
<1> SUFFICES ASSUME B # {} PROVE FALSE
  OBVIOUS
<1>1. PICK x \in B : \A y \in B : x =< y
  BY LeastExists
<1>2. x \in Nat /\ x # 0
  OBVIOUS
<1>3. x - 1 \in Nat /\ x - 1 \in A
  BY <1>1, <1>2
<1> QED BY <1>2, <1>3

\* A recursive definition on D with values in V: what it makes of a function f is
\* G[f], and its value at d depends on those of lower rank.
Recursive(D, V, N, rank, G) ==
    /\ N \in Nat /\ rank \in [D -> 0..N] /\ [D -> V] # {}
    /\ G \in [[D -> V] -> [D -> V]]
    /\ \A g, h \in [D -> V] : \A d \in D :
          (\A e \in D : rank[e] < rank[d] => g[e] = h[e]) => G[g][d] = G[h][d]

\* Some function satisfies it.
Defines(D, V, G) == \E f \in [D -> V] : f = G[f]

LEMMA Recursion ==
    ASSUME NEW D, NEW V, NEW N, NEW rank, NEW G, Recursive(D, V, N, rank, G)
    PROVE  Defines(D, V, G)
<1> USE DEF Recursive, Defines
<1> DEFINE A == {n \in Nat : \E f \in [D -> V] : \A d \in D : rank[d] < n => G[f][d] = f[d]}
<1>1. 0 \in A
  <2>1. PICK f \in [D -> V] : TRUE
    OBVIOUS
  <2>2. \A d \in D : ~(rank[d] < 0)
    OBVIOUS
  <2> QED BY <2>1, <2>2
<1>2. ASSUME NEW n \in Nat, n \in A PROVE n + 1 \in A
  <2>1. PICK f \in [D -> V] : \A d \in D : rank[d] < n => G[f][d] = f[d]
    BY <1>2
  <2>2. G[f] \in [D -> V]
    OBVIOUS
  <2>3. ASSUME NEW d \in D, rank[d] < n + 1 PROVE G[G[f]][d] = G[f][d]
    <3>1. \A e \in D : rank[e] < rank[d] => rank[e] < n
      BY <2>3
    <3> QED BY <2>1, <2>2, <3>1
  <2> QED BY <2>2, <2>3
<1> HIDE DEF A
<1>3. N + 1 \in A
  BY <1>1, <1>2, Induction
<1>4. PICK f \in [D -> V] : \A d \in D : rank[d] < N + 1 => G[f][d] = f[d]
  BY <1>3 DEF A
<1>5. \A d \in D : G[f][d] = f[d]
  BY <1>4
<1>6. G[f] = f
  <2>1. G[f] \in [D -> V]
    OBVIOUS
  <2> QED BY <1>5, <2>1
<1> QED BY <1>6

\* FoldLeft takes the elements from the last: Max(1..k) is k.
LEMMA LastIsMax ==
    ASSUME NEW k \in Nat
    PROVE  1..(k + 1) # {} /\ Max(1..(k + 1)) = k + 1 /\ 1..(k + 1) \ {Max(1..(k + 1))} = 1..k
<1>1. k + 1 \in 1..(k + 1) /\ \A y \in 1..(k + 1) : k + 1 >= y
  OBVIOUS
<1>2. Max(1..(k + 1)) \in 1..(k + 1) /\ \A y \in 1..(k + 1) : Max(1..(k + 1)) >= y
  BY <1>1 DEF Max
<1>3. Max(1..(k + 1)) = k + 1
  BY <1>1, <1>2
<1> QED BY <1>1, <1>3

\* The Max of a set of positions, and what is left without it.
LEMMA SomeMax ==
    ASSUME NEW n \in Nat, NEW s \in SUBSET (1..n), s # {}
    PROVE  Max(s) \in s /\ s \ {Max(s)} \in SUBSET (1..n)
<1> DEFINE B == {n - x : x \in s}
<1>1. B \in SUBSET Nat /\ B # {}
  <2>1. \A x \in s : n - x \in Nat
    OBVIOUS
  <2> QED BY <2>1
<1>2. PICK b \in B : \A y \in B : b =< y
  BY <1>1, LeastExists
<1>3. PICK x \in s : b = n - x
  OBVIOUS
<1>4. \A y \in s : x >= y
  <2> SUFFICES ASSUME NEW y \in s PROVE x >= y
    OBVIOUS
  <2>1. n - x =< n - y
    BY <1>2, <1>3
  <2> QED BY <2>1
<1> QED BY <1>3, <1>4 DEF Max

\* The values of a fold with step function st, for each set of positions.
Folds(V, S, st, base, p, f) ==
    /\ f \in [SUBSET DOMAIN p -> V]
    /\ f[{}] = base
    /\ \A s \in SUBSET DOMAIN p : s # {} =>
          /\ f[s \ {Max(s)}] \in V /\ p[Max(s)] \in S
          /\ f[s] = st[<<f[s \ {Max(s)}], p[Max(s)]>>]

LEMMA FoldExists ==
    ASSUME NEW S, NEW V, NEW st \in [V \X S -> V], NEW base \in V, NEW p \in Seq(S)
    PROVE  \E f : Folds(V, S, st, base, p, f)
<1> DEFINE D == SUBSET DOMAIN p
           n == Len(p)
           rank == [s \in D |-> Cardinality(s)]
           G == [f \in [D -> V] |->
                   [s \in D |-> IF s = {} THEN base ELSE st[<<f[s \ {Max(s)}], p[Max(s)]>>]]]
<1>1. n \in Nat /\ DOMAIN p = 1..n /\ \A i \in 1..n : p[i] \in S
  BY LenProperties, ElementOfSeq
<1>2. \A s \in D : s # {} => Max(s) \in s /\ Max(s) \in 1..n /\ s \ {Max(s)} \in D
  <2> HIDE DEF n
  <2> QED BY <1>1, SomeMax
<1>3. IsFiniteSet(1..n) /\ Cardinality(1..n) = n
  <2> HIDE DEF n, D
  <2>1. 1 \in Int /\ n \in Int
    BY <1>1
  <2>2. Cardinality(1..n) = IF 1 > n THEN 0 ELSE n - 1 + 1
    BY <2>1, FS_Interval
  <2> QED BY <1>1, <2>1, <2>2, FS_Interval
<1>4. \A s \in D : IsFiniteSet(s) /\ Cardinality(s) \in 0..n
  <2> SUFFICES ASSUME NEW s \in D PROVE IsFiniteSet(s) /\ Cardinality(s) \in 0..n
    OBVIOUS
  <2>1. IsFiniteSet(s) /\ Cardinality(s) <= n
    BY <1>1, <1>3, FS_Subset
  <2>2. Cardinality(s) \in Nat
    BY <2>1, FS_CardinalityType
  <2> HIDE DEF n
  <2> QED BY <1>1, <2>1, <2>2
<1> HIDE DEF n
<1>5. \A s \in D : s # {} => Cardinality(s \ {Max(s)}) < Cardinality(s)
  <2> SUFFICES ASSUME NEW s \in D, s # {} PROVE Cardinality(s \ {Max(s)}) < Cardinality(s)
    OBVIOUS
  <2>1. Cardinality(s \ {Max(s)}) = Cardinality(s) - 1
    BY <1>2, <1>4, FS_RemoveElement
  <2>2. Cardinality(s) \in Nat
    BY <1>1, <1>4
  <2> QED BY <2>1, <2>2
<1>6. rank \in [D -> 0..n]
  BY <1>4
<1>7. \A f \in [D -> V] : \A s \in D :
         (IF s = {} THEN base ELSE st[<<f[s \ {Max(s)}], p[Max(s)]>>]) \in V
  <2> SUFFICES ASSUME NEW f \in [D -> V], NEW s \in D, s # {}
               PROVE  st[<<f[s \ {Max(s)}], p[Max(s)]>>] \in V
    OBVIOUS
  <2>1. f[s \ {Max(s)}] \in V /\ p[Max(s)] \in S
    BY <1>1, <1>2
  <2> QED BY <2>1
<1> HIDE DEF D
<1>8. G \in [[D -> V] -> [D -> V]]
  BY <1>7
<1>9. [D -> V] # {}
  <2>1. [s \in D |-> base] \in [D -> V]
    OBVIOUS
  <2> QED BY <2>1
<1>10. ASSUME NEW g \in [D -> V], NEW h \in [D -> V], NEW s \in D,
              \A e \in D : rank[e] < rank[s] => g[e] = h[e]
       PROVE  G[g][s] = G[h][s]
  <2>1. s # {} => g[s \ {Max(s)}] = h[s \ {Max(s)}]
    BY <1>2, <1>5, <1>10
  <2> QED BY <2>1
<1>11. Recursive(D, V, n, rank, G)
  <2> HIDE DEF G, rank
  <2> QED BY <1>1, <1>6, <1>8, <1>9, <1>10 DEF Recursive
<1>12. Defines(D, V, G)
  <2> HIDE DEF G, rank
  <2> QED BY <1>11, Recursion
<1>13. PICK f \in [D -> V] : f = G[f]
  <2> HIDE DEF G
  <2> QED BY <1>12 DEF Defines
<1>14. /\ f[{}] = base
       /\ \A s \in D : s # {} => f[s] = st[<<f[s \ {Max(s)}], p[Max(s)]>>]
  <2>1. {} \in D
    BY DEF D
  <2>2. f = [s \in D |-> IF s = {} THEN base ELSE st[<<f[s \ {Max(s)}], p[Max(s)]>>]]
    BY <1>13
  <2>3. \A s \in D : f[s] = IF s = {} THEN base ELSE st[<<f[s \ {Max(s)}], p[Max(s)]>>]
    BY <2>2, Zenon
  <2> QED BY <2>1, <2>3
<1>15. \A s \in D : s # {} => f[s \ {Max(s)}] \in V /\ p[Max(s)] \in S
  BY <1>1, <1>2
<1> QED BY <1>14, <1>15 DEF D, Folds

\* The values of the fold for the first k elements of p, as k grows.
Accumulates(V, st, base, p, a) ==
    /\ a \in [0..Len(p) -> V]
    /\ a[0] = base
    /\ \A k \in 0..(Len(p) - 1) : a[k + 1] = st[<<a[k], p[k + 1]>>]

FoldsTo(V, st, base, p, v) == \E a : Accumulates(V, st, base, p, a) /\ v = a[Len(p)]

\* A table that follows the step function on V takes these values.
TableOf(V, st, base, p, g) ==
    /\ g[{}] = base
    /\ \A s \in SUBSET DOMAIN p : s # {} /\ g[s \ {Max(s)}] \in V =>
          g[s] = st[<<g[s \ {Max(s)}], p[Max(s)]>>]

LEMMA FoldSteps ==
    ASSUME NEW S, NEW V, NEW st \in [V \X S -> V], NEW base \in V, NEW p \in Seq(S), NEW g,
           TableOf(V, st, base, p, g)
    PROVE  FoldsTo(V, st, base, p, g[DOMAIN p])
<1> DEFINE n == Len(p)
           a == [k \in 0..n |-> g[1..k]]
           A == {k \in Nat : k <= n => g[1..k] \in V}
<1>1. n \in Nat /\ DOMAIN p = 1..n /\ \A i \in 1..n : p[i] \in S
  BY LenProperties, ElementOfSeq
<1> HIDE DEF n
<1>2. 1..0 = {}
  OBVIOUS
<1>3. 0 \in A
  BY <1>2 DEF TableOf
<1>4. ASSUME NEW k \in Nat, k + 1 <= n, g[1..k] \in V
      PROVE  g[1..(k + 1)] = st[<<g[1..k], p[k + 1]>>] /\ g[1..(k + 1)] \in V
  <2>1. 1..(k + 1) \in SUBSET DOMAIN p /\ k + 1 \in 1..n
    BY <1>1, <1>4
  <2>2. /\ 1..(k + 1) # {} /\ Max(1..(k + 1)) = k + 1
        /\ 1..(k + 1) \ {Max(1..(k + 1))} = 1..k
    BY LastIsMax
  <2>3. g[1..(k + 1)] = st[<<g[1..k], p[k + 1]>>]
    <3>1. g[1..(k + 1) \ {Max(1..(k + 1))}] \in V
      BY <1>4, <2>2
    <3>2. g[1..(k + 1)] = st[<<g[1..(k + 1) \ {Max(1..(k + 1))}], p[Max(1..(k + 1))]>>]
      BY <2>1, <2>2, <3>1 DEF TableOf
    <3> QED BY <2>2, <3>2
  <2>4. <<g[1..k], p[k + 1]>> \in V \X S
    BY <1>1, <1>4, <2>1
  <2> QED BY <2>3, <2>4
<1>5. ASSUME NEW k \in Nat, k \in A PROVE k + 1 \in A
  <2> SUFFICES ASSUME k + 1 <= n PROVE g[1..(k + 1)] \in V
    OBVIOUS
  <2>1. k <= n
    BY <1>1
  <2> QED BY <1>4, <1>5, <2>1
<1> HIDE DEF A
<1>6. Nat \subseteq A
  BY <1>3, <1>5, Induction
<1>7. \A k \in 0..n : g[1..k] \in V
  BY <1>1, <1>6 DEF A
<1>8. a \in [0..n -> V] /\ a[0] = base
  BY <1>1, <1>2, <1>7 DEF TableOf
<1>9. \A k \in 0..(n - 1) : a[k + 1] = st[<<a[k], p[k + 1]>>]
  <2> SUFFICES ASSUME NEW k \in 0..(n - 1) PROVE a[k + 1] = st[<<a[k], p[k + 1]>>]
    OBVIOUS
  <2>1. k \in Nat /\ k + 1 <= n /\ k \in 0..n /\ k + 1 \in 0..n
    BY <1>1
  <2> QED BY <1>4, <1>7, <2>1
<1>10. g[DOMAIN p] = a[n]
  BY <1>1
<1> HIDE DEF a
<1> QED BY <1>8, <1>9, <1>10 DEF Accumulates, FoldsTo, n

\* The values depend on the elements up to there.
LEMMA SameSteps ==
    ASSUME NEW V, NEW st, NEW base, NEW p, NEW q, NEW a, NEW b,
           Accumulates(V, st, base, p, a), Accumulates(V, st, base, q, b),
           NEW m \in Nat, Len(p) \in Nat, Len(q) \in Nat, m <= Len(p), m <= Len(q),
           \A i \in 1..m : p[i] = q[i]
    PROVE  a[m] = b[m]
<1> DEFINE A == {k \in Nat : k <= m => a[k] = b[k]}
<1>1. 0 \in A
  BY DEF Accumulates
<1>2. ASSUME NEW k \in Nat, k \in A PROVE k + 1 \in A
  <2> SUFFICES ASSUME k + 1 <= m PROVE a[k + 1] = b[k + 1]
    OBVIOUS
  <2>1. k \in 0..(Len(p) - 1) /\ k \in 0..(Len(q) - 1) /\ k + 1 \in 1..m /\ k <= m
    OBVIOUS
  <2>2. a[k + 1] = st[<<a[k], p[k + 1]>>] /\ b[k + 1] = st[<<b[k], q[k + 1]>>]
    BY <2>1 DEF Accumulates
  <2> QED BY <1>2, <2>1, <2>2
<1> HIDE DEF A
<1>3. m \in A
  BY <1>1, <1>2, Induction
<1> QED BY <1>3 DEF A

-----------------------------------------------------------------------------
(* The types of what is read                                               *)

\* The text of a phrase, one lexeme more.
Wr(t, l) == t \o l \o (IF IsWord(l) THEN <<" ">> ELSE <<>>)

WrTable(p, f) ==
    f = [s \in SUBSET DOMAIN p |-> IF s = {} THEN <<>> ELSE Wr(f[s \ {Max(s)}], p[Max(s)])]

LEMMA WrittenIs == ASSUME NEW p PROVE Written(p) = (CHOOSE f : WrTable(p, f))[DOMAIN p]
BY Zenon DEF Written, WrTable, Wr, FoldLeft, MapThenFoldSet

LEMMA SingletonSeq == ASSUME NEW S, NEW e \in S PROVE <<e>> \in Seq(S)
<1>1. <<e>> = Append(<<>>, e) /\ <<>> \in Seq(S)
  BY EmptySeq
<1> QED BY <1>1, AppendProperties

LEMMA WrType ==
    ASSUME NEW t \in Seq(Chars), NEW l \in Lexeme
    PROVE  Wr(t, l) \in Seq(Chars)
<1>1. t \o l \in Seq(Chars)
  BY ConcatProperties DEF Lexeme
<1>2. <<" ">> \in Seq(Chars) /\ <<>> \in Seq(Chars)
  <2>1. " " \in Chars
    BY DEF Chars, Blank
  <2> QED BY <2>1, SingletonSeq, EmptySeq
<1> QED BY <1>1, <1>2, ConcatProperties DEF Wr

WrStep == [x \in Seq(Chars) \X Lexeme |-> Wr(x[1], x[2])]

LEMMA WrStepIs ==
    /\ WrStep \in [Seq(Chars) \X Lexeme -> Seq(Chars)]
    /\ \A t \in Seq(Chars), l \in Lexeme : WrStep[<<t, l>>] = Wr(t, l)
BY WrType DEF WrStep

\* What is written of a phrase, lexeme by lexeme.
LEMMA WrittenSteps ==
    ASSUME NEW p \in Seq(Lexeme)
    PROVE  FoldsTo(Seq(Chars), WrStep, <<>>, p, Written(p))
<1> DEFINE V == Seq(Chars)
<1>1. <<>> \in V /\ WrStep \in [V \X Lexeme -> V]
  BY WrStepIs, EmptySeq
<1>2. \A t \in V, l \in Lexeme : WrStep[<<t, l>>] = Wr(t, l)
  BY WrStepIs
<1>3. \A s \in SUBSET DOMAIN p : s # {} => p[Max(s)] \in Lexeme
  BY LenProperties, ElementOfSeq, SomeMax
<1> HIDE DEF V
<1>4. PICK f : Folds(V, Lexeme, WrStep, <<>>, p, f)
  BY <1>1, FoldExists, Zenon
<1>5. WrTable(p, f)
  <2>1. \A s \in SUBSET DOMAIN p :
           f[s] = IF s = {} THEN <<>> ELSE Wr(f[s \ {Max(s)}], p[Max(s)])
    BY <1>2, <1>4 DEF Folds
  <2>2. f = [s \in SUBSET DOMAIN p |-> f[s]]
    BY <1>4 DEF Folds
  <2>3. [s \in SUBSET DOMAIN p |-> f[s]]
          = [s \in SUBSET DOMAIN p |-> IF s = {} THEN <<>> ELSE Wr(f[s \ {Max(s)}], p[Max(s)])]
    BY <2>1, Zenon
  <2> QED BY <2>2, <2>3, Zenon DEF WrTable
<1>6. PICK g : WrTable(p, g) /\ Written(p) = g[DOMAIN p]
  BY <1>5, WrittenIs
<1>7. \A s \in SUBSET DOMAIN p : g[s] = IF s = {} THEN <<>> ELSE Wr(g[s \ {Max(s)}], p[Max(s)])
  BY <1>6, Zenon DEF WrTable
<1>8. TableOf(V, WrStep, <<>>, p, g)
  BY <1>2, <1>3, <1>7 DEF TableOf
<1>9. FoldsTo(V, WrStep, <<>>, p, g[DOMAIN p])
  BY <1>1, <1>8, FoldSteps, Zenon
<1> QED BY <1>6, <1>9 DEF V

LEMMA WrittenType == ASSUME NEW p \in Seq(Lexeme) PROVE Written(p) \in Seq(Chars)
<1>1. PICK a : Accumulates(Seq(Chars), WrStep, <<>>, p, a) /\ Written(p) = a[Len(p)]
  BY WrittenSteps DEF FoldsTo
<1>2. Len(p) \in Nat
  BY LenProperties
<1>3. Len(p) \in 0..Len(p)
  BY <1>2
<1> QED BY <1>1, <1>3 DEF Accumulates

\* What is written before a token.
LEMMA LayoutType == ASSUME NEW l, NEW b \in Layout(l) PROVE b \in Seq(Chars)
<1>1. " " \in Chars /\ "\n" \in Chars
  BY DEF Chars, Blank
<1>2. <<" ">> \in Seq(Chars) /\ <<"\n">> \in Seq(Chars) /\ <<>> \in Seq(Chars)
  BY <1>1, SingletonSeq, EmptySeq
<1> QED BY <1>2 DEF Layout

LEMMA PhraseFacts ==
    ASSUME NEW p \in Phrases
    PROVE  /\ p \in Seq(Lexeme)
           /\ p # <<>> /\ Head(p) \in Lexeme
<1>1. p \in Seq(Lexeme) /\ p # <<>>
  BY ConfigParserAssumption
<1>2. Head(p) \in Lexeme
  BY <1>1, HeadTailProperties
<1> QED BY <1>1, <1>2

LEMMA FrontType ==
    ASSUME NEW S, NEW s \in Seq(S), s # <<>>
    PROVE  Front(s) \in Seq(S)
<1>1. Len(s) \in Nat \ {0} /\ Front(s) = SubSeq(s, 1, Len(s) - 1)
  BY EmptySeq DEF Front
<1>2. SubSeq(s, 1, Len(s) - 1) \in Seq(S)
  <2>1. \A i \in 1..(Len(s) - 1) : s[i] \in S
    BY <1>1, ElementOfSeq
  <2> QED BY <1>1, <2>1, SubSeqProperties
<1> QED BY <1>1, <1>2

\* The tokens of a statement stay in a set that one more word does not leave.
LEMMA BlocksStay ==
    ASSUME IInv, NEW L, blocks \in Seq(Seq(StatementsOf(L))), outcome = "parsing",
           NEW type, NEW tok, Parse(type, tok),
           type = "NORMAL" => <<tok>> \in L /\ \A l \in L : Append(l, tok) \in L
    PROVE  blocks' \in Seq(Seq(StatementsOf(L))) /\ Len(blocks') >= Len(blocks)
<1> DEFINE c   == Last(config_stack)
           old == blocks[c]
           n   == Len(blocks)
<1>0. n \in Nat
  BY StackFacts
<1>1. CASE UNCHANGED blocks
  BY <1>0, <1>1
<1>2. CASE type = "NORMAL" /\ config_stack # <<>> /\ AddToken(tok)
  <2>1. /\ old \in Seq(StatementsOf(L)) /\ c \in 1..n
        /\ last_token_type = "NORMAL" => old # <<>> /\ Last(old) \in StatementsOf(L)
    <3>1. c = config_stack[Len(config_stack)]
      BY DEF Last
    <3>2. c \in 1..n
      BY <1>2, <3>1, StackFacts
    <3> QED BY <1>0, <1>2, <3>2, StatementFacts
  <2>2. PICK new \in Seq(StatementsOf(L)) : blocks' = [blocks EXCEPT ![c] = new]
    <3>1. CASE last_token_type = "NORMAL"
      <4> DEFINE s == Last(old)
                 e == [s EXCEPT !.tokens = Append(@, tok)]
      <4>1. blocks' = [blocks EXCEPT ![c] = [old EXCEPT ![Len(old)] = e]]
        BY <1>2, <3>1 DEF AddToken, Top, Statements, Last
      <4>2. e \in StatementsOf(L)
        <5>1. s \in StatementsOf(L) /\ s.tokens \in L
          BY <2>1, <3>1 DEF StatementsOf
        <5> HIDE DEF s
        <5>2. Append(s.tokens, tok) \in L
          BY <1>2, <5>1
        <5> QED BY <5>1, <5>2 DEF StatementsOf
      <4> HIDE DEF e, old
      <4>3. [old EXCEPT ![Len(old)] = e] \in Seq(StatementsOf(L))
        BY <2>1, <3>1, <4>2, LastChanges
      <4> QED BY <4>1, <4>3
    <3>2. CASE last_token_type # "NORMAL"
      <4> DEFINE f == [tokens |-> <<tok>>, child |-> 0]
      <4>1. blocks' = [blocks EXCEPT ![c] = Append(old, f)]
        BY <1>2, <3>2 DEF AddToken, Top
      <4>2. f \in StatementsOf(L)
        <5>1. <<tok>> \in L
          BY <1>2
        <5> QED BY <5>1 DEF StatementsOf
      <4> HIDE DEF f, old
      <4>3. Append(old, f) \in Seq(StatementsOf(L))
        BY <2>1, <4>2, AppendProperties
      <4> QED BY <4>1, <4>3
    <3> QED BY <3>1, <3>2
  <2> HIDE DEF c, n
  <2>3. blocks' \in Seq(Seq(StatementsOf(L))) /\ Len(blocks') = Len(blocks)
    BY <2>1, <2>2, ExceptSeq DEF n
  <2> QED BY <1>0, <2>3 DEF n
<1>3. CASE config_stack # <<>> /\ last_token_type = "NORMAL" /\ OpenBlock
  <2> DEFINE s   == Last(old)
             e   == [s EXCEPT !.child = n + 1]
             new == [old EXCEPT ![Len(old)] = e]
             mid == [blocks EXCEPT ![c] = new]
  <2>1. old \in Seq(StatementsOf(L)) /\ c \in 1..n /\ old # <<>> /\ s \in StatementsOf(L)
    <3>1. c = config_stack[Len(config_stack)]
      BY DEF Last
    <3>2. c \in 1..n
      BY <1>3, <3>1, StackFacts
    <3> QED BY <1>0, <1>3, <3>2, StatementFacts
  <2>2. blocks' = Append(mid, <<>>)
    BY <1>3 DEF OpenBlock, Top, Statements, Last
  <2>3. e \in StatementsOf(L)
    <3> HIDE DEF s, n
    <3>1. n + 1 \in Nat /\ s.tokens \in L
      BY <1>0, <2>1 DEF StatementsOf
    <3> QED BY <2>1, <3>1 DEF StatementsOf
  <2> HIDE DEF e, old
  <2>4. new \in Seq(StatementsOf(L))
    BY <2>1, <2>3, LastChanges
  <2> HIDE DEF new, c
  <2>5. mid \in Seq(Seq(StatementsOf(L))) /\ Len(mid) = n
    BY <2>1, <2>4, ExceptSeq
  <2> HIDE DEF mid, n
  <2>6. <<>> \in Seq(StatementsOf(L))
    BY EmptySeq
  <2> DEFINE U == Seq(StatementsOf(L))
  <2>7. mid \in Seq(U) /\ <<>> \in U
    BY <2>5, <2>6
  <2> HIDE DEF U
  <2>8. blocks' \in Seq(U) /\ Len(blocks') = n + 1
    BY <2>2, <2>5, <2>7, AppendProperties
  <2> QED BY <1>0, <2>8 DEF n, U
<1>4. UNCHANGED blocks \/ (type = "NORMAL" /\ config_stack # <<>> /\ AddToken(tok))
        \/ (config_stack # <<>> /\ last_token_type = "NORMAL" /\ OpenBlock)
  <2>1. CASE type = "COMMENT" \/ ~Allowed(type)
    BY <2>1 DEF Parse
  <2>2. CASE type # "COMMENT" /\ Allowed(type)
    <3>1. type \in {"NORMAL", "START_BLOCK", "END_BLOCK", "EOF", "STATEMENT_END"}
      BY <2>2 DEF Allowed
    <3>2. CASE config_stack = <<>> /\ type # "STATEMENT_END"
      BY <2>2, <3>2 DEF Parse, Undefined
    <3>3. CASE config_stack # <<>> \/ type = "STATEMENT_END"
      BY <2>2, <3>1, <3>3 DEF Parse, PopAtEnd, Allowed
    <3> QED BY <3>2, <3>3
  <2> QED BY <2>1, <2>2
<1> QED BY <1>1, <1>2, <1>3, <1>4

\* The words and the statements of the blocks.
LEMMA BlocksType ==
    ASSUME IInv, blocks \in Seq(Seq(Statement)), outcome = "parsing",
           NEW type, NEW tok \in Lexeme, Parse(type, tok)
    PROVE  blocks' \in Seq(Seq(Statement)) /\ Len(blocks') >= Len(blocks)
<1>1. PICK L : L = Seq(Lexeme)
  OBVIOUS
<1>2. Statement = StatementsOf(L)
  BY <1>1 DEF Statement, StatementsOf
<1>3. <<tok>> \in L /\ \A l \in L : Append(l, tok) \in L
  BY <1>1, SingletonSeq, AppendProperties
<1> QED BY <1>2, <1>3, BlocksStay

-----------------------------------------------------------------------------
(* The ports that get_port finds                                           *)

\* What get_port makes of one more statement, given what g finds in its block.
PortsWith(g, r, s) ==
    IF r.stop # "" THEN r
    ELSE IF Misplaced(s) THEN [r EXCEPT !.stop = "undefined"]
    ELSE IF Malformed(s) THEN [r EXCEPT !.stop = "false"]
    ELSE IF Listens(s)   THEN [r EXCEPT !.ports = Append(@, PortOf(s))]
    ELSE IF s.child = 0  THEN r
    ELSE [ports |-> r.ports \o g[s.child].ports,
          stop  |-> IF g[s.child].stop = "undefined" THEN "undefined" ELSE ""]

NoPorts == [ports |-> <<>>, stop |-> ""]

PortsTable(g, p, f) ==
    f = [s \in SUBSET DOMAIN p |->
           IF s = {} THEN NoPorts ELSE PortsWith(g, f[s \ {Max(s)}], p[Max(s)])]

PortsIn(g, p) == (CHOOSE f : PortsTable(g, p, f))[DOMAIN p]

LEMMA GetPortIs == get_port = CHOOSE g : g = [b \in 1..Len(blocks) |-> PortsIn(g, blocks[b])]
BY Zenon DEF get_port, PortsIn, PortsTable, PortsWith, NoPorts, FoldLeft, MapThenFoldSet

Found == [ports : Seq(Port), stop : {"", "false", "undefined"}]

LEMMA FoundIs ==
    ASSUME NEW a \in Seq(Port), NEW b \in {"", "false", "undefined"}
    PROVE  [ports |-> a, stop |-> b] \in Found
<1> DEFINE Q == Seq(Port)
<1>1. a \in Q
  OBVIOUS
<1> HIDE DEF Q
<1>2. [ports |-> a, stop |-> b] \in [ports : Q, stop : {"", "false", "undefined"}]
  BY <1>1
<1> QED BY <1>2 DEF Found, Q

\* The statements that have no block or one of a set.
StatementsWith(D) == {s \in Statement : s.child = 0 \/ s.child \in D}

\* A sequence whose elements are in a set.
LEMMA SeqOver ==
    ASSUME NEW S, NEW T, NEW s \in Seq(S), \A i \in 1..Len(s) : s[i] \in T
    PROVE  s \in Seq(T)
BY LenProperties

\* What holds of a number when it holds of the greater ones holds of all.
LEMMA Downwards ==
    ASSUME NEW n \in Nat, NEW P, \A b \in 1..n : (b + 1)..n \subseteq P => b \in P
    PROVE  1..n \subseteq P
<1> DEFINE A == {k \in Nat : k <= n => (n - k + 1)..n \subseteq P}
<1>1. 0 \in A
  OBVIOUS
<1>2. ASSUME NEW k \in Nat, k \in A PROVE k + 1 \in A
  <2> SUFFICES ASSUME k + 1 <= n PROVE (n - k)..n \subseteq P
    OBVIOUS
  <2>1. (n - k + 1)..n \subseteq P /\ n - k \in 1..n
    BY <1>2
  <2>2. n - k \in P
    BY <2>1
  <2>3. (n - k)..n = {n - k} \cup (n - k + 1)..n
    BY <2>1
  <2> QED BY <2>1, <2>2, <2>3
<1> HIDE DEF A
<1>3. n \in A
  BY <1>1, <1>2, Induction
<1> QED BY <1>3 DEF A

LEMMA PortsWithType ==
    ASSUME NEW D, NEW g \in [D -> Found], NEW r \in Found, NEW s \in StatementsWith(D)
    PROVE  PortsWith(g, r, s) \in Found
<1>0. s \in Statement /\ (s.child = 0 \/ s.child \in D)
  BY DEF StatementsWith
<1>1. CASE r.stop # ""
  BY <1>1 DEF PortsWith
<1>2. CASE r.stop = ""
  <2>1. CASE Misplaced(s) \/ Malformed(s)
    BY <1>2, <2>1 DEF PortsWith, Found
  <2>2. CASE ~Misplaced(s) /\ ~Malformed(s) /\ Listens(s)
    <3>1. PortOf(s) \in Port
      <4>1. s.tokens \in Seq(Lexeme) /\ Len(s.tokens) = 3
        BY <1>0, <2>2 DEF Statement, Listens
      <4>2. s.tokens[2] \in Lexeme /\ s.tokens[3] \in Lexeme
        BY <4>1, ElementOfSeq
      <4> QED BY <4>2 DEF PortOf, Port
    <3>2. Append(r.ports, PortOf(s)) \in Seq(Port)
      <4>1. r.ports \in Seq(Port)
        BY DEF Found
      <4> QED BY <3>1, <4>1, AppendProperties
    <3>3. PortsWith(g, r, s) = [r EXCEPT !.ports = Append(r.ports, PortOf(s))]
      BY <1>2, <2>2 DEF PortsWith
    <3>4. r.stop \in {"", "false", "undefined"}
      BY DEF Found
    <3>5. PortsWith(g, r, s) = [ports |-> Append(r.ports, PortOf(s)), stop |-> r.stop]
      BY <3>3 DEF Found
    <3> QED BY <3>2, <3>4, <3>5, FoundIs
  <2>3. CASE ~Misplaced(s) /\ ~Malformed(s) /\ ~Listens(s)
    <3>1. CASE s.child = 0
      BY <1>2, <2>3, <3>1 DEF PortsWith
    <3>2. CASE s.child # 0
      <4>1. g[s.child] \in Found
        BY <1>0, <3>2
      <4>2. r.ports \o g[s.child].ports \in Seq(Port)
        <5>1. r.ports \in Seq(Port) /\ g[s.child].ports \in Seq(Port)
          BY <4>1 DEF Found
        <5> QED BY <5>1, ConcatProperties
      <4>3. PortsWith(g, r, s) =
              [ports |-> r.ports \o g[s.child].ports,
               stop  |-> IF g[s.child].stop = "undefined" THEN "undefined" ELSE ""]
        BY <1>2, <2>3, <3>2 DEF PortsWith
      <4> QED BY <4>2, <4>3, FoundIs
    <3> QED BY <3>1, <3>2
  <2> QED BY <2>1, <2>2, <2>3
<1> QED BY <1>1, <1>2

LEMMA NoPortsType == NoPorts \in Found
BY EmptySeq DEF NoPorts, Found

\* The ports found in a sequence of statements, one by one.
LEMMA PortsSteps ==
    ASSUME NEW D, NEW g \in [D -> Found], NEW p \in Seq(StatementsWith(D)),
           NEW st, st = [x \in Found \X StatementsWith(D) |-> PortsWith(g, x[1], x[2])]
    PROVE  FoldsTo(Found, st, NoPorts, p, PortsIn(g, p))
<1> DEFINE S == StatementsWith(D)
<1>1. /\ st \in [Found \X S -> Found]
      /\ \A a \in Found, b \in S : st[<<a, b>>] = PortsWith(g, a, b)
  BY PortsWithType
<1>2. NoPorts \in Found
  BY NoPortsType
<1>3. p \in Seq(S) /\ Len(p) \in 0..Len(p) /\ \A s \in SUBSET DOMAIN p : s # {} => p[Max(s)] \in S
  <2>1. Len(p) \in Nat
    BY LenProperties
  <2> QED BY <2>1, LenProperties, ElementOfSeq, SomeMax
<1> HIDE DEF S
<1>4. PICK f : Folds(Found, S, st, NoPorts, p, f)
  BY <1>1, <1>2, <1>3, FoldExists, Zenon
<1>5. PortsTable(g, p, f)
  <2>1. \A s \in SUBSET DOMAIN p :
           f[s] = IF s = {} THEN NoPorts ELSE PortsWith(g, f[s \ {Max(s)}], p[Max(s)])
    BY <1>1, <1>4 DEF Folds
  <2>2. f = [s \in SUBSET DOMAIN p |-> f[s]]
    BY <1>4 DEF Folds
  <2>3. [s \in SUBSET DOMAIN p |-> f[s]]
          = [s \in SUBSET DOMAIN p |->
               IF s = {} THEN NoPorts ELSE PortsWith(g, f[s \ {Max(s)}], p[Max(s)])]
    BY <2>1, Zenon
  <2> QED BY <2>2, <2>3, Zenon DEF PortsTable
<1>6. PICK h : PortsTable(g, p, h) /\ PortsIn(g, p) = h[DOMAIN p]
  BY <1>5 DEF PortsIn
<1>7. \A s \in SUBSET DOMAIN p :
         h[s] = IF s = {} THEN NoPorts ELSE PortsWith(g, h[s \ {Max(s)}], p[Max(s)])
  BY <1>6, Zenon DEF PortsTable
<1>8. TableOf(Found, st, NoPorts, p, h)
  BY <1>1, <1>3, <1>7 DEF TableOf
<1>9. FoldsTo(Found, st, NoPorts, p, h[DOMAIN p])
  BY <1>1, <1>2, <1>3, <1>8, FoldSteps, Zenon
<1> QED BY <1>6, <1>9

LEMMA PortsInType ==
    ASSUME NEW D, NEW g \in [D -> Found], NEW p \in Seq(StatementsWith(D))
    PROVE  PortsIn(g, p) \in Found
<1>1. PICK st : st = [x \in Found \X StatementsWith(D) |-> PortsWith(g, x[1], x[2])]
  OBVIOUS
<1>2. FoldsTo(Found, st, NoPorts, p, PortsIn(g, p))
  BY <1>1, PortsSteps
<1>3. Len(p) \in 0..Len(p)
  <2>1. Len(p) \in Nat
    BY LenProperties
  <2> QED BY <2>1
<1> QED BY <1>2, <1>3 DEF Accumulates, FoldsTo

\* Only what g finds in the blocks of the statements counts.
LEMMA PortsLocal ==
    ASSUME NEW p, NEW g, NEW h, NEW n \in Nat, DOMAIN p = 1..n,
           \A i \in DOMAIN p : p[i].child # 0 => g[p[i].child] = h[p[i].child]
    PROVE  PortsIn(g, p) = PortsIn(h, p)
<1>1. ASSUME NEW f, NEW s \in SUBSET DOMAIN p, s # {}
      PROVE  PortsWith(g, f[s \ {Max(s)}], p[Max(s)]) = PortsWith(h, f[s \ {Max(s)}], p[Max(s)])
  <2>1. Max(s) \in DOMAIN p
    BY <1>1, SomeMax
  <2> DEFINE a == f[s \ {Max(s)}]
             e == p[Max(s)]
  <2>2. e.child # 0 => g[e.child] = h[e.child]
    BY <2>1
  <2> HIDE DEF a, e
  <2>3. PortsWith(g, a, e) = PortsWith(h, a, e)
    BY <2>2, Zenon DEF PortsWith
  <2> QED BY <2>3 DEF a, e
<1>2. ASSUME NEW f PROVE PortsTable(g, p, f) = PortsTable(h, p, f)
  <2>1. [s \in SUBSET DOMAIN p |->
           IF s = {} THEN NoPorts ELSE PortsWith(g, f[s \ {Max(s)}], p[Max(s)])]
        = [s \in SUBSET DOMAIN p |->
           IF s = {} THEN NoPorts ELSE PortsWith(h, f[s \ {Max(s)}], p[Max(s)])]
    BY <1>1, Zenon
  <2> QED BY <2>1, Zenon DEF PortsTable
<1>3. (CHOOSE f : PortsTable(g, p, f)) = (CHOOSE f : PortsTable(h, p, f))
  BY <1>2, Zenon
<1> QED BY <1>3, Zenon DEF PortsIn

\* Blocks whose statements have no block or a younger one.
Tree(B) ==
    /\ B \in Seq(Seq(Statement))
    /\ \A b \in 1..Len(B) : \A i \in 1..Len(B[b]) : Follows(B[b][i].child, b, Len(B))

LEMMA TreeStatements ==
    ASSUME NEW B, Tree(B), NEW b \in 1..Len(B)
    PROVE  /\ Len(B) \in Nat /\ Len(B[b]) \in Nat
           /\ DOMAIN B[b] = 1..Len(B[b])
           /\ B[b] \in Seq(StatementsWith((b + 1)..Len(B)))
           /\ B[b] \in Seq(StatementsWith(1..Len(B)))
           /\ \A i \in 1..Len(B[b]) :
                 B[b][i].child # 0 => B[b][i].child \in (b + 1)..Len(B)
<1> DEFINE n == Len(B)
           p == B[b]
           E == (b + 1)..n
           D == 1..n
<1>1. n \in Nat /\ p \in Seq(Statement)
  BY LenProperties, ElementOfSeq DEF Tree
<1>2. /\ Len(p) \in Nat /\ DOMAIN p = 1..Len(p) /\ \A i \in 1..Len(p) : p[i] \in Statement
  <2> HIDE DEF p
  <2> QED BY <1>1, LenProperties, ElementOfSeq
<1>3. \A i \in 1..Len(p) : p[i].child = 0 \/ p[i].child \in E
  BY DEF Tree, Follows
<1>4. E \subseteq D
  BY <1>1
<1>5. \A i \in 1..Len(p) : p[i] \in StatementsWith(E) /\ p[i] \in StatementsWith(D)
  <2> HIDE DEF p, E, D
  <2> QED BY <1>2, <1>3, <1>4 DEF StatementsWith
<1>6. p \in Seq(StatementsWith(E)) /\ p \in Seq(StatementsWith(D))
  <2> HIDE DEF p, E, D
  <2> QED BY <1>1, <1>5, SeqOver
<1> QED BY <1>1, <1>2, <1>3, <1>6

LEMMA StatementsAreWith ==
    ASSUME blocks \in Seq(Seq(Statement)), ChildrenAreYounger, NEW b \in 1..Len(blocks)
    PROVE  /\ Len(blocks) \in Nat /\ Len(blocks[b]) \in Nat
           /\ DOMAIN blocks[b] = 1..Len(blocks[b])
           /\ blocks[b] \in Seq(StatementsWith((b + 1)..Len(blocks)))
           /\ blocks[b] \in Seq(StatementsWith(1..Len(blocks)))
           /\ \A i \in 1..Len(blocks[b]) :
                 blocks[b][i].child # 0 => blocks[b][i].child \in (b + 1)..Len(blocks)
<1>1. Tree(blocks)
  BY DEF Tree, ChildrenAreYounger
<1> QED BY <1>1, TreeStatements

\* get_port is defined: a block inside another has the greater number.
LEMMA PortsFound ==
    ASSUME blocks \in Seq(Seq(Statement)), ChildrenAreYounger
    PROVE  /\ get_port \in [1..Len(blocks) -> Found]
           /\ get_port = [b \in 1..Len(blocks) |-> PortsIn(get_port, blocks[b])]
<1> DEFINE n    == Len(blocks)
           D    == 1..n
           rank == [b \in D |-> n - b]
           G    == [g \in [D -> Found] |-> [b \in D |-> PortsIn(g, blocks[b])]]
<1>1. n \in Nat
  BY LenProperties
<1>2. ASSUME NEW b \in D
      PROVE  /\ Len(blocks[b]) \in Nat /\ DOMAIN blocks[b] = 1..Len(blocks[b])
             /\ blocks[b] \in Seq(StatementsWith((b + 1)..n)) /\ blocks[b] \in Seq(StatementsWith(D))
             /\ \A i \in DOMAIN blocks[b] : blocks[b][i].child # 0 => blocks[b][i].child \in (b + 1)..n
  BY StatementsAreWith
<1> HIDE DEF n
<1>3. G \in [[D -> Found] -> [D -> Found]]
  <2> SUFFICES ASSUME NEW g \in [D -> Found], NEW b \in D PROVE PortsIn(g, blocks[b]) \in Found
    OBVIOUS
  <2>1. blocks[b] \in Seq(StatementsWith(D))
    BY <1>2
  <2> HIDE DEF D
  <2> QED BY <2>1, PortsInType
<1>4. ASSUME NEW g \in [D -> Found], NEW h \in [D -> Found], NEW b \in D,
             \A e \in D : rank[e] < rank[b] => g[e] = h[e]
      PROVE  G[g][b] = G[h][b]
  <2>1. \A c \in (b + 1)..n : g[c] = h[c]
    <3>1. \A c \in (b + 1)..n : c \in D /\ rank[c] < rank[b]
      BY <1>1
    <3> QED BY <1>4, <3>1
  <2>2. \A i \in DOMAIN blocks[b] : blocks[b][i].child # 0 => g[blocks[b][i].child] = h[blocks[b][i].child]
    BY <1>2, <2>1
  <2>3. PortsIn(g, blocks[b]) = PortsIn(h, blocks[b])
    BY <1>2, <2>2, PortsLocal, Zenon
  <2> QED BY <2>3
<1>5. [D -> Found] # {} /\ rank \in [D -> 0..n]
  <2>1. [b \in D |-> NoPorts] \in [D -> Found]
    BY NoPortsType
  <2>2. \A b \in D : n - b \in 0..n
    BY <1>1
  <2> QED BY <2>1, <2>2
<1>6. Recursive(D, Found, n, rank, G)
  <2> HIDE DEF G, rank, D
  <2> QED BY <1>1, <1>3, <1>4, <1>5 DEF Recursive
<1>7. PICK g \in [D -> Found] : g = G[g]
  <2> HIDE DEF G, rank, D
  <2> QED BY <1>6, Recursion DEF Defines
<1>8. g = [b \in 1..Len(blocks) |-> PortsIn(g, blocks[b])]
  BY <1>7 DEF n
<1>9. get_port = [b \in 1..Len(blocks) |-> PortsIn(get_port, blocks[b])]
  BY <1>8, GetPortIs, Zenon
<1>10. ASSUME NEW b \in 1..n, (b + 1)..n \subseteq {c \in D : get_port[c] \in Found}
       PROVE  b \in {c \in D : get_port[c] \in Found}
  <2> DEFINE E == (b + 1)..n
             h == [c \in E |-> get_port[c]]
  <2>1. h \in [E -> Found] /\ \A c \in E : get_port[c] = h[c]
    BY <1>10
  <2>2. PortsIn(h, blocks[b]) \in Found
    <3>1. blocks[b] \in Seq(StatementsWith(E))
      BY <1>2
    <3> HIDE DEF E, h
    <3> QED BY <2>1, <3>1, PortsInType
  <2>3. PortsIn(get_port, blocks[b]) = PortsIn(h, blocks[b])
    <3>1. \A i \in DOMAIN blocks[b] :
             blocks[b][i].child # 0 => get_port[blocks[b][i].child] = h[blocks[b][i].child]
      BY <1>2, <2>1
    <3> HIDE DEF h
    <3> QED BY <1>2, <3>1, PortsLocal, Zenon
  <2>4. get_port[b] = PortsIn(get_port, blocks[b])
    BY <1>9, Zenon DEF n
  <2> QED BY <2>2, <2>3, <2>4
<1>11. \A b \in D : get_port[b] \in Found
  <2> DEFINE P == {b \in D : get_port[b] \in Found}
  <2>1. ASSUME NEW b \in 1..n, (b + 1)..n \subseteq P PROVE b \in P
    BY <1>10, <2>1
  <2> HIDE DEF P
  <2>2. 1..n \subseteq P
    BY <1>1, <2>1, Downwards
  <2> QED BY <2>2 DEF P
<1>12. get_port = [b \in D |-> get_port[b]]
  BY <1>9, Zenon DEF n
<1> QED BY <1>9, <1>11, <1>12 DEF n

-----------------------------------------------------------------------------
(* The threads that get_threads finds                                      *)

FirstDeciding(p) == SelectInSeq(p, LAMBDA s : Keyword(s, "threads") \/ s.child # 0)
KeywordAt(s)     == SelectInSeq(s.tokens, LAMBDA t : t = <<"threads">>)

\* What the statement that decides says, given what g finds in its block.
ThreadsOf(g, s) ==
    IF ~Keyword(s, "threads") THEN g[s.child]
    ELSE IF IsNumber(s.tokens[KeywordAt(s) + 1]) THEN s.tokens[KeywordAt(s) + 1] ELSE DefaultThreads

ThreadsIn(g, p) ==
    IF FirstDeciding(p) = 0 THEN DefaultThreads ELSE ThreadsOf(g, p[FirstDeciding(p)])

LEMMA GetThreadsIs ==
    get_threads = CHOOSE g : g = [b \in 1..Len(blocks) |-> ThreadsIn(g, blocks[b])]
BY Zenon DEF get_threads, ThreadsIn, ThreadsOf, FirstDeciding, KeywordAt, SelectInSeq

\* The Min of a set of numbers.
LEMMA LeastIsMin ==
    ASSUME NEW A \in SUBSET Nat, A # {}
    PROVE  Min(A) \in A /\ \A y \in A : Min(A) =< y
BY LeastExists DEF Min

LEMMA FirstDecidingIs ==
    ASSUME NEW p, NEW n \in Nat, Len(p) = n, FirstDeciding(p) # 0
    PROVE  /\ FirstDeciding(p) \in 1..n
           /\ Keyword(p[FirstDeciding(p)], "threads") \/ p[FirstDeciding(p)].child # 0
<1> DEFINE I == {i \in 1..Len(p) : Keyword(p[i], "threads") \/ p[i].child # 0}
<1>1. FirstDeciding(p) = IF I # {} THEN Min(I) ELSE 0
  BY Zenon DEF FirstDeciding, SelectInSeq
<1>2. I \in SUBSET Nat
  OBVIOUS
<1>3. I # {} /\ FirstDeciding(p) = Min(I)
  BY <1>1
<1>4. Min(I) \in I
  <2> HIDE DEF I
  <2> QED BY <1>2, <1>3, LeastIsMin
<1> QED BY <1>3, <1>4

\* The keyword has a token after it.
LEMMA KeywordAtIs ==
    ASSUME NEW s \in Statement, Keyword(s, "threads")
    PROVE  KeywordAt(s) \in 1..(Len(s.tokens) - 1)
<1> DEFINE I == {i \in 1..Len(s.tokens) : s.tokens[i] = <<"threads">>}
<1>1. Len(s.tokens) \in Nat
  BY LenProperties DEF Statement
<1>2. KeywordAt(s) = IF I # {} THEN Min(I) ELSE 0
  BY Zenon DEF KeywordAt, SelectInSeq
<1>3. PICK k \in 1..(Len(s.tokens) - 1) : k \in I
  BY <1>1 DEF Keyword
<1>4. I \in SUBSET Nat /\ \A i \in I : i >= 1
  OBVIOUS
<1> HIDE DEF I
<1>5. KeywordAt(s) = Min(I) /\ Min(I) \in I /\ Min(I) =< k
  BY <1>2, <1>3, <1>4, LeastIsMin
<1>6. KeywordAt(s) \in Nat /\ KeywordAt(s) >= 1 /\ KeywordAt(s) =< k
  BY <1>4, <1>5
<1>7. k =< Len(s.tokens) - 1 /\ k \in Nat
  BY <1>1
<1> QED BY <1>1, <1>6, <1>7

LEMMA DefaultThreadsType == DefaultThreads \in Lexeme
<1>1. "4" \in Chars
  BY ConfigParserAssumption DEF Chars
<1> QED BY <1>1, SingletonSeq DEF DefaultThreads, Lexeme

LEMMA ThreadsInType ==
    ASSUME NEW D, NEW g \in [D -> Lexeme], NEW p \in Seq(StatementsWith(D))
    PROVE  ThreadsIn(g, p) \in Lexeme
<1> DEFINE s == p[FirstDeciding(p)]
<1>1. CASE FirstDeciding(p) = 0
  BY <1>1, DefaultThreadsType DEF ThreadsIn
<1>2. CASE FirstDeciding(p) # 0
  <2>1. Len(p) \in Nat /\ FirstDeciding(p) \in 1..Len(p)
    BY <1>2, LenProperties, FirstDecidingIs
  <2>2. s \in StatementsWith(D) /\ (Keyword(s, "threads") \/ s.child # 0)
    BY <1>2, <2>1, ElementOfSeq, FirstDecidingIs
  <2>3. ThreadsIn(g, p) = ThreadsOf(g, s)
    BY <1>2 DEF ThreadsIn
  <2> HIDE DEF s
  <2>4. CASE ~Keyword(s, "threads")
    <3>1. s.child \in D /\ ThreadsOf(g, s) = g[s.child]
      BY <2>2, <2>4 DEF StatementsWith, ThreadsOf
    <3> QED BY <2>3, <3>1
  <2>5. CASE Keyword(s, "threads")
    <3>1. s \in Statement /\ s.tokens \in Seq(Lexeme)
      BY <2>2 DEF StatementsWith, Statement
    <3>2. KeywordAt(s) \in 1..(Len(s.tokens) - 1) /\ Len(s.tokens) \in Nat
      BY <2>5, <3>1, KeywordAtIs, LenProperties
    <3>3. KeywordAt(s) + 1 \in 1..Len(s.tokens)
      BY <3>2
    <3>4. s.tokens[KeywordAt(s) + 1] \in Lexeme
      BY <3>1, <3>3, ElementOfSeq
    <3> QED BY <2>3, <2>5, <3>4, DefaultThreadsType DEF ThreadsOf
  <2> QED BY <2>4, <2>5
<1> QED BY <1>1, <1>2

LEMMA ThreadsLocal ==
    ASSUME NEW p, NEW g, NEW h, NEW n \in Nat, Len(p) = n,
           \A i \in 1..n : p[i].child # 0 => g[p[i].child] = h[p[i].child]
    PROVE  ThreadsIn(g, p) = ThreadsIn(h, p)
<1> DEFINE s == p[FirstDeciding(p)]
<1>1. CASE FirstDeciding(p) = 0
  BY <1>1 DEF ThreadsIn
<1>2. CASE FirstDeciding(p) # 0
  <2>1. FirstDeciding(p) \in 1..n /\ (Keyword(s, "threads") \/ s.child # 0)
    BY <1>2, FirstDecidingIs
  <2>2. s.child # 0 => g[s.child] = h[s.child]
    BY <2>1
  <2>3. ThreadsIn(g, p) = ThreadsOf(g, s) /\ ThreadsIn(h, p) = ThreadsOf(h, s)
    BY <1>2 DEF ThreadsIn
  <2> HIDE DEF s
  <2>4. ThreadsOf(g, s) = ThreadsOf(h, s)
    BY <2>1, <2>2, Zenon DEF ThreadsOf
  <2> QED BY <2>3, <2>4
<1> QED BY <1>1, <1>2

\* get_threads is defined as well.
LEMMA ThreadsFound ==
    ASSUME blocks \in Seq(Seq(Statement)), ChildrenAreYounger
    PROVE  /\ get_threads \in [1..Len(blocks) -> Lexeme]
           /\ get_threads = [b \in 1..Len(blocks) |-> ThreadsIn(get_threads, blocks[b])]
<1> DEFINE n    == Len(blocks)
           D    == 1..n
           rank == [b \in D |-> n - b]
           G    == [g \in [D -> Lexeme] |-> [b \in D |-> ThreadsIn(g, blocks[b])]]
<1>1. n \in Nat
  BY LenProperties
<1>2. ASSUME NEW b \in D
      PROVE  /\ Len(blocks[b]) \in Nat
             /\ blocks[b] \in Seq(StatementsWith((b + 1)..n)) /\ blocks[b] \in Seq(StatementsWith(D))
             /\ \A i \in 1..Len(blocks[b]) : blocks[b][i].child # 0 => blocks[b][i].child \in (b + 1)..n
  BY StatementsAreWith
<1> HIDE DEF n
<1>3. G \in [[D -> Lexeme] -> [D -> Lexeme]]
  <2> SUFFICES ASSUME NEW g \in [D -> Lexeme], NEW b \in D PROVE ThreadsIn(g, blocks[b]) \in Lexeme
    OBVIOUS
  <2>1. blocks[b] \in Seq(StatementsWith(D))
    BY <1>2
  <2> HIDE DEF D
  <2> QED BY <2>1, ThreadsInType
<1>4. ASSUME NEW g \in [D -> Lexeme], NEW h \in [D -> Lexeme], NEW b \in D,
             \A e \in D : rank[e] < rank[b] => g[e] = h[e]
      PROVE  G[g][b] = G[h][b]
  <2>1. \A c \in (b + 1)..n : g[c] = h[c]
    <3>1. \A c \in (b + 1)..n : c \in D /\ rank[c] < rank[b]
      BY <1>1
    <3> QED BY <1>4, <3>1
  <2>2. \A i \in 1..Len(blocks[b]) : blocks[b][i].child # 0 => g[blocks[b][i].child] = h[blocks[b][i].child]
    BY <1>2, <2>1
  <2>3. ThreadsIn(g, blocks[b]) = ThreadsIn(h, blocks[b])
    BY <1>2, <2>2, ThreadsLocal, Zenon
  <2> QED BY <2>3
<1>5. [D -> Lexeme] # {} /\ rank \in [D -> 0..n]
  <2>1. [b \in D |-> DefaultThreads] \in [D -> Lexeme]
    BY DefaultThreadsType
  <2>2. \A b \in D : n - b \in 0..n
    BY <1>1
  <2> QED BY <2>1, <2>2
<1>6. Recursive(D, Lexeme, n, rank, G)
  <2> HIDE DEF G, rank, D
  <2> QED BY <1>1, <1>3, <1>4, <1>5 DEF Recursive
<1>7. PICK g \in [D -> Lexeme] : g = G[g]
  <2> HIDE DEF G, rank, D
  <2> QED BY <1>6, Recursion DEF Defines
<1>8. g = [b \in 1..Len(blocks) |-> ThreadsIn(g, blocks[b])]
  BY <1>7 DEF n
<1>9. get_threads = [b \in 1..Len(blocks) |-> ThreadsIn(get_threads, blocks[b])]
  BY <1>8, GetThreadsIs, Zenon
<1>10. ASSUME NEW b \in 1..n, (b + 1)..n \subseteq {c \in D : get_threads[c] \in Lexeme}
       PROVE  b \in {c \in D : get_threads[c] \in Lexeme}
  <2> DEFINE E == (b + 1)..n
             h == [c \in E |-> get_threads[c]]
  <2>1. h \in [E -> Lexeme] /\ \A c \in E : get_threads[c] = h[c]
    BY <1>10
  <2>2. ThreadsIn(h, blocks[b]) \in Lexeme
    <3>1. blocks[b] \in Seq(StatementsWith(E))
      BY <1>2
    <3> HIDE DEF E, h
    <3> QED BY <2>1, <3>1, ThreadsInType
  <2>3. ThreadsIn(get_threads, blocks[b]) = ThreadsIn(h, blocks[b])
    <3>1. \A i \in 1..Len(blocks[b]) :
             blocks[b][i].child # 0 => get_threads[blocks[b][i].child] = h[blocks[b][i].child]
      BY <1>2, <2>1
    <3> HIDE DEF h
    <3> QED BY <1>2, <3>1, ThreadsLocal, Zenon
  <2>4. get_threads[b] = ThreadsIn(get_threads, blocks[b])
    BY <1>9, Zenon DEF n
  <2> QED BY <2>2, <2>3, <2>4
<1>11. \A b \in D : get_threads[b] \in Lexeme
  <2> DEFINE P == {b \in D : get_threads[b] \in Lexeme}
  <2>1. ASSUME NEW b \in 1..n, (b + 1)..n \subseteq P PROVE b \in P
    BY <1>10, <2>1
  <2> HIDE DEF P
  <2>2. 1..n \subseteq P
    BY <1>1, <2>1, Downwards
  <2> QED BY <2>2 DEF P
<1>12. get_threads = [b \in D |-> get_threads[b]]
  BY <1>9, Zenon DEF n
<1> QED BY <1>9, <1>11, <1>12 DEF n

-----------------------------------------------------------------------------
(* Type correctness                                                        *)

TInv ==
    /\ IInv
    /\ ChildrenAreYounger
    /\ TypeOK
    /\ Len(blocks) >= 1

LEMMA CompletesIs ==
    ASSUME NEW c, TypeOK, Completes(c) # ""
    PROVE  Completes(c) \in Types \cup {"COMMENT"}
<1>1. CASE state = "whitespace"
  <2>1. Completes(c) = CASE c = "{" -> "START_BLOCK"
                         [] c = "}" -> "END_BLOCK"
                         [] c = ";" -> "STATEMENT_END"
                         [] OTHER   -> ""
    BY <1>1, Zenon DEF Completes, Quotes
  <2>2. CASE c \in {"{", "}", ";"}
    BY <2>1, <2>2 DEF Types
  <2>3. CASE c \notin {"{", "}", ";"}
    BY <2>1, <2>3
  <2> QED BY <2>2, <2>3
<1>2. CASE state \in Quotes
  <2>1. Completes(c) = IF c = state THEN "NORMAL" ELSE ""
    BY <1>2 DEF Completes, Quotes
  <2> QED BY <2>1 DEF Types
<1>3. CASE state = "comment"
  <2>1. Completes(c) = IF c \in {"\n", "\r"} THEN "COMMENT" ELSE ""
    BY <1>3 DEF Completes, Quotes
  <2> QED BY <2>1
<1>4. CASE state = "normal"
  <2>1. Completes(c) = IF c \in {" ", "\t", "\n"} \cup Special THEN "NORMAL" ELSE ""
    BY <1>4 DEF Completes, Quotes
  <2> QED BY <2>1 DEF Types
<1>5. state \in {"whitespace", "'", "\"", "comment", "normal"}
  BY DEF TypeOK
<1> QED BY <1>1, <1>2, <1>3, <1>4, <1>5 DEF Quotes

LEMMA ParseType ==
    ASSUME TInv, outcome = "parsing", NEW type \in Types \cup {"COMMENT"}, NEW tok \in Lexeme,
           Parse(type, tok)
    PROVE  /\ last_token_type' \in Types
           /\ config_stack' \in Seq(1..Len(blocks')) /\ blocks' \in Seq(Seq(Statement))
           /\ outcome' \in {"parsing", "true", "false", "undefined"}
           /\ Len(blocks') >= 1
<1>1. blocks' \in Seq(Seq(Statement)) /\ Len(blocks') >= Len(blocks)
  BY BlocksType DEF TInv, TypeOK
<1>2. Len(blocks') >= 1
  BY <1>1, StackFacts, LenProperties DEF TInv
<1>3. config_stack' \in Seq(1..Len(blocks'))
  BY ParseStep DEF TInv, IInv
<1>4. last_token_type' \in Types
  BY DEF Parse, TInv, TypeOK
<1>5. outcome' \in {"parsing", "true", "false", "undefined"}
  <2>1. CASE type = "COMMENT" \/ ~Allowed(type)
    BY <2>1 DEF Parse
  <2>2. CASE type # "COMMENT" /\ Allowed(type)
    <3>1. type \in {"NORMAL", "START_BLOCK", "END_BLOCK", "EOF", "STATEMENT_END"}
      BY <2>2 DEF Allowed
    <3>2. CASE config_stack = <<>> /\ type # "STATEMENT_END"
      BY <2>2, <3>2 DEF Parse, Undefined
    <3>3. CASE config_stack # <<>> \/ type = "STATEMENT_END"
      <4>1. UNCHANGED outcome \/ PopAtEnd
        BY <2>2, <3>1, <3>3 DEF Parse, AddToken, OpenBlock
      <4> QED BY <4>1 DEF PopAtEnd
    <3> QED BY <3>2, <3>3
  <2> QED BY <2>1, <2>2
<1> QED BY <1>1, <1>2, <1>3, <1>4, <1>5

LEMMA WriteType ==
    ASSUME TypeOK, NEW p \in Phrases, Write(p)
    PROVE  TypeOK'
<1>1. p \in Seq(Lexeme) /\ Head(p) \in Lexeme
  BY PhraseFacts
<1>2. PICK b \in Layout(Head(p)) : text' = b \o (IF Len(p) = 1 THEN Head(p) ELSE Written(p))
  BY DEF Write
<1>3. (IF Len(p) = 1 THEN Head(p) ELSE Written(p)) \in Seq(Chars)
  BY <1>1, WrittenType DEF Lexeme
<1>4. text' \in Seq(Chars)
  BY <1>2, <1>3, LayoutType, ConcatProperties
<1>5. file' \in Seq(Lexeme)
  <2>1. file \in Seq(Lexeme) /\ file' = file \o p
    BY DEF Write, TypeOK
  <2> QED BY <1>1, <2>1, ConcatProperties
<1>6. phrases' \in 0..MaxPhrases
  <2>1. phrases \in 0..MaxPhrases /\ phrases < MaxPhrases /\ phrases' = phrases + 1
    BY DEF Write, TypeOK
  <2>2. MaxPhrases \in Nat
    BY ConfigParserAssumption
  <2> QED BY <2>1, <2>2
<1> QED BY <1>4, <1>5, <1>6 DEF Write, TypeOK, server

LEMMA EndType == ASSUME TypeOK, End PROVE TypeOK'
<1>1. CASE UNCHANGED <<text, file>>
  BY <1>1 DEF End, TypeOK, server
<1>2. CASE ~UNCHANGED <<text, file>>
  <2>1. PICK p \in Phrases : \E b \in Layout(Head(p)) :
            /\ Len(p) = 1 /\ Len(Head(p)) > 1
            /\ text' = b \o Front(Head(p))
            /\ file' = Append(file, Front(Head(p)))
    BY <1>2 DEF End
  <2>2. PICK b \in Layout(Head(p)) :
            text' = b \o Front(Head(p)) /\ file' = Append(file, Front(Head(p)))
    BY <2>1
  <2>3. Head(p) \in Lexeme /\ Head(p) # <<>>
    <3>1. Len(Head(p)) > 1
      BY <2>1
    <3>2. Head(p) # <<>>
      BY <3>1
    <3> QED BY <3>2, PhraseFacts
  <2>4. Front(Head(p)) \in Seq(Chars)
    BY <2>3, FrontType DEF Lexeme
  <2>5. text' \in Seq(Chars)
    BY <2>2, <2>4, LayoutType, ConcatProperties
  <2>6. file' \in Seq(Lexeme)
    BY <2>2, <2>4, AppendProperties DEF TypeOK, Lexeme
  <2> QED BY <2>5, <2>6 DEF End, TypeOK, server
<1> QED BY <1>1, <1>2

LEMMA ParseTokenType == ASSUME TInv, ParseToken PROVE TypeOK' /\ Len(blocks') >= 1
<1>1. PICK c : c = Head(text)
  OBVIOUS
<1>2. TypeOK
  BY DEF TInv
<1>3. c \in Chars /\ Tail(text) \in Seq(Chars) /\ text \in Seq(Chars) /\ value \in Seq(Chars)
  BY <1>1, <1>2, HeadTailProperties DEF ParseToken, TypeOK, Lexeme
<1>4. Append(value, c) \in Lexeme /\ <<>> \in Lexeme
  BY <1>3, AppendProperties, EmptySeq DEF Lexeme
<1>5. CASE Completes(c) # ""
  <2>1. Parse(Completes(c), IF state \in Quotes THEN Append(value, c) ELSE value)
    BY <1>5, <1>1, Zenon DEF ParseToken
  <2>2. /\ state' = "whitespace" /\ value' = <<>>
        /\ text' = IF Ungets THEN text ELSE Tail(text)
        /\ outcome = "parsing" /\ UNCHANGED <<ended, file, phrases, server>>
    BY <1>5, <1>1, Zenon DEF ParseToken
  <2>3. Completes(c) \in Types \cup {"COMMENT"}
    BY <1>2, <1>5, CompletesIs
  <2>4. (IF state \in Quotes THEN Append(value, c) ELSE value) \in Lexeme
    BY <1>2, <1>4 DEF TypeOK
  <2>5. /\ last_token_type' \in Types
        /\ config_stack' \in Seq(1..Len(blocks')) /\ blocks' \in Seq(Seq(Statement))
        /\ outcome' \in {"parsing", "true", "false", "undefined"}
        /\ Len(blocks') >= 1
    BY <2>1, <2>2, <2>3, <2>4, ParseType
  <2>6. text' \in Seq(Chars)
    BY <1>3, <2>2
  <2> QED BY <1>2, <1>4, <2>2, <2>5, <2>6 DEF TypeOK, server
<1>6. CASE Completes(c) = ""
  <2>1. /\ state' = Following(c)
        /\ value' = IF Following(c) = "whitespace" THEN <<>> ELSE Append(value, c)
        /\ text' = Tail(text)
        /\ UNCHANGED <<last_token_type, config_stack, blocks, outcome>>
        /\ UNCHANGED <<ended, file, phrases, server>>
    BY <1>6, <1>1, Zenon DEF ParseToken
  <2>2. Following(c) \in {"whitespace", "'", "\"", "comment", "normal"}
    <3>1. CASE state # "whitespace"
      BY <1>2, <3>1 DEF Following, TypeOK
    <3>2. CASE state = "whitespace"
      <4>1. Following(c) = CASE c = "#"        -> "comment"
                             [] c \in Quotes   -> c
                             [] c \in Blank    -> "whitespace"
                             [] OTHER          -> "normal"
        BY <3>2, Zenon DEF Following
      <4>2. CASE c = "#"
        BY <4>1, <4>2 DEF Quotes, Blank
      <4>3. CASE c \in Quotes
        BY <4>1, <4>3 DEF Quotes, Blank
      <4>4. CASE c \in Blank
        BY <4>1, <4>4 DEF Quotes, Blank
      <4>5. CASE c # "#" /\ c \notin Quotes /\ c \notin Blank
        BY <4>1, <4>5
      <4> QED BY <4>2, <4>3, <4>4, <4>5
    <3> QED BY <3>1, <3>2
  <2>3. value' \in Lexeme
    BY <1>4, <2>1
  <2>4. UNCHANGED <<ended, file, phrases, started, ports, threads>>
    BY <2>1 DEF server
  <2> QED BY <1>2, <1>3, <2>1, <2>2, <2>3, <2>4 DEF TypeOK, TInv
<1> QED BY <1>5, <1>6

LEMMA ParseTokenEndsType == ASSUME TInv, ParseTokenEnds PROVE TypeOK' /\ Len(blocks') >= 1
<1>0. TypeOK /\ <<>> \in Lexeme
  BY EmptySeq DEF TInv, Lexeme
<1>1. /\ state' = "whitespace" /\ value' = <<>> /\ outcome = "parsing"
      /\ UNCHANGED <<text, ended, file, phrases, started, ports, threads>>
  BY DEF ParseTokenEnds, input, server
<1>2. CASE outcome' = "false" /\ UNCHANGED <<last_token_type, config_stack, blocks>>
  BY <1>0, <1>1, <1>2 DEF TypeOK, TInv
<1>3. CASE Parse("EOF", <<>>)
  <2>1. /\ last_token_type' \in Types
        /\ config_stack' \in Seq(1..Len(blocks')) /\ blocks' \in Seq(Seq(Statement))
        /\ outcome' \in {"parsing", "true", "false", "undefined"}
        /\ Len(blocks') >= 1
    BY <1>0, <1>1, <1>3, ParseType DEF Types
  <2> QED BY <1>0, <1>1, <2>1 DEF TypeOK
<1> QED BY <1>2, <1>3 DEF ParseTokenEnds

LEMMA MainType == ASSUME TInv, main PROVE TypeOK' /\ Len(blocks') >= 1
<1>0. TypeOK /\ 1 \in 1..Len(blocks)
  <2>1. Len(blocks) \in Nat
    BY StackFacts DEF TInv
  <2> QED BY <2>1 DEF TInv
<1>1. get_port[1] \in Found /\ get_threads[1] \in Lexeme
  <2>1. get_port \in [1..Len(blocks) -> Found] /\ get_threads \in [1..Len(blocks) -> Lexeme]
    BY PortsFound, ThreadsFound DEF TInv, TypeOK
  <2> QED BY <1>0, <2>1
<1>2. /\ ports' = get_port[1].ports /\ threads' = get_threads[1]
      /\ started' \in {"no", "serving", "invalid", "undefined"}
  BY DEF main
<1>3. /\ UNCHANGED <<text, ended, file, phrases>>
      /\ UNCHANGED <<state, value, last_token_type, config_stack, blocks, outcome>>
  BY DEF main, input
<1>4. ports' \in Seq(Port) /\ threads' \in Lexeme
  BY <1>1, <1>2 DEF Found
<1> QED BY <1>0, <1>2, <1>3, <1>4 DEF TypeOK, TInv

LEMMA TInvStep == TInv /\ [Next]_vars => TInv'
<1> SUFFICES ASSUME TInv, [Next]_vars PROVE TInv'
  OBVIOUS
<1>1. IInv' /\ ChildrenAreYounger'
  BY IInvStep, YoungerStep DEF TInv
<1>2. TypeOK' /\ Len(blocks') >= 1
  <2>1. ASSUME NEW p \in Phrases, Write(p) PROVE TypeOK' /\ Len(blocks') >= 1
    BY <2>1, WriteType DEF TInv, Write
  <2>2. CASE End
    BY <2>2, EndType DEF TInv, End
  <2>3. CASE ParseToken
    BY <2>3, ParseTokenType
  <2>4. CASE ParseTokenEnds
    BY <2>4, ParseTokenEndsType
  <2>5. CASE main
    BY <2>5, MainType
  <2>6. CASE UNCHANGED vars
    BY <2>6 DEF TInv, TypeOK, vars, input, server
  <2> QED BY <2>1, <2>2, <2>3, <2>4, <2>5, <2>6 DEF Next
<1> QED BY <1>1, <1>2 DEF TInv

LEMMA TInvInit == Init => TInv
<1> SUFFICES ASSUME Init PROVE TInv
  OBVIOUS
<1>1. IInv
  BY IInvInit
<1>2. ChildrenAreYounger
  BY DEF Init, ChildrenAreYounger
<1>3. blocks \in Seq(Seq(Statement)) /\ Len(blocks) = 1
  <2>1. <<>> \in Seq(Statement)
    BY EmptySeq
  <2> QED BY <2>1, SingletonSeq DEF Init
<1>4. <<>> \in Seq(Chars) /\ <<>> \in Seq(Lexeme) /\ <<>> \in Lexeme /\ <<>> \in Seq(Port)
  BY EmptySeq DEF Lexeme
<1>5. config_stack \in Seq(1..Len(blocks))
  BY <1>1 DEF IInv
<1>6. phrases \in 0..MaxPhrases
  BY ConfigParserAssumption DEF Init
<1>7. /\ ended \in BOOLEAN /\ last_token_type \in Types
      /\ state \in {"whitespace", "'", "\"", "comment", "normal"}
      /\ outcome \in {"parsing", "true", "false", "undefined"}
      /\ started \in {"no", "serving", "invalid", "undefined"}
  BY DEF Init, Types
<1>8. /\ text \in Seq(Chars) /\ file \in Seq(Lexeme) /\ value \in Lexeme
      /\ ports \in Seq(Port) /\ threads \in Lexeme
  BY <1>4, DefaultThreadsType DEF Init
<1>9. TypeOK
  BY <1>3, <1>5, <1>6, <1>7, <1>8 DEF TypeOK
<1> QED BY <1>1, <1>2, <1>3, <1>9 DEF TInv

\* The state of ParseToken and Parse, the blocks they build and what main finds in
\* them have their types: in particular the ports and threads that main takes are
\* tokens of the file, from statements that have them (NginxConfig::get_port,
\* get_threads).
THEOREM TypeCorrect == Spec => []TypeOK
<1>1. TInv => TypeOK
  BY DEF TInv
<1> QED BY <1>1, TInvInit, TInvStep, PTL DEF Spec

-----------------------------------------------------------------------------
(* The text that is still to be read                                       *)

Sep(l) == IF IsWord(l) THEN <<" ">> ELSE <<>>

LEMMA SepType == ASSUME NEW l PROVE Sep(l) \in Seq(Chars) /\ Sep(l) \in {<<>>, <<" ">>}
<1>1. " " \in Chars
  BY DEF Chars, Blank
<1> QED BY <1>1, SingletonSeq, EmptySeq DEF Sep

LEMMA Assoc ==
    ASSUME NEW h \in Seq(Chars), NEW x \in Seq(Chars), NEW y \in Seq(Chars)
    PROVE  (h \o x) \o y = h \o (x \o y)
<1> QED BY ConcatAssociative

LEMMA WrIs ==
    ASSUME NEW h \in Seq(Chars), NEW t \in Seq(Chars), NEW l \in Lexeme
    PROVE  /\ Wr(h \o t, l) = h \o Wr(t, l)
           /\ Wr(<<>>, l) = l \o Sep(l)
<1>1. l \in Seq(Chars) /\ Sep(l) \in Seq(Chars) /\ t \o l \in Seq(Chars) /\ <<>> \in Seq(Chars)
  <2>1. l \in Seq(Chars) /\ Sep(l) \in Seq(Chars) /\ <<>> \in Seq(Chars)
    BY SepType, EmptySeq DEF Lexeme
  <2> QED BY <2>1, ConcatProperties
<1>2. Wr(t, l) = (t \o l) \o Sep(l) /\ Wr(h \o t, l) = ((h \o t) \o l) \o Sep(l) /\ Wr(<<>>, l) = (<<>> \o l) \o Sep(l)
  BY Zenon DEF Wr, Sep
<1>3. (h \o t) \o l = h \o (t \o l)
  BY <1>1, ConcatAssociative
<1>4. (h \o (t \o l)) \o Sep(l) = h \o ((t \o l) \o Sep(l))
  <2>1. \A x, y \in Seq(Chars) : (h \o x) \o y = h \o (x \o y)
    BY Assoc
  <2> QED BY <1>1, <2>1, Zenon
<1>5. <<>> \o l = l
  BY <1>1, ConcatEmptySeq
<1> QED BY <1>2, <1>3, <1>4, <1>5, Zenon

\* What is written of a phrase begins with its first lexeme.
LEMMA WrittenFront ==
    ASSUME NEW p \in Seq(Lexeme), p # <<>>
    PROVE  Written(p) = (Head(p) \o Sep(Head(p))) \o Written(Tail(p))
<1> DEFINE q == Tail(p)
           m == Len(q)
           h == Head(p) \o Sep(Head(p))
<1>1. /\ q \in Seq(Lexeme) /\ m \in Nat /\ Len(p) = m + 1 /\ Head(p) \in Lexeme /\ p[1] = Head(p)
      /\ \A i \in 1..m : q[i] = p[i + 1] /\ q[i] \in Lexeme
  BY HeadTailProperties, LenProperties, ElementOfSeq, EmptySeq
<1>2. PICK a : Accumulates(Seq(Chars), WrStep, <<>>, p, a) /\ Written(p) = a[Len(p)]
  BY WrittenSteps DEF FoldsTo
<1>3. PICK b : Accumulates(Seq(Chars), WrStep, <<>>, q, b) /\ Written(q) = b[m]
  BY <1>1, WrittenSteps DEF FoldsTo
<1>4. h \in Seq(Chars) /\ h = Wr(<<>>, Head(p)) /\ h \o <<>> = h /\ <<>> \in Seq(Chars)
  <2>1. h \in Seq(Chars) /\ <<>> \in Seq(Chars)
    BY <1>1, SepType, ConcatProperties, EmptySeq DEF Lexeme
  <2> QED BY <1>1, <2>1, WrIs, ConcatEmptySeq
<1> HIDE DEF q, m, h
<1>5. \A k \in 0..(m + 1) : a[k] \in Seq(Chars)
  BY <1>1, <1>2 DEF Accumulates
<1>6. \A k \in 0..m : b[k] \in Seq(Chars)
  BY <1>1, <1>3 DEF Accumulates, m
<1>7. /\ a[0] = <<>> /\ b[0] = <<>>
      /\ \A k \in 0..m : a[k + 1] = WrStep[<<a[k], p[k + 1]>>]
      /\ \A k \in 0..(m - 1) : b[k + 1] = WrStep[<<b[k], q[k + 1]>>]
  BY <1>1, <1>2, <1>3 DEF Accumulates, m
<1> DEFINE A == {k \in Nat : k <= m => a[k + 1] = h \o b[k]}
<1>8. 0 \in A
  <2>1. 0 \in 0..m /\ 0 + 1 = 1
    BY <1>1
  <2>2. a[1] = WrStep[<<a[0], p[1]>>]
    BY <1>7, <2>1
  <2>3. a[1] = WrStep[<<<<>>, Head(p)>>]
    BY <1>1, <1>7, <2>2
  <2>4. a[1] = Wr(<<>>, Head(p))
    BY <1>1, <1>4, <2>3, WrStepIs
  <2> QED BY <1>4, <1>7, <2>1, <2>4
<1>9. ASSUME NEW k \in Nat, k \in A PROVE k + 1 \in A
  <2> SUFFICES ASSUME k + 1 <= m PROVE a[k + 2] = h \o b[k + 1]
    OBVIOUS
  <2>1. k \in 0..(m - 1) /\ k \in 0..m /\ k + 1 \in 0..m /\ k + 1 \in 1..m /\ k + 1 + 1 = k + 2
    BY <1>1
  <2>2. a[k + 1] = h \o b[k]
    BY <1>1, <1>9, <2>1
  <2>3. a[k + 2] = WrStep[<<a[k + 1], p[k + 2]>>] /\ b[k + 1] = WrStep[<<b[k], q[k + 1]>>]
    BY <1>7, <2>1
  <2>4. q[k + 1] = p[k + 2] /\ q[k + 1] \in Lexeme /\ b[k] \in Seq(Chars) /\ h \o b[k] \in Seq(Chars)
    BY <1>1, <1>4, <1>6, <2>1, ConcatProperties
  <2>5. a[k + 2] = Wr(h \o b[k], q[k + 1]) /\ b[k + 1] = Wr(b[k], q[k + 1])
    BY <2>2, <2>3, <2>4, WrStepIs
  <2>6. Wr(h \o b[k], q[k + 1]) = h \o Wr(b[k], q[k + 1])
    BY <1>4, <2>4, WrIs
  <2> QED BY <2>5, <2>6
<1> HIDE DEF A
<1>10. m \in A
  BY <1>1, <1>8, <1>9, Induction
<1>11. a[m + 1] = h \o b[m]
  BY <1>1, <1>10 DEF A
<1> QED BY <1>1, <1>2, <1>3, <1>11 DEF h, q

LEMMA WrittenNothing == Written(<<>>) = <<>>
<1>1. <<>> \in Seq(Lexeme) /\ Len(<<>>) = 0
  BY EmptySeq
<1>2. PICK a : Accumulates(Seq(Chars), WrStep, <<>>, <<>>, a) /\ Written(<<>>) = a[Len(<<>>)]
  BY <1>1, WrittenSteps DEF FoldsTo
<1> QED BY <1>1, <1>2 DEF Accumulates

Gaps == {<<>>, <<" ">>, <<"\n">>}

LEMMA GapType == ASSUME NEW b \in Gaps
                 PROVE  /\ b \in Seq(Chars)
                        /\ b = <<>> \/ (Len(b) = 1 /\ b[1] \in {" ", "\n"})
<1>1. " " \in Chars /\ "\n" \in Chars
  BY DEF Chars, Blank
<1>2. <<" ">> \in Seq(Chars) /\ <<"\n">> \in Seq(Chars) /\ <<>> \in Seq(Chars)
  BY <1>1, SingletonSeq, EmptySeq
<1>3. /\ Len(<<" ">>) = 1 /\ <<" ">>[1] = " "
      /\ Len(<<"\n">>) = 1 /\ <<"\n">>[1] = "\n"
  OBVIOUS
<1>4. b = <<>> \/ b = <<" ">> \/ b = <<"\n">>
  BY DEF Gaps
<1>5. CASE b = <<>>
  BY <1>2, <1>5
<1>6. CASE b = <<" ">>
  BY <1>2, <1>3, <1>6
<1>7. CASE b = <<"\n">>
  BY <1>2, <1>3, <1>7
<1> QED BY <1>4, <1>5, <1>6, <1>7

\* The text w of what is still to be read of the lexemes ls.
Unread(w, ls) ==
    \E b \in Gaps :
        \/ w = b \o Written(ls) /\ (ls # <<>> => ~IsWord(Last(ls)))
        \/ Len(ls) = 1 /\ w = b \o ls[1]

\* It begins with a blank, or with the first of them.
LEMMA UnreadSplit ==
    ASSUME NEW ls \in Seq(Lexeme), NEW w \in Seq(Chars), w # <<>>, Unread(w, ls)
    PROVE  \/ Head(w) \in {" ", "\n"} /\ Unread(Tail(w), ls)
           \/ /\ ls # <<>>
              /\ \E y \in Seq(Chars) :
                    /\ w = Head(ls) \o y /\ Unread(y, Tail(ls))
                    /\ Tail(ls) = <<>> => y = <<>>
                    /\ IsWord(Head(ls)) /\ y # <<>> => y[1] = " "
<1>1. PICK b \in Gaps : \/ w = b \o Written(ls) /\ (ls # <<>> => ~IsWord(Last(ls)))
                        \/ Len(ls) = 1 /\ w = b \o ls[1]
  BY DEF Unread
<1>2. <<>> \in Gaps /\ <<" ">> \in Gaps /\ <<>> \in Seq(Chars)
  BY EmptySeq DEF Gaps
<1>3. ASSUME NEW x \in Seq(Chars), w = b \o x, b # <<>>
      PROVE  Head(w) \in {" ", "\n"} /\ Tail(w) = <<>> \o x
  <2>1. b \in Seq(Chars) /\ Len(b) = 1 /\ b[1] \in {" ", "\n"}
    BY <1>3, GapType
  <2>2. /\ Len(w) = 1 + Len(x) /\ w[1] = b[1] /\ Len(x) \in Nat
        /\ \A i \in 1..Len(x) : w[i + 1] = x[i]
    <3>1. Len(x) \in Nat
      BY LenProperties
    <3>2. /\ Len(b \o x) = Len(b) + Len(x)
          /\ \A i \in 1..(Len(b) + Len(x)) : (b \o x)[i] = IF i <= Len(b) THEN b[i] ELSE x[i - Len(b)]
      BY <2>1, ConcatProperties
    <3>3. \A i \in 1..(1 + Len(x)) : w[i] = IF i <= 1 THEN b[i] ELSE x[i - 1]
      BY <1>3, <2>1, <3>2
    <3>4. \A i \in 1..Len(x) : i + 1 \in 1..(1 + Len(x)) /\ ~(i + 1 <= 1) /\ i + 1 - 1 = i
      BY <3>1
    <3>5. 1 \in 1..(1 + Len(x))
      BY <3>1
    <3>6. w[1] = b[1]
      BY <3>3, <3>5
    <3>7. \A i \in 1..Len(x) : w[i + 1] = x[i]
      BY <3>3, <3>4
    <3> QED BY <1>3, <2>1, <3>1, <3>2, <3>6, <3>7
  <2>3. /\ Head(w) = w[1] /\ Tail(w) \in Seq(Chars) /\ Len(Tail(w)) = Len(x)
        /\ \A i \in 1..Len(x) : Tail(w)[i] = w[i + 1]
    BY <2>2, HeadTailProperties
  <2>4. Tail(w) = x
    BY <2>2, <2>3, SeqEqual
  <2>5. <<>> \o x = x
    BY ConcatEmptySeq
  <2> QED BY <2>1, <2>2, <2>3, <2>4, <2>5
<1>4. CASE w = b \o Written(ls) /\ (ls # <<>> => ~IsWord(Last(ls)))
  <2>1. CASE b # <<>>
    <3>1. Head(w) \in {" ", "\n"} /\ Tail(w) = <<>> \o Written(ls)
      BY <1>3, <1>4, <2>1, WrittenType
    <3> QED BY <1>2, <1>4, <3>1 DEF Unread
  <2>2. CASE b = <<>>
    <3>1. w = Written(ls)
      BY <1>4, <2>2, WrittenType, ConcatEmptySeq
    <3>2. ls # <<>>
      BY <3>1, WrittenNothing
    <3> DEFINE l == Head(ls)
               r == Tail(ls)
               y == Sep(l) \o Written(r)
    <3>3. l \in Lexeme /\ r \in Seq(Lexeme) /\ Len(ls) \in Nat /\ Len(r) = Len(ls) - 1 /\ l = ls[1]
          /\ (\A i \in 1..Len(r) : r[i] = ls[i + 1]) /\ Len(ls) # 0
      BY <3>2, HeadTailProperties, LenProperties, EmptySeq
    <3>4. Sep(l) \in Seq(Chars) /\ Written(r) \in Seq(Chars) /\ l \in Seq(Chars) /\ y \in Seq(Chars)
      <4> HIDE DEF l, r
      <4> QED BY <3>3, SepType, WrittenType, ConcatProperties DEF Lexeme
    <3>5. w = l \o y
      <4>1. w = (l \o Sep(l)) \o Written(r)
        BY <3>1, <3>2, WrittenFront
      <4> HIDE DEF l, r
      <4> QED BY <3>4, <4>1, ConcatAssociative
    <3>6. r # <<>> => Last(r) = Last(ls)
      <4> HIDE DEF l, r
      <4>1. r # <<>> => Len(r) \in 1..Len(r)
        BY <3>3, EmptySeq
      <4> QED BY <3>3, <4>1 DEF Last
    <3>7. r = <<>> => y = <<>>
      <4> SUFFICES ASSUME r = <<>> PROVE y = <<>>
        OBVIOUS
      <4>1. Len(ls) = 1
        <5> HIDE DEF r
        <5> QED BY <3>3, EmptySeq
      <4>2. ~IsWord(l)
        BY <1>4, <3>2, <3>3, <4>1 DEF Last
      <4>3. Sep(l) = <<>> /\ Written(r) = <<>>
        BY <4>2, WrittenNothing DEF Sep
      <4> QED BY <1>2, <4>3, ConcatEmptySeq
    <3>8. Unread(y, r)
      <4>1. r # <<>> => ~IsWord(Last(r))
        BY <1>4, <3>2, <3>6
      <4>2. Sep(l) \in Gaps
        BY <1>2, SepType
      <4> QED BY <4>1, <4>2 DEF Unread
    <3>9. IsWord(l) /\ y # <<>> => y[1] = " "
      <4> SUFFICES ASSUME IsWord(l) PROVE y[1] = " "
        OBVIOUS
      <4>1. Sep(l) = <<" ">> /\ Len(<<" ">>) = 1 /\ <<" ">>[1] = " "
        BY DEF Sep
      <4> DEFINE z == Written(r)
      <4>2. z \in Seq(Chars) /\ <<" ">> \in Seq(Chars) /\ y = <<" ">> \o z
        BY <3>4, <4>1
      <4> HIDE DEF l, r, y, z
      <4>3. Len(z) \in Nat
        BY <4>2, LenProperties
      <4>4. 1 \in 1..(Len(<<" ">>) + Len(z)) /\ 1 <= Len(<<" ">>)
        <5>1. \A a, c \in Nat : a = 1 => 1 \in 1..(a + c) /\ 1 <= a
          OBVIOUS
        <5>2. Len(<<" ">>) = 1 /\ 1 \in Nat
          BY <4>1
        <5> QED BY <5>1, <5>2, <4>3
      <4>5. (<<" ">> \o z)[1] = <<" ">>[1]
        BY <4>2, <4>4, ConcatProperties
      <4> QED BY <4>1, <4>2, <4>5
    <3> HIDE DEF l, r, y
    <3> QED BY <3>2, <3>4, <3>5, <3>7, <3>8, <3>9 DEF l, r
  <2> QED BY <2>1, <2>2
<1>5. CASE Len(ls) = 1 /\ w = b \o ls[1]
  <2>1. ls[1] \in Seq(Chars) /\ Head(ls) = ls[1] /\ Tail(ls) = <<>> /\ ls # <<>>
    <3>0. Len(ls) = 1
      BY <1>5
    <3>1. ls # <<>> /\ 1 \in 1..Len(ls)
      <4>1. ls = <<>> => Len(ls) = 0
        BY EmptySeq
      <4>2. 1 \in 1..1 /\ 1 # 0
        OBVIOUS
      <4> QED BY <3>0, <4>1, <4>2
    <3>2. ls[1] \in Lexeme /\ Tail(ls) \in Seq(Lexeme) /\ Len(Tail(ls)) = 0 /\ Head(ls) = ls[1]
      BY <1>5, <3>1, ElementOfSeq, HeadTailProperties
    <3> QED BY <3>1, <3>2, EmptySeq DEF Lexeme
  <2>2. CASE b # <<>>
    <3>1. Head(w) \in {" ", "\n"} /\ Tail(w) = <<>> \o ls[1]
      BY <1>3, <1>5, <2>1, <2>2
    <3> QED BY <1>2, <1>5, <3>1 DEF Unread
  <2>3. CASE b = <<>>
    <3>1. w = ls[1] \o <<>>
      BY <1>5, <2>1, <2>3, ConcatEmptySeq
    <3>2. Unread(<<>>, <<>>)
      <4>1. <<>> = <<>> \o Written(<<>>)
        BY <1>2, WrittenNothing, ConcatEmptySeq
      <4> QED BY <1>2, <4>1 DEF Unread
    <3> QED BY <1>2, <2>1, <3>1, <3>2
  <2> QED BY <2>2, <2>3
<1> QED BY <1>1, <1>4, <1>5

\* When no text is left no lexeme is.
LEMMA UnreadNothing ==
    ASSUME NEW ls \in Seq(Lexeme), \A i \in 1..Len(ls) : ls[i] # <<>>, Unread(<<>>, ls)
    PROVE  ls = <<>>
<1> SUFFICES ASSUME ls # <<>> PROVE FALSE
  OBVIOUS
<1>0. PICK b \in Gaps : \/ <<>> = b \o Written(ls)
                        \/ Len(ls) = 1 /\ <<>> = b \o ls[1]
  BY DEF Unread
<1> DEFINE l == ls[1]
<1>1. l \in Seq(Chars) /\ Head(ls) = l /\ Len(l) \in Nat \ {0} /\ Tail(ls) \in Seq(Lexeme)
  <2>1. 1 \in 1..Len(ls)
    BY EmptySeq, LenProperties
  <2>2. l \in Seq(Chars) /\ l # <<>> /\ Head(ls) = l /\ Tail(ls) \in Seq(Lexeme)
    BY <2>1, ElementOfSeq, HeadTailProperties DEF Lexeme
  <2> HIDE DEF l
  <2> QED BY <2>2, EmptySeq, LenProperties
<1>2. b \in Seq(Chars) /\ Len(b) \in Nat
  BY GapType, LenProperties
<1>3. Written(ls) \in Seq(Chars) /\ Len(Written(ls)) # 0 /\ Len(Written(ls)) \in Nat
  <2>1. Written(ls) = (l \o Sep(l)) \o Written(Tail(ls))
    BY <1>1, WrittenFront
  <2> HIDE DEF l
  <2>2. Sep(l) \in Seq(Chars) /\ Written(Tail(ls)) \in Seq(Chars)
    BY <1>1, SepType, WrittenType
  <2>3. l \o Sep(l) \in Seq(Chars) /\ Len(l \o Sep(l)) = Len(l) + Len(Sep(l)) /\ Len(Sep(l)) \in Nat
    BY <1>1, <2>2, ConcatProperties, LenProperties
  <2>4. Written(ls) \in Seq(Chars) /\ Len(Written(ls)) = Len(l) + Len(Sep(l)) + Len(Written(Tail(ls)))
    BY <2>1, <2>2, <2>3, ConcatProperties
  <2>5. Len(Written(Tail(ls))) \in Nat
    BY <2>2, LenProperties
  <2> QED BY <1>1, <2>3, <2>4, <2>5
<1> HIDE DEF l
<1>4. Len(b \o Written(ls)) # 0 /\ Len(b \o l) # 0
  BY <1>1, <1>2, <1>3, ConcatProperties
<1>5. Len(<<>>) = 0
  OBVIOUS
<1> QED BY <1>0, <1>4, <1>5 DEF l

-----------------------------------------------------------------------------
(* What ToString prints                                                    *)

Semi == << <<";">> >>
Open == << <<"{">> >>
Shut == << <<"}">> >>

LEMMA MarksType ==
    /\ <<";">> \in Lexeme /\ <<"{">> \in Lexeme /\ <<"}">> \in Lexeme
    /\ Semi \in Seq(Lexeme) /\ Open \in Seq(Lexeme) /\ Shut \in Seq(Lexeme)
    /\ <<>> \in Seq(Lexeme)
<1>1. ";" \in Chars /\ "{" \in Chars /\ "}" \in Chars
  BY DEF Chars, Special
<1>2. <<";">> \in Lexeme /\ <<"{">> \in Lexeme /\ <<"}">> \in Lexeme
  BY <1>1, SingletonSeq DEF Lexeme
<1> QED BY <1>2, SingletonSeq, EmptySeq DEF Semi, Open, Shut

\* Sequences of tokens one behind the other.
LEMMA Joins ==
    ASSUME NEW x \in Seq(Lexeme), NEW y \in Seq(Lexeme), NEW z \in Seq(Lexeme)
    PROVE  /\ x \o y \in Seq(Lexeme) /\ (x \o y) \o z = x \o (y \o z)
           /\ x \o <<>> = x /\ <<>> \o x = x
           /\ x \o z = y \o z => x = y
<1>1. x \o z = y \o z => x = y
  BY ConcatSimplifications, Zenon
<1>2. x \o y \in Seq(Lexeme)
  BY ConcatProperties
<1>3. (x \o y) \o z = x \o (y \o z)
  BY ConcatAssociative
<1>4. x \o <<>> = x /\ <<>> \o x = x
  BY ConcatEmptySeq
<1> QED BY <1>1, <1>2, <1>3, <1>4

\* The same, where many are joined.
Strip == Seq(Lexeme)
Then(x, y) == x \o y

LEMMA Joining ==
    /\ \A x, y \in Strip : Then(x, y) \in Strip 
    /\ \A x, y, z \in Strip : Then(Then(x, y), z) = Then(x, Then(y, z))
    /\ \A x \in Strip : Then(x, <<>>) = x /\ Then(<<>>, x) = x
    /\ \A x, y, z \in Strip : Then(x, z) = Then(y, z) => x = y
<1>1. \A x, y \in Seq(Lexeme) : x \o y \in Seq(Lexeme)
  BY ConcatProperties
<1>2. \A x, y, z \in Seq(Lexeme) : (x \o y) \o z = x \o (y \o z)
  BY ConcatAssociative
<1>3. \A x \in Seq(Lexeme) : x \o <<>> = x /\ <<>> \o x = x
  BY ConcatEmptySeq
<1>4. \A x, y, z \in Seq(Lexeme) : x \o z = y \o z => x = y
  BY ConcatSimplifications, Zenon
<1> QED BY <1>1, <1>2, <1>3, <1>4 DEF Strip, Then

\* What is printed for a statement, given what g prints for its block.
Body(g, s) == s.tokens \o (IF s.child = 0 THEN Semi ELSE Open \o g[s.child] \o Shut)

PrintsWith(g, t, s) == t \o s.tokens \o (IF s.child = 0 THEN Semi ELSE Open \o g[s.child] \o Shut)

PrintsTable(g, p, f) ==
    f = [s \in SUBSET DOMAIN p |->
           IF s = {} THEN <<>> ELSE PrintsWith(g, f[s \ {Max(s)}], p[Max(s)])]

PrintsIn(g, p) == (CHOOSE f : PrintsTable(g, p, f))[DOMAIN p]

\* What is printed of each of the blocks B.
Printed(B) == CHOOSE g : g = [b \in 1..Len(B) |-> PrintsIn(g, B[b])]

LEMMA SerializedIs == Serialized = Printed(blocks)
BY Zenon DEF Serialized, Printed, PrintsIn, PrintsTable, PrintsWith, Semi, Open, Shut,
             FoldLeft, MapThenFoldSet

LEMMA BodyType ==
    ASSUME NEW D, NEW g \in [D -> Seq(Lexeme)], NEW s \in StatementsWith(D)
    PROVE  /\ Body(g, s) \in Seq(Lexeme) /\ s.tokens \in Seq(Lexeme)
           /\ \A t \in Seq(Lexeme) : PrintsWith(g, t, s) = t \o Body(g, s)
<1>1. s.tokens \in Seq(Lexeme) /\ (s.child # 0 => g[s.child] \in Seq(Lexeme))
  BY DEF StatementsWith, Statement
<1> DEFINE e == IF s.child = 0 THEN Semi ELSE Open \o g[s.child] \o Shut
<1>2. e \in Seq(Lexeme)
  <2>1. CASE s.child = 0
    BY <2>1, MarksType
  <2>2. CASE s.child # 0
    <3>1. Open \o g[s.child] \in Seq(Lexeme)
      BY <1>1, <2>2, MarksType, Joins
    <3>2. (Open \o g[s.child]) \o Shut \in Seq(Lexeme)
      BY <3>1, MarksType, ConcatProperties
    <3> QED BY <2>2, <3>2
  <2> QED BY <2>1, <2>2
<1>3. Body(g, s) = s.tokens \o e /\ \A t \in Seq(Lexeme) : PrintsWith(g, t, s) = (t \o s.tokens) \o e
  BY DEF Body, PrintsWith
<1> HIDE DEF e
<1>4. s.tokens \o e \in Seq(Lexeme)
  BY <1>1, <1>2, Joins
<1>5. \A t \in Seq(Lexeme) : (t \o s.tokens) \o e = t \o (s.tokens \o e)
  <2>1. \A t, w \in Seq(Lexeme) : (t \o w) \o e = t \o (w \o e)
    BY <1>2, Joins
  <2> QED BY <1>1, <2>1
<1> QED BY <1>1, <1>3, <1>4, <1>5

\* What is printed of a sequence of statements, one by one.
LEMMA PrintSteps ==
    ASSUME NEW D, NEW g \in [D -> Seq(Lexeme)], NEW p \in Seq(StatementsWith(D)),
           NEW st, st = [x \in Seq(Lexeme) \X StatementsWith(D) |-> x[1] \o Body(g, x[2])]
    PROVE  FoldsTo(Seq(Lexeme), st, <<>>, p, PrintsIn(g, p))
<1> DEFINE S == StatementsWith(D)
           V == Seq(Lexeme)
<1>1. /\ st \in [V \X S -> V]
      /\ \A a \in V, b \in S : st[<<a, b>>] = PrintsWith(g, a, b)
  <2>1. \A a \in V, b \in S : a \o Body(g, b) \in V /\ PrintsWith(g, a, b) = a \o Body(g, b)
    BY BodyType, ConcatProperties
  <2> HIDE DEF S, V
  <2> QED BY <2>1 DEF S, V
<1>2. <<>> \in V
  BY MarksType
<1>3. p \in Seq(S) /\ Len(p) \in 0..Len(p) /\ \A s \in SUBSET DOMAIN p : s # {} => p[Max(s)] \in S
  <2>1. Len(p) \in Nat
    BY LenProperties
  <2> QED BY <2>1, LenProperties, ElementOfSeq, SomeMax
<1> HIDE DEF S, V
<1>4. PICK f : Folds(V, S, st, <<>>, p, f)
  BY <1>1, <1>2, <1>3, FoldExists, Zenon
<1>5. PrintsTable(g, p, f)
  <2>1. \A s \in SUBSET DOMAIN p :
           f[s] = IF s = {} THEN <<>> ELSE PrintsWith(g, f[s \ {Max(s)}], p[Max(s)])
    BY <1>1, <1>4 DEF Folds
  <2>2. f = [s \in SUBSET DOMAIN p |-> f[s]]
    BY <1>4 DEF Folds
  <2>3. [s \in SUBSET DOMAIN p |-> f[s]]
          = [s \in SUBSET DOMAIN p |->
               IF s = {} THEN <<>> ELSE PrintsWith(g, f[s \ {Max(s)}], p[Max(s)])]
    BY <2>1, Zenon
  <2> QED BY <2>2, <2>3, Zenon DEF PrintsTable
<1>6. PICK h : PrintsTable(g, p, h) /\ PrintsIn(g, p) = h[DOMAIN p]
  BY <1>5 DEF PrintsIn
<1>7. \A s \in SUBSET DOMAIN p :
         h[s] = IF s = {} THEN <<>> ELSE PrintsWith(g, h[s \ {Max(s)}], p[Max(s)])
  BY <1>6, Zenon DEF PrintsTable
<1>8. TableOf(V, st, <<>>, p, h)
  BY <1>1, <1>3, <1>7 DEF TableOf
<1>9. FoldsTo(V, st, <<>>, p, h[DOMAIN p])
  BY <1>1, <1>2, <1>3, <1>8, FoldSteps, Zenon
<1> QED BY <1>6, <1>9 DEF V

LEMMA PrintsInType ==
    ASSUME NEW D, NEW g \in [D -> Seq(Lexeme)], NEW p \in Seq(StatementsWith(D))
    PROVE  PrintsIn(g, p) \in Seq(Lexeme)
<1>1. PICK st : st = [x \in Seq(Lexeme) \X StatementsWith(D) |-> x[1] \o Body(g, x[2])]
  OBVIOUS
<1>2. FoldsTo(Seq(Lexeme), st, <<>>, p, PrintsIn(g, p))
  BY <1>1, PrintSteps
<1>3. Len(p) \in 0..Len(p)
  <2>1. Len(p) \in Nat
    BY LenProperties
  <2> QED BY <2>1
<1> QED BY <1>2, <1>3 DEF FoldsTo, Accumulates

LEMMA PrintsNothing ==
    ASSUME NEW D, NEW g \in [D -> Seq(Lexeme)] PROVE PrintsIn(g, <<>>) = <<>>
<1>1. PICK st : st = [x \in Seq(Lexeme) \X StatementsWith(D) |-> x[1] \o Body(g, x[2])]
  OBVIOUS
<1>2. <<>> \in Seq(StatementsWith(D)) /\ Len(<<>>) = 0
  BY EmptySeq
<1>3. FoldsTo(Seq(Lexeme), st, <<>>, <<>>, PrintsIn(g, <<>>))
  BY <1>1, <1>2, PrintSteps
<1> QED BY <1>2, <1>3 DEF FoldsTo, Accumulates

\* One more statement prints behind the others.
LEMMA PrintsMore ==
    ASSUME NEW D, NEW g \in [D -> Seq(Lexeme)], NEW p \in Seq(StatementsWith(D)), NEW s \in StatementsWith(D)
    PROVE  PrintsIn(g, Append(p, s)) = PrintsIn(g, p) \o Body(g, s)
<1> DEFINE q == Append(p, s)
           n == Len(p)
<1>1. PICK st : st = [x \in Seq(Lexeme) \X StatementsWith(D) |-> x[1] \o Body(g, x[2])]
  OBVIOUS
<1>2. /\ n \in Nat /\ q \in Seq(StatementsWith(D)) /\ Len(q) = n + 1 /\ q[n + 1] = s
      /\ \A i \in 1..n : p[i] = q[i]
  BY LenProperties, AppendProperties
<1>3. FoldsTo(Seq(Lexeme), st, <<>>, p, PrintsIn(g, p)) /\ FoldsTo(Seq(Lexeme), st, <<>>, q, PrintsIn(g, q))
  <2> HIDE DEF q
  <2> QED BY <1>1, <1>2, PrintSteps
<1>4. PICK a : Accumulates(Seq(Lexeme), st, <<>>, p, a) /\ PrintsIn(g, p) = a[n]
  BY <1>3 DEF FoldsTo
<1>5. PICK b : Accumulates(Seq(Lexeme), st, <<>>, q, b) /\ PrintsIn(g, q) = b[n + 1]
  BY <1>2, <1>3 DEF FoldsTo
<1> HIDE DEF q, n
<1>6. a[n] = b[n]
  <2>1. Len(p) \in Nat /\ Len(q) \in Nat /\ n <= Len(p) /\ n <= Len(q)
    BY <1>2 DEF n
  <2> QED BY <1>2, <1>4, <1>5, <2>1, SameSteps
<1>7. b[n + 1] = st[<<b[n], q[n + 1]>>] /\ b[n] \in Seq(Lexeme)
  <2>1. n \in 0..(Len(q) - 1) /\ n \in 0..Len(q)
    BY <1>2
  <2> QED BY <1>5, <2>1 DEF Accumulates
<1>8. st[<<b[n], s>>] = b[n] \o Body(g, s)
  BY <1>1, <1>7
<1> QED BY <1>2, <1>4, <1>5, <1>6, <1>7, <1>8 DEF q

\* Only what g prints of the blocks of the statements counts.
LEMMA PrintsLocal ==
    ASSUME NEW p, NEW g, NEW h, NEW n \in Nat, DOMAIN p = 1..n,
           \A i \in DOMAIN p : p[i].child # 0 => g[p[i].child] = h[p[i].child]
    PROVE  PrintsIn(g, p) = PrintsIn(h, p)
<1>1. ASSUME NEW f, NEW s \in SUBSET DOMAIN p, s # {}
      PROVE  PrintsWith(g, f[s \ {Max(s)}], p[Max(s)]) = PrintsWith(h, f[s \ {Max(s)}], p[Max(s)])
  <2>1. Max(s) \in DOMAIN p
    BY <1>1, SomeMax
  <2> DEFINE a == f[s \ {Max(s)}]
             e == p[Max(s)]
  <2>2. e.child # 0 => g[e.child] = h[e.child]
    BY <2>1
  <2> HIDE DEF a, e
  <2>3. PrintsWith(g, a, e) = PrintsWith(h, a, e)
    BY <2>2, Zenon DEF PrintsWith
  <2> QED BY <2>3 DEF a, e
<1>2. ASSUME NEW f PROVE PrintsTable(g, p, f) = PrintsTable(h, p, f)
  <2>1. [s \in SUBSET DOMAIN p |->
           IF s = {} THEN <<>> ELSE PrintsWith(g, f[s \ {Max(s)}], p[Max(s)])]
        = [s \in SUBSET DOMAIN p |->
           IF s = {} THEN <<>> ELSE PrintsWith(h, f[s \ {Max(s)}], p[Max(s)])]
    BY <1>1, Zenon
  <2> QED BY <2>1, Zenon DEF PrintsTable
<1>3. (CHOOSE f : PrintsTable(g, p, f)) = (CHOOSE f : PrintsTable(h, p, f))
  BY <1>2, Zenon
<1> QED BY <1>3, Zenon DEF PrintsIn

\* What is printed of the blocks is defined: a block inside another has the greater
\* number.
LEMMA PrintedIs ==
    ASSUME NEW B, Tree(B)
    PROVE  /\ Printed(B) \in [1..Len(B) -> Seq(Lexeme)]
           /\ Printed(B) = [b \in 1..Len(B) |-> PrintsIn(Printed(B), B[b])]
<1> DEFINE n    == Len(B)
           D    == 1..n
           rank == [b \in D |-> n - b]
           G    == [g \in [D -> Seq(Lexeme)] |-> [b \in D |-> PrintsIn(g, B[b])]]
<1>1. n \in Nat
  BY LenProperties DEF Tree
<1>2. ASSUME NEW b \in D
      PROVE  /\ Len(B[b]) \in Nat /\ DOMAIN B[b] = 1..Len(B[b])
             /\ B[b] \in Seq(StatementsWith((b + 1)..n)) /\ B[b] \in Seq(StatementsWith(D))
             /\ \A i \in DOMAIN B[b] : B[b][i].child # 0 => B[b][i].child \in (b + 1)..n
  BY TreeStatements
<1> HIDE DEF n
<1>3. G \in [[D -> Seq(Lexeme)] -> [D -> Seq(Lexeme)]]
  <2> SUFFICES ASSUME NEW g \in [D -> Seq(Lexeme)], NEW b \in D PROVE PrintsIn(g, B[b]) \in Seq(Lexeme)
    OBVIOUS
  <2>1. B[b] \in Seq(StatementsWith(D))
    BY <1>2
  <2> HIDE DEF D
  <2> QED BY <2>1, PrintsInType
<1>4. ASSUME NEW g \in [D -> Seq(Lexeme)], NEW h \in [D -> Seq(Lexeme)], NEW b \in D,
             \A e \in D : rank[e] < rank[b] => g[e] = h[e]
      PROVE  G[g][b] = G[h][b]
  <2>1. \A c \in (b + 1)..n : g[c] = h[c]
    <3>1. \A c \in (b + 1)..n : c \in D /\ rank[c] < rank[b]
      BY <1>1
    <3> QED BY <1>4, <3>1
  <2>2. \A i \in DOMAIN B[b] : B[b][i].child # 0 => g[B[b][i].child] = h[B[b][i].child]
    BY <1>2, <2>1
  <2>3. PrintsIn(g, B[b]) = PrintsIn(h, B[b])
    BY <1>2, <2>2, PrintsLocal, Zenon
  <2> QED BY <2>3
<1>5. [D -> Seq(Lexeme)] # {} /\ rank \in [D -> 0..n]
  <2>1. [b \in D |-> <<>>] \in [D -> Seq(Lexeme)]
    BY MarksType
  <2>2. \A b \in D : n - b \in 0..n
    BY <1>1
  <2> QED BY <2>1, <2>2
<1>6. Recursive(D, Seq(Lexeme), n, rank, G)
  <2> HIDE DEF G, rank, D
  <2> QED BY <1>1, <1>3, <1>4, <1>5 DEF Recursive
<1>7. PICK g \in [D -> Seq(Lexeme)] : g = G[g]
  <2> HIDE DEF G, rank, D
  <2> QED BY <1>6, Recursion DEF Defines
<1>8. g = [b \in 1..Len(B) |-> PrintsIn(g, B[b])]
  BY <1>7 DEF n
<1>9. Printed(B) = [b \in 1..Len(B) |-> PrintsIn(Printed(B), B[b])]
  BY <1>8, Zenon DEF Printed
<1>10. ASSUME NEW b \in 1..n, (b + 1)..n \subseteq {c \in D : Printed(B)[c] \in Seq(Lexeme)}
       PROVE  b \in {c \in D : Printed(B)[c] \in Seq(Lexeme)}
  <2> DEFINE E == (b + 1)..n
             h == [c \in E |-> Printed(B)[c]]
  <2>1. h \in [E -> Seq(Lexeme)] /\ \A c \in E : Printed(B)[c] = h[c]
    BY <1>10
  <2>2. PrintsIn(h, B[b]) \in Seq(Lexeme)
    <3>1. B[b] \in Seq(StatementsWith(E))
      BY <1>2
    <3> HIDE DEF E, h
    <3> QED BY <2>1, <3>1, PrintsInType
  <2>3. PrintsIn(Printed(B), B[b]) = PrintsIn(h, B[b])
    <3>1. \A i \in DOMAIN B[b] :
             B[b][i].child # 0 => Printed(B)[B[b][i].child] = h[B[b][i].child]
      BY <1>2, <2>1
    <3> HIDE DEF h
    <3> QED BY <1>2, <3>1, PrintsLocal, Zenon
  <2>4. Printed(B)[b] = PrintsIn(Printed(B), B[b])
    BY <1>9, Zenon DEF n
  <2> QED BY <2>2, <2>3, <2>4
<1>11. \A b \in D : Printed(B)[b] \in Seq(Lexeme)
  <2> DEFINE P == {b \in D : Printed(B)[b] \in Seq(Lexeme)}
  <2>1. ASSUME NEW b \in 1..n, (b + 1)..n \subseteq P PROVE b \in P
    BY <1>10, <2>1
  <2> HIDE DEF P
  <2>2. 1..n \subseteq P
    BY <1>1, <2>1, Downwards
  <2> QED BY <2>2 DEF P
<1>12. Printed(B) = [b \in D |-> Printed(B)[b]]
  BY <1>9, Zenon DEF n
<1> QED BY <1>9, <1>11, <1>12 DEF n

\* A block that ends with a statement.
EndsWith(B, b) ==
    LET n == Len(B)
        p == B[b]
        m == Len(p) - 1
        F == SubSeq(p, 1, m)
        s == p[m + 1]
    IN  /\ m \in Nat /\ Len(p) = m + 1
        /\ F \in Seq(StatementsWith(1..n)) /\ Len(F) = m /\ DOMAIN F = 1..m
        /\ \A i \in 1..m : F[i] = p[i]
        /\ s \in StatementsWith(1..n)
        /\ PrintsIn(Printed(B), F) \in Seq(Lexeme)
        /\ Printed(B)[b] = PrintsIn(Printed(B), F) \o Body(Printed(B), s)

LEMMA PrintedLast ==
    ASSUME NEW B, Tree(B), NEW b \in 1..Len(B), B[b] # <<>>
    PROVE  EndsWith(B, b)
<1> DEFINE n == Len(B)
           p == B[b]
           m == Len(p) - 1
           F == SubSeq(p, 1, m)
           s == p[m + 1]
           S == StatementsWith(1..n)
           g == Printed(B)
<1>1. p \in Seq(S) /\ Len(p) \in Nat
  BY TreeStatements
<1>2. m \in Nat /\ Len(p) = m + 1 /\ \A i \in 1..(m + 1) : p[i] \in S
  <2> HIDE DEF p, S
  <2>1. Len(p) # 0
    BY <1>1, EmptySeq DEF p
  <2> QED BY <1>1, <2>1, ElementOfSeq
<1>3. F \in Seq(S) /\ Len(F) = m /\ \A i \in 1..m : F[i] = p[i]
  <2> HIDE DEF p, S, m
  <2>1. \A i \in 1..m : p[i] \in S
    BY <1>2
  <2>2. /\ F \in Seq(S) /\ Len(F) = IF 1 <= m THEN m - 1 + 1 ELSE 0
        /\ \A i \in 1..(m - 1 + 1) : F[i] = p[1 + i - 1]
    BY <1>2, <2>1, SubSeqProperties
  <2>3. m - 1 + 1 = m /\ (~(1 <= m) => m = 0) /\ \A i \in 1..m : 1 + i - 1 = i
    BY <1>2
  <2> QED BY <2>2, <2>3
<1>4. p = Append(F, s) /\ s \in S
  <2>1. s \in S
    BY <1>2
  <2> HIDE DEF p, S, F, s, m
  <2>2. /\ Append(F, s) \in Seq(S) /\ Len(Append(F, s)) = m + 1
        /\ \A i \in 1..m : Append(F, s)[i] = F[i]
        /\ Append(F, s)[m + 1] = s
    BY <1>3, <2>1, AppendProperties
  <2>3. \A i \in 1..(m + 1) : p[i] = Append(F, s)[i]
    <3>1. \A i \in 1..(m + 1) : i \in 1..m \/ i = m + 1
      BY <1>2
    <3> QED BY <1>3, <2>2, <3>1 DEF s
  <2> QED BY <1>1, <1>2, <2>1, <2>2, <2>3, SeqEqual
<1>5. g \in [1..n -> Seq(Lexeme)] /\ g[b] = PrintsIn(g, p)
  <2>1. g \in [1..n -> Seq(Lexeme)] /\ g = [c \in 1..Len(B) |-> PrintsIn(g, B[c])]
    BY PrintedIs
  <2> HIDE DEF g
  <2> QED BY <2>1, Zenon
<1>6. DOMAIN F = 1..m
  <2> HIDE DEF F, S, m
  <2> QED BY <1>3, LenProperties
<1> HIDE DEF F, s, m, p, g
<1>7. PrintsIn(g, F) \in Seq(Lexeme)
  <2> HIDE DEF n
  <2> QED BY <1>3, <1>5, PrintsInType
<1>8. g[b] = PrintsIn(g, F) \o Body(g, s)
  <2> HIDE DEF n
  <2> QED BY <1>3, <1>4, <1>5, PrintsMore
<1> QED BY <1>2, <1>3, <1>4, <1>6, <1>7, <1>8 DEF F, s, m, p, g, EndsWith

LEMMA PrintedEmpty ==
    ASSUME NEW B, Tree(B), NEW b \in 1..Len(B), B[b] = <<>>
    PROVE  Printed(B)[b] = <<>>
<1>1. Printed(B) \in [1..Len(B) -> Seq(Lexeme)] /\ Printed(B) = [c \in 1..Len(B) |-> PrintsIn(Printed(B), B[c])]
  BY PrintedIs
<1> DEFINE g == Printed(B)
           D == 1..Len(B)
<1>2. g[b] = PrintsIn(g, B[b]) /\ g \in [D -> Seq(Lexeme)]
  <2> HIDE DEF g
  <2> QED BY <1>1, Zenon DEF g
<1> HIDE DEF g, D
<1>3. PrintsIn(g, <<>>) = <<>>
  BY <1>2, PrintsNothing
<1> QED BY <1>2, <1>3 DEF g

\* c leads from a block to the block of its last statement and so on, and nothing
\* else leads to a block on it.
Path(B, c) ==
    /\ c \in Seq(1..Len(B)) /\ c # <<>>
    /\ \A i \in 1..(Len(c) - 1) :
          B[c[i]] # <<>> /\ Last(B[c[i]]).child = c[i + 1] /\ c[i] # Last(c)
    /\ \A b \in 1..Len(B) : \A i \in 1..Len(B[b]) : \A j \in 1..Len(c) :
          B[b][i].child = c[j] => j > 1 /\ b = c[j - 1] /\ i = Len(B[b])

\* C differs from B in the last block of the path, and may have more blocks.
Changed(B, C, c) ==
    /\ Tree(B) /\ Tree(C) /\ Path(B, c) /\ Len(B) <= Len(C)
    /\ \A b \in 1..Len(B) : b # Last(c) => C[b] = B[b]

OffPath(c, b) == \A j \in 1..Len(c) : b # c[j]

LEMMA PathFacts ==
    ASSUME NEW B, NEW c, Path(B, c)
    PROVE  /\ Len(c) \in Nat \ {0} /\ Len(c) \in 1..Len(c) /\ Last(c) = c[Len(c)]
           /\ \A i \in 1..Len(c) : c[i] \in 1..Len(B)
<1>1. c \in Seq(1..Len(B)) /\ c # <<>>
  BY DEF Path
<1>2. Len(c) \in Nat \ {0}
  BY <1>1, EmptySeq
<1>3. \A i \in 1..Len(c) : c[i] \in 1..Len(B)
  BY <1>1, ElementOfSeq
<1>4. Len(c) \in 1..Len(c)
  BY <1>2
<1> QED BY <1>2, <1>3, <1>4 DEF Last

LEMMA OffPathSame ==
    ASSUME NEW B, NEW C, NEW c, Changed(B, C, c)
    PROVE  \A b \in 1..Len(B) : OffPath(c, b) => Printed(B)[b] = Printed(C)[b]
<1> DEFINE n == Len(B)
           g == Printed(B)
           h == Printed(C)
           P == {b \in 1..n : OffPath(c, b) => g[b] = h[b]}
<1>1. Tree(B) /\ Tree(C) /\ n \in Nat /\ Len(C) \in Nat /\ n <= Len(C) /\ Path(B, c)
  <2>1. Tree(B) /\ Tree(C)
    BY DEF Changed
  <2> QED BY <2>1, LenProperties DEF Changed, Tree
<1>2. g = [b \in 1..n |-> PrintsIn(g, B[b])] /\ h = [b \in 1..Len(C) |-> PrintsIn(h, C[b])]
  BY <1>1, PrintedIs
<1>3. /\ \A b \in 1..n : g[b] = PrintsIn(g, B[b])
      /\ \A b \in 1..Len(C) : h[b] = PrintsIn(h, C[b])
  <2> HIDE DEF g, h, n
  <2> QED BY <1>2, Zenon
<1> HIDE DEF g, h
<1>4. ASSUME NEW b \in 1..n, (b + 1)..n \subseteq P, OffPath(c, b) PROVE g[b] = h[b]
  <2>1. b \in 1..Len(C) /\ C[b] = B[b]
    <3>1. b # Last(c)
      BY <1>1, <1>4, PathFacts DEF OffPath
    <3>2. C[b] = B[b]
      BY <3>1, <1>4 DEF Changed
    <3>3. b \in 1..Len(C)
      BY <1>1, <1>4
    <3> QED BY <3>2, <3>3
  <2>2. /\ Len(B[b]) \in Nat /\ DOMAIN B[b] = 1..Len(B[b])
        /\ \A i \in 1..Len(B[b]) : B[b][i].child # 0 => B[b][i].child \in (b + 1)..n
    BY <1>1, <1>4, TreeStatements
  <2>3. ASSUME NEW i \in DOMAIN B[b], B[b][i].child # 0
        PROVE  g[B[b][i].child] = h[B[b][i].child]
    <3>1. i \in 1..Len(B[b]) /\ B[b][i].child \in P
      BY <1>4, <2>2, <2>3
    <3>2. OffPath(c, B[b][i].child)
      <4> SUFFICES ASSUME NEW j \in 1..Len(c), B[b][i].child = c[j] PROVE FALSE
        BY DEF OffPath
      <4>1. j > 1 /\ b = c[j - 1]
        BY <1>1, <3>1 DEF Path
      <4>2. j - 1 \in 1..Len(c)
        BY <1>1, <4>1, PathFacts
      <4> QED BY <1>4, <4>1, <4>2 DEF OffPath
    <3> QED BY <3>1, <3>2
  <2> DEFINE p == B[b]
             m == Len(p)
  <2>4. m \in Nat /\ DOMAIN p = 1..m /\ \A i \in DOMAIN p : p[i].child # 0 => g[p[i].child] = h[p[i].child]
    BY <2>2, <2>3
  <2>5. g[b] = PrintsIn(g, p) /\ h[b] = PrintsIn(h, p)
    BY <1>3, <2>1
  <2> HIDE DEF p, m
  <2>6. PrintsIn(g, p) = PrintsIn(h, p)
    BY <2>4, PrintsLocal, Zenon
  <2> QED BY <2>5, <2>6
<1>5. ASSUME NEW b \in 1..n, (b + 1)..n \subseteq P PROVE b \in P
  BY <1>4, <1>5
<1> HIDE DEF P, n
<1>6. 1..n \subseteq P
  BY <1>1, <1>5, Downwards
<1> QED BY <1>6 DEF P, n, g, h

\* The same is printed around the block of the last statement.
LEMMA AroundSame ==
    ASSUME NEW B, NEW C, NEW c, Changed(B, C, c), NEW i \in 1..(Len(c) - 1)
    PROVE  \E A \in Seq(Lexeme) :
               /\ Printed(B)[c[i]] = A \o (Printed(B)[c[i + 1]] \o Shut)
               /\ Printed(C)[c[i]] = A \o (Printed(C)[c[i + 1]] \o Shut)
               /\ Printed(B)[c[i + 1]] \in Seq(Lexeme) /\ Printed(C)[c[i + 1]] \in Seq(Lexeme)
<1> DEFINE b == c[i]
           d == c[i + 1]
           n == Len(B)
           p == B[b]
           m == Len(p) - 1
           F == SubSeq(p, 1, m)
           s == p[m + 1]
           g == Printed(B)
           h == Printed(C)
<1>1. Tree(B) /\ Tree(C) /\ n \in Nat /\ Len(C) \in Nat /\ n <= Len(C) /\ Path(B, c)
  <2>1. Tree(B) /\ Tree(C)
    BY DEF Changed
  <2> QED BY <2>1, LenProperties DEF Changed, Tree
<1>2. i \in 1..Len(c) /\ i + 1 \in 1..Len(c) /\ Len(c) \in Nat
  BY <1>1, PathFacts
<1>3. b \in 1..n /\ d \in 1..n /\ b \in 1..Len(C) /\ d \in 1..Len(C)
  <2>1. b \in 1..n /\ d \in 1..n
    BY <1>1, <1>2, PathFacts
  <2> HIDE DEF b, d, n
  <2> QED BY <2>1, <1>1
<1>4. p # <<>> /\ Last(p).child = d /\ b # Last(c)
  BY <1>1 DEF Path
<1>5. C[b] = p
  <2>1. b # Last(c) /\ b \in 1..Len(B)
    BY <1>3, <1>4
  <2> HIDE DEF b
  <2> QED BY <2>1 DEF Changed, p
<1>6. /\ m \in Nat /\ Len(p) = m + 1
      /\ F \in Seq(StatementsWith(1..n)) /\ Len(F) = m /\ DOMAIN F = 1..m
      /\ \A k \in 1..m : F[k] = p[k]
      /\ s \in StatementsWith(1..n)
      /\ PrintsIn(g, F) \in Seq(Lexeme)
      /\ g[b] = PrintsIn(g, F) \o Body(g, s)
  BY <1>1, <1>3, <1>4, PrintedLast DEF EndsWith
<1>7. h[b] = PrintsIn(h, F) \o Body(h, s)
  <2>1. C[b] # <<>>
    BY <1>4, <1>5
  <2> HIDE DEF b
  <2>2. h[b] = PrintsIn(h, SubSeq(C[b], 1, Len(C[b]) - 1)) \o Body(h, C[b][Len(C[b]) - 1 + 1])
    BY <1>1, <1>3, <2>1, PrintedLast DEF EndsWith
  <2> QED BY <2>2, <1>5
<1>8. s.child = d /\ d # 0 /\ s.tokens \in Seq(Lexeme)
  <2>1. s = Last(p)
    BY <1>6 DEF Last
  <2>2. s.tokens \in Seq(Lexeme)
    <3> HIDE DEF s
    <3> QED BY <1>6 DEF StatementsWith, Statement
  <2>3. d # 0
    <3> HIDE DEF d
    <3> QED BY <1>3, <1>1
  <2> QED BY <1>4, <2>1, <2>2, <2>3
<1>9. PrintsIn(g, F) = PrintsIn(h, F)
  <2>1. ASSUME NEW k \in 1..m, p[k].child # 0 PROVE g[p[k].child] = h[p[k].child]
    <3>1. k \in 1..Len(p) /\ k # Len(p)
      BY <1>6
    <3>2. p[k].child \in 1..n
      <4>1. p[k].child \in (b + 1)..n
        BY <1>1, <1>3, <2>1, <3>1, TreeStatements
      <4> HIDE DEF p, b, n
      <4> QED BY <4>1, <1>3
    <3>3. OffPath(c, p[k].child)
      <4> SUFFICES ASSUME NEW j \in 1..Len(c), p[k].child = c[j] PROVE FALSE
        BY DEF OffPath
      <4>1. k = Len(B[b])
        BY <1>1, <1>3, <3>1 DEF Path
      <4> QED BY <3>1, <4>1
    <3> HIDE DEF p, g, h
    <3> QED BY <3>2, <3>3, OffPathSame DEF g, h
  <2>2. \A k \in DOMAIN F : F[k].child # 0 => g[F[k].child] = h[F[k].child]
    BY <1>6, <2>1
  <2> HIDE DEF F, g, h, m
  <2> QED BY <1>6, <2>2, PrintsLocal, Zenon
<1>10. g[d] \in Seq(Lexeme) /\ h[d] \in Seq(Lexeme)
  <2>1. g \in [1..n -> Seq(Lexeme)] /\ h \in [1..Len(C) -> Seq(Lexeme)]
    BY <1>1, PrintedIs
  <2> QED BY <1>3, <2>1
<1> DEFINE X == PrintsIn(g, F)
           A == X \o (s.tokens \o Open)
<1>11. Body(g, s) = s.tokens \o (Open \o g[d] \o Shut) /\ Body(h, s) = s.tokens \o (Open \o h[d] \o Shut)
  BY <1>8 DEF Body
<1>12. X \in Seq(Lexeme) /\ A \in Seq(Lexeme)
  <2>1. s.tokens \o Open \in Seq(Lexeme)
    BY <1>8, MarksType, Joins
  <2> HIDE DEF s, F, g
  <2> QED BY <1>6, <2>1, Joins
<1> HIDE DEF X, F, g, h, d, b, s
<1>13. ASSUME NEW y \in Seq(Lexeme) PROVE X \o (s.tokens \o (Open \o y \o Shut)) = A \o (y \o Shut)
  <2>1. PICK t : t = s.tokens
    OBVIOUS
  <2>2. t \in Strip /\ Open \in Strip /\ Shut \in Strip /\ y \in Strip /\ X \in Strip
    BY <1>8, <1>12, <2>1, MarksType DEF Strip
  <2>3. Then(X, Then(t, Then(Then(Open, y), Shut))) = Then(Then(X, Then(t, Open)), Then(y, Shut))
    BY <2>2, Joining
  <2> QED BY <2>1, <2>3 DEF A, Then
<1>14. g[b] = A \o (g[d] \o Shut) /\ h[b] = A \o (h[d] \o Shut)
  BY <1>6, <1>7, <1>9, <1>10, <1>11, <1>13 DEF X
<1> HIDE DEF A
<1> QED BY <1>10, <1>12, <1>14 DEF g, h, b, d

\* The brackets that close m blocks.
Closing(m) == [j \in 1..m |-> <<"}">>]

LEMMA Repeated ==
    ASSUME NEW S, NEW e \in S, NEW m \in Nat, NEW f, f = [j \in 1..m |-> e]
    PROVE  f \in Seq(S) /\ Len(f) = m /\ \A j \in 1..m : f[j] = e
<1>1. f \in [1..m -> S]
  OBVIOUS
<1>2. f \in Seq(S)
  BY <1>1, SeqDef
<1>3. DOMAIN f = 1..m
  OBVIOUS
<1>4. Len(f) = m
  BY <1>2, <1>3, LenProperties
<1> QED BY <1>2, <1>4

\* Sequences of the same element are told apart by their lengths.
Repeats(x, e, m) == Len(x) = m /\ \A j \in 1..m : x[j] = e

LEMMA OneMore ==
    ASSUME NEW S, NEW e \in S, NEW m \in Nat, NEW x \in Seq(S), NEW y \in Seq(S), NEW z \in Seq(S),
           Len(y) = 1, y[1] = e, Repeats(x, e, m), Repeats(z, e, m + 1)
    PROVE  x \o y = z /\ y \o x = z
<1>0. /\ Len(x) = m /\ \A j \in 1..m : x[j] = e
      /\ Len(z) = m + 1 /\ \A j \in 1..(m + 1) : z[j] = e
  BY DEF Repeats
<1>1. /\ x \o y \in Seq(S) /\ Len(x \o y) = m + 1
      /\ \A j \in 1..(m + 1) : (x \o y)[j] = IF j <= m THEN x[j] ELSE y[j - m]
  <2>1. /\ x \o y \in Seq(S) /\ Len(x \o y) = Len(x) + Len(y)
        /\ \A j \in 1..(Len(x) + Len(y)) : (x \o y)[j] = IF j <= Len(x) THEN x[j] ELSE y[j - Len(x)]
    BY ConcatProperties
  <2> QED BY <1>0, <2>1
<1>2. /\ y \o x \in Seq(S) /\ Len(y \o x) = 1 + m
      /\ \A j \in 1..(1 + m) : (y \o x)[j] = IF j <= 1 THEN y[j] ELSE x[j - 1]
  <2>1. /\ y \o x \in Seq(S) /\ Len(y \o x) = Len(y) + Len(x)
        /\ \A j \in 1..(Len(y) + Len(x)) : (y \o x)[j] = IF j <= Len(y) THEN y[j] ELSE x[j - Len(y)]
    BY ConcatProperties
  <2> QED BY <1>0, <2>1
<1>3. \A j \in 1..(m + 1) : (x \o y)[j] = z[j]
  <2>1. \A j \in 1..(m + 1) : j <= m => j \in 1..m
    OBVIOUS
  <2>2. \A j \in 1..(m + 1) : ~(j <= m) => j - m = 1
    OBVIOUS
  <2> QED BY <1>0, <1>1, <2>1, <2>2
<1>4. \A j \in 1..(m + 1) : (y \o x)[j] = z[j]
  <2>1. \A j \in 1..(m + 1) : ~(j <= 1) => j - 1 \in 1..m
    OBVIOUS
  <2>2. \A j \in 1..(m + 1) : (j <= 1 => j = 1) /\ j \in 1..(1 + m)
    OBVIOUS
  <2> QED BY <1>0, <1>2, <2>1, <2>2
<1>5. x \o y = z
  BY <1>0, <1>1, <1>3, SeqEqual
<1>6. Len(y \o x) = m + 1
  BY <1>2
<1>7. y \o x = z
  BY <1>0, <1>2, <1>4, <1>6, SeqEqual
<1> QED BY <1>5, <1>7

LEMMA ClosingIs ==
    /\ Closing(0) = <<>>
    /\ \A m \in Nat : /\ Closing(m) \in Seq(Lexeme)
                      /\ Closing(m) \o Shut = Closing(m + 1)
                      /\ Shut \o Closing(m) = Closing(m + 1)
<1>1. PICK e : e = <<"}">>
  OBVIOUS
<1>2. e \in Lexeme /\ Shut \in Seq(Lexeme) /\ Len(Shut) = 1 /\ Shut[1] = e
  BY <1>1, MarksType DEF Shut
<1>3. \A m \in Nat : /\ Closing(m) \in Seq(Lexeme) /\ Len(Closing(m)) = m
                     /\ \A j \in 1..m : Closing(m)[j] = e
  <2> SUFFICES ASSUME NEW m \in Nat
               PROVE  /\ Closing(m) \in Seq(Lexeme) /\ Len(Closing(m)) = m
                      /\ \A j \in 1..m : Closing(m)[j] = e
    OBVIOUS
  <2>1. PICK f : f = Closing(m)
    OBVIOUS
  <2>2. f = [j \in 1..m |-> e]
    BY <1>1, <2>1 DEF Closing
  <2> QED BY <1>2, <2>1, <2>2, Repeated
<1>4. Closing(0) = <<>>
  <2>1. Closing(0) \in Seq(Lexeme) /\ Len(Closing(0)) = 0
    BY <1>3
  <2> QED BY <2>1, EmptySeq
<1>5. ASSUME NEW m \in Nat PROVE Closing(m) \o Shut = Closing(m + 1) /\ Shut \o Closing(m) = Closing(m + 1)
  <2>1. m + 1 \in Nat
    OBVIOUS
  <2>2. Closing(m) \in Seq(Lexeme) /\ Repeats(Closing(m), e, m)
    BY <1>3 DEF Repeats
  <2>3. Closing(m + 1) \in Seq(Lexeme) /\ Repeats(Closing(m + 1), e, m + 1)
    BY <1>3, <2>1 DEF Repeats
  <2> QED BY <1>2, <2>2, <2>3, OneMore
<1> QED BY <1>3, <1>4, <1>5

\* What is printed of the first block around the last one on the path.
Around(B, C, c) ==
    \E A \in Seq(Lexeme) :
        /\ Printed(B)[c[1]] = A \o (Printed(B)[Last(c)] \o Closing(Len(c) - 1))
        /\ Printed(C)[c[1]] = A \o (Printed(C)[Last(c)] \o Closing(Len(c) - 1))

LEMMA SpineSame == ASSUME NEW B, NEW C, NEW c, Changed(B, C, c) PROVE Around(B, C, c)
<1> DEFINE K == Len(c)
           g == Printed(B)
           h == Printed(C)
           Upto(m) == \E A \in Seq(Lexeme) :
                           /\ g[c[K - m]] = A \o (g[c[K]] \o Closing(m))
                           /\ h[c[K - m]] = A \o (h[c[K]] \o Closing(m))
           N == {m \in Nat : m <= K - 1 => Upto(m)}
<1>1. Path(B, c) /\ Tree(B) /\ Tree(C) /\ Len(B) <= Len(C) /\ Len(B) \in Nat /\ Len(C) \in Nat
  <2>1. Tree(B) /\ Tree(C)
    BY DEF Changed
  <2> QED BY <2>1, LenProperties DEF Changed, Tree
<1>2. K \in Nat \ {0} /\ K \in 1..K /\ Last(c) = c[K]
  BY <1>1, PathFacts
<1>3. g[c[K]] \in Seq(Lexeme) /\ h[c[K]] \in Seq(Lexeme)
  <2>1. g \in [1..Len(B) -> Seq(Lexeme)] /\ h \in [1..Len(C) -> Seq(Lexeme)]
    BY <1>1, PrintedIs
  <2>2. c[K] \in 1..Len(B)
    BY <1>1, <1>2, PathFacts
  <2>3. c[K] \in 1..Len(C)
    BY <1>1, <2>2
  <2> QED BY <2>1, <2>2, <2>3
<1> HIDE DEF g, h, K, Upto
<1>4. 0 \in N
  <2>1. K - 0 = K
    BY <1>2
  <2>2. Closing(0) = <<>> /\ <<>> \in Seq(Lexeme)
    BY ClosingIs, MarksType
  <2>3. <<>> \o (g[c[K]] \o <<>>) = g[c[K]] /\ <<>> \o (h[c[K]] \o <<>>) = h[c[K]]
    BY <1>3, ConcatEmptySeq
  <2>4. Upto(0)
    BY <2>1, <2>2, <2>3 DEF Upto
  <2> QED BY <2>4
<1>5. ASSUME NEW m \in Nat, m \in N PROVE m + 1 \in N
  <2> SUFFICES ASSUME m + 1 <= K - 1 PROVE Upto(m + 1)
    OBVIOUS
  <2>0. PICK i : i = K - (m + 1)
    OBVIOUS
  <2>1. m <= K - 1 /\ i \in 1..(K - 1) /\ i + 1 = K - m
    BY <1>2, <2>0
  <2>2. PICK A \in Seq(Lexeme) : /\ g[c[K - m]] = A \o (g[c[K]] \o Closing(m))
                                 /\ h[c[K - m]] = A \o (h[c[K]] \o Closing(m))
    BY <1>5, <2>1 DEF Upto
  <2>3. PICK E \in Seq(Lexeme) :
            g[c[i]] = E \o (g[c[i + 1]] \o Shut) /\ h[c[i]] = E \o (h[c[i + 1]] \o Shut)
    <3>1. i \in 1..(Len(c) - 1)
      BY <2>1 DEF K
    <3>2. \E E \in Seq(Lexeme) :
             /\ Printed(B)[c[i]] = E \o (Printed(B)[c[i + 1]] \o Shut)
             /\ Printed(C)[c[i]] = E \o (Printed(C)[c[i + 1]] \o Shut)
             /\ Printed(B)[c[i + 1]] \in Seq(Lexeme) /\ Printed(C)[c[i + 1]] \in Seq(Lexeme)
      BY <3>1, AroundSame
    <3> QED BY <3>2 DEF g, h
  <2>4. Closing(m) \in Seq(Lexeme) /\ Closing(m) \o Shut = Closing(m + 1) /\ Shut \in Seq(Lexeme)
    BY ClosingIs, MarksType
  <2>5. ASSUME NEW y \in Seq(Lexeme)
        PROVE  E \o ((A \o (y \o Closing(m))) \o Shut) = (E \o A) \o (y \o Closing(m + 1))
    <3>1. PICK x : x = Closing(m)
      OBVIOUS
    <3>2. x \in Strip /\ y \in Strip /\ A \in Strip /\ E \in Strip /\ Shut \in Strip
      BY <2>4, <3>1 DEF Strip
    <3>3. Then(E, Then(Then(A, Then(y, x)), Shut)) = Then(Then(E, A), Then(y, Then(x, Shut)))
      BY <3>2, Joining
    <3> QED BY <2>4, <3>1, <3>3 DEF Then
  <2>6. E \o A \in Seq(Lexeme)
    BY ConcatProperties
  <2>7. /\ g[c[i]] = (E \o A) \o (g[c[K]] \o Closing(m + 1))
        /\ h[c[i]] = (E \o A) \o (h[c[K]] \o Closing(m + 1))
    BY <1>3, <2>1, <2>2, <2>3, <2>5
  <2> QED BY <2>0, <2>6, <2>7 DEF Upto
<1> HIDE DEF N
<1>6. K - 1 \in N
  <2>1. Nat \subseteq N
    BY <1>4, <1>5, Induction
  <2> QED BY <1>2, <2>1
<1>7. K - (K - 1) = 1
  BY <1>2
<1>8. Upto(K - 1)
  <2>1. K - 1 <= K - 1
    BY <1>2
  <2> QED BY <1>6, <2>1 DEF N
<1> QED BY <1>2, <1>7, <1>8 DEF g, h, K, Upto, Around

\* What is printed of the statements of a block that lead nowhere on the path.
LEMMA OthersSame ==
    ASSUME NEW B, NEW C, NEW c, Changed(B, C, c), NEW b \in 1..Len(B), NEW F, NEW m \in Nat,
           F \in Seq(Statement), Len(F) = m, m <= Len(B[b]), \A k \in 1..m : F[k] = B[b][k],
           m < Len(B[b]) \/ b = Last(c)
    PROVE  /\ PrintsIn(Printed(B), F) = PrintsIn(Printed(C), F)
           /\ F \in Seq(StatementsWith(1..Len(B)))
           /\ PrintsIn(Printed(B), F) \in Seq(Lexeme)
<1> DEFINE n == Len(B)
           g == Printed(B)
           h == Printed(C)
           D == 1..n
<1>1. Tree(B) /\ Path(B, c) /\ n \in Nat
  BY LenProperties DEF Changed, Tree
<1>2. /\ Len(B[b]) \in Nat /\ B[b] \in Seq(StatementsWith(D))
      /\ \A i \in 1..Len(B[b]) : B[b][i].child # 0 => B[b][i].child \in (b + 1)..n
  BY <1>1, TreeStatements
<1>3. \A k \in 1..m : k \in 1..Len(B[b])
  BY <1>2
<1>4. ASSUME NEW k \in 1..m, F[k].child # 0 PROVE g[F[k].child] = h[F[k].child]
  <2>1. F[k] = B[b][k] /\ k \in 1..Len(B[b])
    BY <1>3
  <2>2. B[b][k].child \in 1..n
    <3>1. B[b][k].child \in (b + 1)..n
      BY <1>2, <1>4, <2>1
    <3> HIDE DEF n
    <3> QED BY <3>1, <1>1
  <2>3. OffPath(c, B[b][k].child)
    <3> SUFFICES ASSUME NEW j \in 1..Len(c), B[b][k].child = c[j] PROVE FALSE
      BY DEF OffPath
    <3>1. j > 1 /\ b = c[j - 1] /\ k = Len(B[b])
      BY <1>1, <2>1 DEF Path
    <3>2. b = Last(c)
      BY <3>1
    <3>3. j - 1 \in 1..(Len(c) - 1)
      BY <1>1, <3>1, PathFacts
    <3>4. c[j - 1] # Last(c)
      BY <1>1, <3>3 DEF Path
    <3> QED BY <3>1, <3>2, <3>4
  <2> HIDE DEF g, h, n
  <2> QED BY <2>1, <2>2, <2>3, OffPathSame DEF g, h, n
<1>5. DOMAIN F = 1..m
  BY LenProperties
<1>6. PrintsIn(g, F) = PrintsIn(h, F)
  <2>1. \A k \in DOMAIN F : F[k].child # 0 => g[F[k].child] = h[F[k].child]
    BY <1>4, <1>5
  <2> HIDE DEF g, h
  <2> QED BY <1>5, <2>1, PrintsLocal, Zenon
<1>7. F \in Seq(StatementsWith(D))
  <2>1. \A k \in 1..m : B[b][k] \in StatementsWith(D)
    <3> HIDE DEF D
    <3> QED BY <1>2, <1>3, ElementOfSeq
  <2>2. \A k \in 1..Len(F) : F[k] \in StatementsWith(D)
    BY <2>1
  <2> HIDE DEF D
  <2> QED BY <2>2, SeqOver
<1>8. PrintsIn(g, F) \in Seq(Lexeme)
  <2>1. g \in [D -> Seq(Lexeme)]
    BY <1>1, PrintedIs
  <2> HIDE DEF g, D
  <2> QED BY <1>7, <2>1, PrintsInType
<1> QED BY <1>6, <1>7, <1>8

\* F is what block b begins with, without what leads on along the path c.
FrontOfBlock(B, c, b, F, m) ==
    /\ b \in 1..Len(B) /\ m \in Nat
    /\ F \in Seq(Statement) /\ Len(F) = m /\ m <= Len(B[b])
    /\ \A k \in 1..m : F[k] = B[b][k]
    /\ (m < Len(B[b])) \/ (b = Last(c))

PrintsTheSame(B, C, F) ==
    /\ PrintsIn(Printed(B), F) = PrintsIn(Printed(C), F)
    /\ PrintsIn(Printed(B), F) \in Seq(Lexeme)

LEMMA FrontsSame ==
    ASSUME NEW B, NEW C, NEW c, Changed(B, C, c), NEW b, NEW F, NEW m,
           FrontOfBlock(B, c, b, F, m)
    PROVE  PrintsTheSame(B, C, F)
<1>1. /\ b \in 1..Len(B) /\ m \in Nat
      /\ F \in Seq(Statement) /\ Len(F) = m /\ m <= Len(B[b])
      /\ \A k \in 1..m : F[k] = B[b][k]
      /\ (m < Len(B[b])) \/ (b = Last(c))
  BY DEF FrontOfBlock
<1>2. /\ PrintsIn(Printed(B), F) = PrintsIn(Printed(C), F)
      /\ PrintsIn(Printed(B), F) \in Seq(Lexeme)
  BY <1>1, OthersSame
<1> QED BY <1>2 DEF PrintsTheSame

\* X, printed before the blocks of the path are closed, is Y and what is printed of
\* the last of p; with the last of q it becomes Y and what is printed of that.
TopPrintsAs(B, C, c, X, p, q, m) ==
    \E Y \in Seq(Lexeme) :
        /\ Printed(C)[1] = (Y \o Body(Printed(C), q[m + 1])) \o Closing(Len(c) - 1)
        /\ Body(Printed(C), q[m + 1]) \in Seq(Lexeme)
        /\ Len(p) = m => X = Y
        /\ Len(p) = m + 1 => X = Y \o Body(Printed(B), p[m + 1])

\* The last block of the path has one more statement or another last one.
LEMMA TopPrints ==
    ASSUME NEW B, NEW C, NEW c, Changed(B, C, c), c[1] = 1, NEW X \in Seq(Lexeme),
           Printed(B)[1] = X \o Closing(Len(c) - 1),
           NEW p, NEW q, p = B[Last(c)], q = C[Last(c)],
           NEW m \in Nat, Len(q) = m + 1, m <= Len(p), \A k \in 1..m : q[k] = p[k]
    PROVE  TopPrintsAs(B, C, c, X, p, q, m)
<1> DEFINE b == Last(c)
           g == Printed(B)
           h == Printed(C)
           F == SubSeq(q, 1, m)
           e == q[m + 1]
           K == Len(c)
<1>1. /\ Tree(B) /\ Tree(C) /\ Path(B, c) /\ Len(B) \in Nat /\ Len(C) \in Nat /\ Len(B) <= Len(C)
      /\ b \in 1..Len(B) /\ b \in 1..Len(C)
  <2>1. Tree(B) /\ Tree(C) /\ Path(B, c) /\ Len(B) <= Len(C)
    BY DEF Changed
  <2>2. Len(B) \in Nat /\ Len(C) \in Nat
    BY <2>1, LenProperties DEF Tree
  <2>3. b \in 1..Len(B)
    <3>1. Len(c) \in 1..Len(c) /\ Last(c) = c[Len(c)] /\ \A i \in 1..Len(c) : c[i] \in 1..Len(B)
      BY <2>1, PathFacts
    <3> QED BY <3>1
  <2> HIDE DEF b
  <2> QED BY <2>1, <2>2, <2>3
<1>2. PICK A \in Seq(Lexeme) : g[1] = A \o (g[b] \o Closing(K - 1)) /\ h[1] = A \o (h[b] \o Closing(K - 1))
  <2>1. \E A \in Seq(Lexeme) :
            /\ Printed(B)[c[1]] = A \o (Printed(B)[Last(c)] \o Closing(Len(c) - 1))
            /\ Printed(C)[c[1]] = A \o (Printed(C)[Last(c)] \o Closing(Len(c) - 1))
    <3>1. Around(B, C, c)
      BY SpineSame
    <3> QED BY <3>1 DEF Around
  <2> QED BY <2>1
<1>3. g[b] \in Seq(Lexeme) /\ h[b] \in Seq(Lexeme) /\ Closing(K - 1) \in Seq(Lexeme)
  <2>1. g \in [1..Len(B) -> Seq(Lexeme)] /\ h \in [1..Len(C) -> Seq(Lexeme)]
    BY <1>1, PrintedIs
  <2>2. K - 1 \in Nat
    BY <1>1, PathFacts
  <2>3. Closing(K - 1) \in Seq(Lexeme)
    <3> HIDE DEF K
    <3> QED BY <2>2, ClosingIs
  <2> HIDE DEF b, g, h
  <2> QED BY <1>1, <2>1, <2>3
<1>4. q # <<>>
  <2>1. Len(<<>>) = 0 /\ m + 1 # 0
    OBVIOUS
  <2> QED BY <2>1
<1>5. /\ Len(F) = m /\ (\A k \in 1..m : F[k] = q[k]) /\ F \in Seq(Statement)
      /\ e \in StatementsWith(1..Len(C))
      /\ h[b] = PrintsIn(h, F) \o Body(h, e)
  <2>1. Len(q) - 1 = m
    OBVIOUS
  <2>2. C[b] # <<>> /\ Len(C[b]) - 1 = m /\ C[b] = q
    BY <1>4, <2>1
  <2> HIDE DEF b, h
  <2>3. /\ Len(SubSeq(C[b], 1, Len(C[b]) - 1)) = Len(C[b]) - 1
        /\ \A k \in 1..(Len(C[b]) - 1) : SubSeq(C[b], 1, Len(C[b]) - 1)[k] = C[b][k]
        /\ SubSeq(C[b], 1, Len(C[b]) - 1) \in Seq(StatementsWith(1..Len(C)))
        /\ C[b][Len(C[b]) - 1 + 1] \in StatementsWith(1..Len(C))
        /\ Printed(C)[b] = PrintsIn(Printed(C), SubSeq(C[b], 1, Len(C[b]) - 1))
                             \o Body(Printed(C), C[b][Len(C[b]) - 1 + 1])
    <3>1. EndsWith(C, b)
      BY <1>1, <2>2, PrintedLast
    <3> QED BY <3>1, Zenon DEF EndsWith
  <2>4. F \in Seq(StatementsWith(1..Len(C))) /\ StatementsWith(1..Len(C)) \subseteq Statement
    BY <2>2, <2>3 DEF StatementsWith
  <2>5. F \in Seq(Statement)
    <3> HIDE DEF F
    <3> QED BY <2>4, SeqMonotonic
  <2> QED BY <2>2, <2>3, <2>5 DEF h
<1>6. PrintsIn(g, F) = PrintsIn(h, F) /\ PrintsIn(g, F) \in Seq(Lexeme)
  <2>1. \A k \in 1..m : F[k] = B[b][k]
    BY <1>5
  <2>2. m <= Len(B[b]) /\ b \in 1..Len(B) /\ b = Last(c)
    BY <1>1
  <2> HIDE DEF F, b, g, h
  <2>3. /\ PrintsIn(Printed(B), F) = PrintsIn(Printed(C), F)
        /\ PrintsIn(Printed(B), F) \in Seq(Lexeme)
    <3>1. FrontOfBlock(B, c, b, F, m)
      BY <1>5, <2>1, <2>2 DEF FrontOfBlock
    <3>2. PrintsTheSame(B, C, F)
      BY <3>1, FrontsSame
    <3> QED BY <3>2 DEF PrintsTheSame
  <2> QED BY <2>3 DEF g, h
<1>7. Body(h, e) \in Seq(Lexeme)
  <2>1. h \in [1..Len(C) -> Seq(Lexeme)]
    BY <1>1, PrintedIs
  <2> HIDE DEF h, e
  <2> QED BY <1>5, <2>1, BodyType
<1> DEFINE Z == PrintsIn(g, F)
           Y == A \o Z
<1>8. Y \in Seq(Lexeme) /\ Z \in Seq(Lexeme)
  <2> HIDE DEF g, F
  <2> QED BY <1>6, ConcatProperties
<1>9. h[1] = (Y \o Body(h, e)) \o Closing(K - 1)
  <2>1. h[1] = A \o ((Z \o Body(h, e)) \o Closing(K - 1))
    BY <1>2, <1>5, <1>6
  <2>2. PICK k, t : k = Closing(K - 1) /\ t = Body(h, e)
    OBVIOUS
  <2>3. k \in Strip /\ t \in Strip /\ A \in Strip /\ Z \in Strip
    BY <1>3, <1>7, <1>8, <2>2 DEF Strip
  <2> HIDE DEF Z, h, e, K
  <2>4. Then(A, Then(Then(Z, t), k)) = Then(Then(Then(A, Z), t), k)
    BY <2>3, Joining
  <2> QED BY <2>1, <2>2, <2>4 DEF Then
<1>10. X = A \o g[b]
  <2>1. PICK k, t : k = Closing(K - 1) /\ t = g[b]
    OBVIOUS
  <2>2. k \in Strip /\ t \in Strip /\ A \in Strip /\ X \in Strip
    BY <1>3, <2>1 DEF Strip
  <2>3. Then(X, k) = Then(A, Then(t, k))
    BY <1>2, <2>1 DEF Then
  <2> HIDE DEF g, b, K
  <2>4. Then(X, k) = Then(Then(A, t), k) /\ Then(A, t) \in Strip
    BY <2>2, <2>3, Joining
  <2>5. X = Then(A, t)
    BY <2>2, <2>4, Joining
  <2> QED BY <2>1, <2>5 DEF Then
<1>11. p \in Seq(Statement) /\ Len(p) \in Nat
  <2>1. p \in Seq(Statement)
    BY <1>1, ElementOfSeq DEF Tree
  <2> QED BY <2>1, LenProperties
<1>12. ASSUME Len(p) = m PROVE X = Y
  <2>1. p = F
    <3> HIDE DEF F
    <3>1. Len(F) = Len(p) /\ (\A k \in 1..Len(p) : p[k] = F[k]) /\ p \in Seq(Statement) /\ F \in Seq(Statement)
      BY <1>5, <1>11, <1>12
    <3> QED BY <3>1, SeqEqual
  <2>2. g[b] = PrintsIn(g, p)
    <3>1. g = [d \in 1..Len(B) |-> PrintsIn(g, B[d])]
      BY <1>1, PrintedIs
    <3> HIDE DEF g, b
    <3> QED BY <1>1, <3>1, Zenon DEF b
  <2> QED BY <1>10, <2>1, <2>2
<1>13. ASSUME Len(p) = m + 1 PROVE X = Y \o Body(g, p[m + 1])
  <2>1. Len(p) - 1 = m /\ p # <<>>
    <3>1. Len(<<>>) = 0 /\ m + 1 # 0
      OBVIOUS
    <3> QED BY <1>13, <3>1
  <2>2. /\ SubSeq(p, 1, m) \in Seq(StatementsWith(1..Len(B))) /\ Len(SubSeq(p, 1, m)) = m
        /\ \A k \in 1..m : SubSeq(p, 1, m)[k] = p[k]
        /\ p[m + 1] \in StatementsWith(1..Len(B))
        /\ g[b] = PrintsIn(g, SubSeq(p, 1, m)) \o Body(g, p[m + 1])
    <3> HIDE DEF b
    <3>1. B[b] # <<>> /\ Len(B[b]) - 1 = m /\ p = B[b]
      BY <2>1 DEF b
    <3>2. /\ Len(SubSeq(B[b], 1, Len(B[b]) - 1)) = Len(B[b]) - 1
          /\ \A k \in 1..(Len(B[b]) - 1) : SubSeq(B[b], 1, Len(B[b]) - 1)[k] = B[b][k]
          /\ SubSeq(B[b], 1, Len(B[b]) - 1) \in Seq(StatementsWith(1..Len(B)))
          /\ B[b][Len(B[b]) - 1 + 1] \in StatementsWith(1..Len(B))
          /\ Printed(B)[b] = PrintsIn(Printed(B), SubSeq(B[b], 1, Len(B[b]) - 1))
                               \o Body(Printed(B), B[b][Len(B[b]) - 1 + 1])
      <4>1. EndsWith(B, b)
        BY <1>1, <3>1, PrintedLast
      <4> QED BY <4>1, Zenon DEF EndsWith
    <3> QED BY <3>1, <3>2
  <2>3. SubSeq(p, 1, m) = F
    <3>1. PICK G : G = SubSeq(p, 1, m)
      OBVIOUS
    <3>2. G \in Seq(Statement)
      <4>1. StatementsWith(1..Len(B)) \subseteq Statement
        BY DEF StatementsWith
      <4> QED BY <2>2, <3>1, <4>1, SeqMonotonic
    <3>3. Len(G) = m /\ \A k \in 1..m : G[k] = F[k]
      BY <1>5, <2>2, <3>1
    <3> HIDE DEF F
    <3> QED BY <1>5, <3>1, <3>2, <3>3, SeqEqual
  <2>4. X = A \o (Z \o Body(g, p[m + 1]))
    BY <1>10, <2>2, <2>3
  <2>5. Body(g, p[m + 1]) \in Seq(Lexeme)
    <3>1. g \in [1..Len(B) -> Seq(Lexeme)]
      BY <1>1, PrintedIs
    <3> HIDE DEF g
    <3> QED BY <2>2, <3>1, BodyType
  <2>6. PICK t : t = Body(g, p[m + 1])
    OBVIOUS
  <2>7. t \in Seq(Lexeme)
    BY <2>5, <2>6
  <2> HIDE DEF Z, g
  <2>8. Then(A, Then(Z, t)) = Then(Then(A, Z), t)
    <3>1. A \in Strip /\ Z \in Strip /\ t \in Strip
      BY <1>8, <2>7 DEF Strip
    <3> QED BY <3>1, Joining
  <2> QED BY <2>4, <2>6, <2>8 DEF Then
<1> HIDE DEF Y
<1> QED BY <1>7, <1>8, <1>9, <1>12, <1>13 DEF TopPrintsAs

\* The statements of block c are those of B up to m, then e; the other blocks are
\* the same.
TopBecomes(B, C, c, m, e) ==
    /\ c \in 1..Len(B) /\ Len(B) <= Len(C)
    /\ m \in Nat /\ m <= Len(B[c]) /\ Len(C[c]) = m + 1
    /\ \A k \in 1..m : C[c][k] = B[c][k]
    /\ C[c][m + 1] = e
    /\ \A b \in 1..Len(B) : b # c => C[b] = B[b]

\* A word goes to the last statement of block c, or begins one, or a block is opened.
Continues(B, C, c, tok) ==
    \E m \in Nat, s \in Statement :
        /\ Len(B[c]) = m + 1 /\ B[c][m + 1] = s /\ s.child = 0
        /\ Len(C) = Len(B)
        /\ TopBecomes(B, C, c, m, [tokens |-> Append(s.tokens, tok), child |-> 0])

Starts(B, C, c, tok) ==
    /\ Len(C) = Len(B)
    /\ TopBecomes(B, C, c, Len(B[c]), [tokens |-> <<tok>>, child |-> 0])

Opens(B, C, c) ==
    \E m \in Nat, s \in Statement :
        /\ Len(B[c]) = m + 1 /\ B[c][m + 1] = s /\ s.child = 0
        /\ Len(C) = Len(B) + 1 /\ C[Len(B) + 1] = <<>>
        /\ TopBecomes(B, C, c, m, [tokens |-> s.tokens, child |-> Len(B) + 1])

\* The innermost block and its last statement.
LEMMA TopFacts ==
    ASSUME TInv, outcome = "parsing", config_stack # <<>>
    PROVE  /\ Last(config_stack) \in 1..Len(blocks) /\ Len(blocks) \in Nat
           /\ blocks[Last(config_stack)] \in Seq(Statement) /\ Len(blocks[Last(config_stack)]) \in Nat
           /\ last_token_type = "NORMAL" =>
                 /\ blocks[Last(config_stack)] # <<>> /\ Len(blocks[Last(config_stack)]) # 0
                 /\ blocks[Last(config_stack)][Len(blocks[Last(config_stack)])] \in Statement
                 /\ blocks[Last(config_stack)][Len(blocks[Last(config_stack)])].child = 0
<1>1. /\ blocks \in Seq(Seq(Statement)) /\ Statement = StatementsOf(Seq(Lexeme)) /\ IInv
  BY DEF TInv, TypeOK, Statement, StatementsOf
<1>2. Last(config_stack) \in 1..Len(blocks) /\ Len(blocks) \in Nat
  <2>1. Last(config_stack) = config_stack[Len(config_stack)]
    BY DEF Last
  <2> QED BY <1>1, <2>1, StackFacts
<1> DEFINE p == blocks[Last(config_stack)]
<1>3. p \in Seq(Statement) /\ (last_token_type = "NORMAL" => p # <<>> /\ Last(p) \in Statement)
  BY <1>1, StatementFacts
<1>4. last_token_type = "NORMAL" => Last(p).child = 0
  BY <1>1 DEF IInv, OpenBlocksAreNested, Statements, Top
<1> HIDE DEF p
<1>5. Len(p) \in Nat /\ (p # <<>> => Len(p) # 0)
  BY <1>3, EmptySeq, LenProperties
<1> QED BY <1>2, <1>3, <1>4, <1>5 DEF Last, p

LEMMA OneChanges ==
    ASSUME NEW B, NEW T, B \in Seq(Seq(T)), NEW c \in 1..Len(B), NEW new, NEW C, C = [B EXCEPT ![c] = new]
    PROVE  /\ Len(C) = Len(B) /\ C[c] = new /\ (\A b \in 1..Len(B) : b # c => C[b] = B[b])
           /\ C \in Seq(Seq(T) \cup {new, <<>>})
<1> DEFINE U == Seq(T) \cup {new, <<>>}
<1>1. B \in Seq(U) /\ new \in U
  <2>1. Seq(T) \subseteq U /\ new \in U
    OBVIOUS
  <2> HIDE DEF U
  <2> QED BY <2>1, SeqMonotonic
<1> HIDE DEF U
<1>2. /\ C \in Seq(U) /\ Len(C) = Len(B)
      /\ \A b \in 1..Len(B) : C[b] = IF b = c THEN new ELSE B[b]
  BY <1>1, ExceptSeq
<1> QED BY <1>2 DEF U

LEMMA WordContinues ==
    ASSUME TInv, outcome = "parsing", config_stack # <<>>, NEW tok \in Lexeme, AddToken(tok),
           last_token_type = "NORMAL"
    PROVE  Continues(blocks, blocks', Last(config_stack), tok)
<1> DEFINE c   == Last(config_stack)
           old == blocks[c]
           s   == old[Len(old)]
           e   == [s EXCEPT !.tokens = Append(@, tok)]
           new == [old EXCEPT ![Len(old)] = e]
           m   == Len(old) - 1
<1>1. /\ c \in 1..Len(blocks) /\ Len(blocks) \in Nat /\ old \in Seq(Statement)
      /\ old # <<>> /\ Len(old) \in Nat \ {0} /\ s \in Statement /\ s.child = 0
  BY TopFacts
<1>2. blocks' = [blocks EXCEPT ![c] = new]
  BY DEF AddToken, Top, Statements, Last
<1>3. e = [tokens |-> Append(s.tokens, tok), child |-> 0]
  <2>1. PICK a : a = Append(s.tokens, tok)
    OBVIOUS
  <2>2. e = [s EXCEPT !.tokens = a]
    BY <2>1
  <2> HIDE DEF s, e
  <2>3. PICK Q : Q = Seq(Lexeme)
    OBVIOUS
  <2>4. s \in [tokens : Q, child : Nat] /\ s.child = 0
    BY <1>1, <2>3 DEF Statement
  <2>5. e = [tokens |-> a, child |-> 0]
    BY <2>2, <2>4
  <2> QED BY <2>1, <2>5
<1>4. Len(blocks') = Len(blocks) /\ blocks'[c] = new /\ \A b \in 1..Len(blocks) : b # c => blocks'[b] = blocks[b]
  <2>1. blocks \in Seq(Seq(Statement))
    BY DEF TInv, TypeOK
  <2> HIDE DEF c, new
  <2> QED BY <1>1, <1>2, <2>1, OneChanges
<1> HIDE DEF c, old, e
<1>5. Len(new) = Len(old) /\ new[Len(old)] = e /\ \A i \in 1..(Len(old) - 1) : new[i] = old[i]
  BY <1>1, LastIs
<1>6. m \in Nat /\ Len(old) = m + 1 /\ m <= Len(old) /\ Len(blocks) <= Len(blocks')
  BY <1>1, <1>4
<1> HIDE DEF new, m
<1>7. TopBecomes(blocks, blocks', c, m, e)
  BY <1>1, <1>4, <1>5, <1>6 DEF TopBecomes, old, m
<1>8. Len(blocks[c]) = m + 1 /\ blocks[c][m + 1] = s
  BY <1>6 DEF old
<1> HIDE DEF s
<1> QED BY <1>1, <1>3, <1>4, <1>6, <1>7, <1>8, Zenon DEF Continues, c

LEMMA WordStarts ==
    ASSUME TInv, outcome = "parsing", config_stack # <<>>, NEW tok \in Lexeme, AddToken(tok),
           last_token_type # "NORMAL"
    PROVE  Starts(blocks, blocks', Last(config_stack), tok)
<1> DEFINE c   == Last(config_stack)
           old == blocks[c]
           f   == [tokens |-> <<tok>>, child |-> 0]
           new == Append(old, f)
<1>1. /\ c \in 1..Len(blocks) /\ Len(blocks) \in Nat /\ old \in Seq(Statement) /\ Len(old) \in Nat
  BY TopFacts
<1>2. blocks' = [blocks EXCEPT ![c] = new]
  BY DEF AddToken, Top
<1>4. Len(blocks') = Len(blocks) /\ blocks'[c] = new /\ \A b \in 1..Len(blocks) : b # c => blocks'[b] = blocks[b]
  <2>1. blocks \in Seq(Seq(Statement))
    BY DEF TInv, TypeOK
  <2> HIDE DEF c, new
  <2> QED BY <1>1, <1>2, <2>1, OneChanges
<1> HIDE DEF c, old, f
<1>5. Len(new) = Len(old) + 1 /\ new[Len(old) + 1] = f /\ \A i \in 1..Len(old) : new[i] = old[i]
  BY <1>1, LastIs
<1>6. Len(old) <= Len(old) /\ Len(blocks) <= Len(blocks')
  BY <1>1, <1>4
<1> HIDE DEF new
<1>7. TopBecomes(blocks, blocks', c, Len(old), f)
  BY <1>1, <1>4, <1>5, <1>6 DEF TopBecomes, old
<1> QED BY <1>4, <1>7 DEF Starts, f, old, c

LEMMA BlockOpens ==
    ASSUME TInv, outcome = "parsing", config_stack # <<>>, OpenBlock, last_token_type = "NORMAL"
    PROVE  Opens(blocks, blocks', Last(config_stack))
<1> DEFINE c   == Last(config_stack)
           old == blocks[c]
           n   == Len(blocks)
           s   == old[Len(old)]
           e   == [s EXCEPT !.child = n + 1]
           new == [old EXCEPT ![Len(old)] = e]
           mid == [blocks EXCEPT ![c] = new]
           m   == Len(old) - 1
<1>1. /\ c \in 1..n /\ n \in Nat /\ old \in Seq(Statement)
      /\ old # <<>> /\ Len(old) \in Nat \ {0} /\ s \in Statement /\ s.child = 0
  BY TopFacts
<1>2. blocks' = Append(mid, <<>>)
  BY DEF OpenBlock, Top, Statements, Last
<1>3. e = [tokens |-> s.tokens, child |-> n + 1]
  <2> HIDE DEF s, n
  <2> QED BY <1>1 DEF Statement
<1> DEFINE U == Seq(Statement) \cup {new, <<>>}
<1>4. /\ Len(mid) = n /\ mid[c] = new /\ (\A b \in 1..n : b # c => mid[b] = blocks[b])
      /\ mid \in Seq(U)
  <2>1. blocks \in Seq(Seq(Statement))
    BY DEF TInv, TypeOK
  <2>2. PICK C : C = mid
    OBVIOUS
  <2> HIDE DEF c, new
  <2> QED BY <1>1, <2>1, <2>2, OneChanges
<1>5. <<>> \in U
  OBVIOUS
<1> HIDE DEF c, old, e, mid, U
<1>6. Len(new) = Len(old) /\ new[Len(old)] = e /\ \A i \in 1..(Len(old) - 1) : new[i] = old[i]
  BY <1>1, LastIs
<1>7. m \in Nat /\ Len(old) = m + 1 /\ m <= Len(old)
  BY <1>1
<1> HIDE DEF new, m, n
<1>8. Len(blocks') = n + 1 /\ blocks'[n + 1] = <<>> /\ \A b \in 1..n : blocks'[b] = mid[b]
  BY <1>2, <1>4, <1>5, AppendProperties
<1>9. blocks'[c] = new /\ n <= Len(blocks') /\ \A b \in 1..n : b # c => blocks'[b] = blocks[b]
  BY <1>1, <1>4, <1>8
<1>10. TopBecomes(blocks, blocks', c, m, e)
  BY <1>1, <1>6, <1>7, <1>9 DEF TopBecomes, old, m, n
<1>11. Len(blocks[c]) = m + 1 /\ blocks[c][m + 1] = s
  BY <1>7 DEF old
<1> HIDE DEF s
<1> QED BY <1>1, <1>3, <1>7, <1>8, <1>10, <1>11, Zenon DEF Opens, c, n

-----------------------------------------------------------------------------
(* Nothing but the last statement of a block leads to the block above it   *)

OnThePath ==
    \A b \in 1..Len(blocks) : \A i \in 1..Len(blocks[b]) : \A j \in 1..Len(config_stack) :
        blocks[b][i].child = config_stack[j] =>
            j > 1 /\ b = config_stack[j - 1] /\ i = Len(blocks[b])

LEMMA StackIsPath ==
    ASSUME TInv, OnThePath, outcome = "parsing", config_stack # <<>>
    PROVE  Tree(blocks) /\ Path(blocks, config_stack)
<1>1. Tree(blocks)
  BY DEF Tree, TInv, TypeOK, ChildrenAreYounger
<1>2. config_stack \in Seq(1..Len(blocks))
  BY DEF TInv, TypeOK
<1>3. \A i \in 1..(Len(config_stack) - 1) :
         /\ blocks[config_stack[i]] # <<>> /\ Last(blocks[config_stack[i]]).child = config_stack[i + 1]
         /\ config_stack[i] # Last(config_stack)
  BY StackFacts DEF TInv, IInv, OpenBlocksAreNested
<1> QED BY <1>1, <1>2, <1>3 DEF Path, OnThePath

\* The path grows or stays when its last block changes at the end.
LEMMA PathStays ==
    ASSUME TInv, OnThePath, outcome = "parsing", config_stack # <<>>,
           NEW B, NEW C, B = blocks, C = blocks',
           NEW m, NEW e, TopBecomes(B, C, Last(config_stack), m, e),
           \/ Len(C) = Len(B) /\ e.child = 0 /\ config_stack' = config_stack
           \/ /\ Len(C) = Len(B) + 1 /\ C[Len(B) + 1] = <<>> /\ e.child = Len(B) + 1
              /\ config_stack' = Append(config_stack, Len(B) + 1)
    PROVE  OnThePath'
<1> DEFINE c == config_stack
           d == config_stack'
           n == Len(B)
           K == Len(c)
           t == Last(c)
<1>1. /\ Tree(B) /\ Path(B, c) /\ n \in Nat /\ K \in Nat \ {0} /\ K \in 1..K /\ t = c[K] /\ t \in 1..n
      /\ \A j \in 1..K : c[j] \in 1..n
  <2>1. Tree(B) /\ Path(B, c)
    BY StackIsPath
  <2>2. n \in Nat
    BY <2>1, LenProperties DEF Tree
  <2>3. K \in Nat \ {0} /\ K \in 1..K /\ t = c[K] /\ \A j \in 1..K : c[j] \in 1..n
    BY <2>1, PathFacts
  <2> QED BY <2>1, <2>2, <2>3
<1>2. ASSUME NEW b \in 1..n, NEW i \in 1..Len(B[b]), NEW j \in 1..K, B[b][i].child = c[j]
      PROVE  j > 1 /\ b = c[j - 1] /\ i = Len(B[b]) /\ b # t
  <2>1. j > 1 /\ b = c[j - 1] /\ i = Len(B[b])
    BY <1>1, <1>2 DEF Path
  <2>2. j - 1 \in 1..(Len(c) - 1)
    BY <1>1, <2>1
  <2>3. c[j - 1] # t
    BY <1>1, <2>2 DEF Path
  <2> QED BY <2>1, <2>3
<1>3. ASSUME NEW b \in 1..n, NEW i \in 1..Len(B[b]) PROVE B[b][i].child = 0 \/ B[b][i].child \in 1..n
  <2>1. B[b][i].child = 0 \/ B[b][i].child \in (b + 1)..n
    BY <1>1 DEF Tree, Follows
  <2> HIDE DEF n
  <2> QED BY <1>1, <2>1
<1> HIDE DEF n, t
<1>4. /\ Len(C) \in {n, n + 1} /\ (Len(C) = n + 1 => Len(C[n + 1]) = 0)
      /\ m \in Nat /\ m <= Len(B[t]) /\ Len(C[t]) = m + 1
      /\ (\A k \in 1..m : C[t][k] = B[t][k])
      /\ C[t][m + 1] = e
      /\ \A b \in 1..n : b # t => C[b] = B[b]
  BY EmptySeq DEF TopBecomes, n, t
<1>5. Len(B[t]) \in Nat
  BY <1>1, TreeStatements DEF n
<1>6. d = c \/ (Len(d) = K + 1 /\ d[K + 1] = n + 1 /\ (\A j \in 1..K : d[j] = c[j]) /\ e.child = n + 1)
  <2>1. c \in Seq(Nat)
    <3>1. c \in Seq(1..n) /\ 1..n \subseteq Nat
      BY <1>1 DEF Path, n
    <3> HIDE DEF c
    <3> QED BY <3>1, SeqMonotonic
  <2>2. n + 1 \in Nat
    BY <1>1
  <2> HIDE DEF c, d, K
  <2>3. d = Append(c, n + 1) => Len(d) = K + 1 /\ d[K + 1] = n + 1 /\ \A j \in 1..K : d[j] = c[j]
    BY <2>1, <2>2, AppendProperties DEF K
  <2> QED BY <2>3 DEF c, d, n
<1>7. e.child = 0 \/ e.child = n + 1
  BY DEF n
<1>8. d = c => e.child = 0
  <2> SUFFICES ASSUME d = c, e.child # 0 PROVE FALSE
    OBVIOUS
  <2>1. d = Append(c, n + 1)
    BY DEF n
  <2>2. Len(d) = K + 1 /\ Len(d) = K
    <3>1. c \in Seq(Nat)
      <4>1. c \in Seq(1..n) /\ 1..n \subseteq Nat
        BY <1>1 DEF Path, n
      <4> HIDE DEF c
      <4> QED BY <4>1, SeqMonotonic
    <3>2. n + 1 \in Nat
      BY <1>1
    <3> HIDE DEF c
    <3> QED BY <2>1, <3>1, <3>2, AppendProperties DEF c
  <2> HIDE DEF d, K
  <2> QED BY <1>1, <2>2
<1>9. ASSUME NEW b \in 1..Len(C), NEW i \in 1..Len(C[b]), NEW j \in 1..Len(d), C[b][i].child = d[j]
      PROVE  j > 1 /\ b = d[j - 1] /\ i = Len(C[b])
  <2>1. b \in 1..n
    <3> SUFFICES ASSUME b \notin 1..n PROVE FALSE
      OBVIOUS
    <3>1. b = n + 1 /\ Len(C) = n + 1
      BY <1>1, <1>4
    <3>2. Len(C[b]) = 0
      BY <1>4, <3>1
    <3> QED BY <3>2
  <2>2. \/ j \in 1..K /\ d[j] = c[j] /\ (j > 1 => j - 1 \in 1..K /\ d[j - 1] = c[j - 1])
        \/ j = K + 1 /\ d[j] = n + 1 /\ d # c /\ d[j - 1] = t /\ j > 1
    <3>1. CASE d = c
      <4>1. j \in 1..K
        BY <3>1
      <4>2. j > 1 => j - 1 \in 1..K
        BY <4>1, <1>1
      <4> QED BY <3>1, <4>1, <4>2
    <3>2. CASE d # c
      <4>1. Len(d) = K + 1 /\ d[K + 1] = n + 1 /\ \A x \in 1..K : d[x] = c[x]
        BY <1>6, <3>2
      <4> HIDE DEF d, c, K
      <4>2. j \in 1..K \/ j = K + 1
        BY <1>1, <4>1
      <4>3. j \in 1..K => (j > 1 => j - 1 \in 1..K)
        BY <1>1
      <4>4. j = K + 1 => j - 1 = K /\ j > 1
        BY <1>1
      <4> QED BY <1>1, <3>2, <4>1, <4>2, <4>3, <4>4
    <3> QED BY <3>1, <3>2
  <2> HIDE DEF d, c, K
  <2>3. CASE b # t
    <3>1. C[b] = B[b] /\ i \in 1..Len(B[b])
      BY <1>4, <2>1, <2>3
    <3>2. B[b][i].child = 0 \/ B[b][i].child \in 1..n
      BY <1>3, <2>1, <3>1
    <3>3. j \in 1..K /\ d[j] = c[j] /\ (j > 1 => d[j - 1] = c[j - 1])
      <4>1. d[j] # n + 1
        BY <1>1, <1>9, <3>1, <3>2, SMTT(30)
      <4> QED BY <2>2, <4>1
    <3> QED BY <1>2, <1>9, <2>1, <3>1, <3>3
  <2>4. CASE b = t
    <3>1. Len(C[b]) = m + 1 /\ i \in 1..(m + 1)
      BY <1>4, <2>4
    <3>2. CASE i = m + 1
      <4>1. C[b][i].child = e.child
        BY <1>4, <2>4, <3>2
      <4>2. d[j] # 0
        BY <1>1, <2>2
      <4>3. d[j] = n + 1
        BY <1>7, <1>9, <4>1, <4>2
      <4>4. ~(j \in 1..K /\ d[j] = c[j])
        BY <1>1, <4>3
      <4> QED BY <2>2, <2>4, <3>1, <3>2, <4>4
    <3>3. CASE i # m + 1
      <4>1. i \in 1..m /\ i \in 1..Len(B[b])
        BY <1>4, <1>5, <2>4, <3>1, <3>3
      <4>2. C[b][i] = B[b][i]
        BY <1>4, <2>4, <4>1
      <4>3. B[b][i].child = 0 \/ B[b][i].child \in 1..n
        BY <1>3, <2>1, <4>1
      <4>4. d[j] # n + 1
        BY <1>1, <1>9, <4>2, <4>3, SMTT(30)
      <4>5. j \in 1..K /\ d[j] = c[j]
        BY <2>2, <4>4
      <4>6. b # t
        BY <1>2, <1>9, <2>1, <4>1, <4>2, <4>5
      <4> QED BY <2>4, <4>6
    <3> QED BY <3>2, <3>3
  <2> QED BY <2>3, <2>4
<1> QED BY <1>9 DEF OnThePath

LEMMA SerializedIsNext == Serialized' = Printed(blocks')
BY Zenon DEF Serialized, Printed, PrintsIn, PrintsTable, PrintsWith, Semi, Open, Shut,
             FoldLeft, MapThenFoldSet

LEMMA PathKeeps ==
    ASSUME TInv, OnThePath, UNCHANGED blocks,
           config_stack' = config_stack \/ (config_stack # <<>> /\ config_stack' = Front(config_stack))
    PROVE  OnThePath'
<1> DEFINE c == config_stack
           d == config_stack'
<1>1. Len(c) \in Nat /\ c \in Seq(1..Len(blocks))
  BY LenProperties DEF TInv, TypeOK
<1>2. /\ Len(d) \in Nat /\ \A j \in 1..Len(d) : j \in 1..Len(c) /\ d[j] = c[j]
  <2>1. CASE d = c
    BY <1>1, <2>1
  <2>2. CASE c # <<>> /\ d = Front(c)
    <3>1. Len(c) # 0 /\ d = SubSeq(c, 1, Len(c) - 1)
      BY <1>1, <2>2, EmptySeq DEF Front
    <3> HIDE DEF c, d
    <3>2. \A j \in 1..(Len(c) - 1) : j \in 1..Len(c)
      BY <1>1
    <3>3. \A j \in 1..(Len(c) - 1) : c[j] \in 1..Len(blocks)
      BY <1>1, <3>2, ElementOfSeq
    <3>4. /\ Len(d) = IF 1 <= Len(c) - 1 THEN Len(c) - 1 - 1 + 1 ELSE 0
          /\ \A j \in 1..(Len(c) - 1 - 1 + 1) : d[j] = c[1 + j - 1]
      BY <1>1, <3>1, <3>3, SubSeqProperties
    <3>5. PICK n \in Nat : n = Len(c) - 1
      <4>1. \A k \in Nat : k # 0 => k - 1 \in Nat
        OBVIOUS
      <4>2. Len(c) - 1 \in Nat
        BY <1>1, <3>1, <4>1
      <4> QED BY <4>2
    <3>6. n - 1 + 1 = n /\ (IF 1 <= n THEN n - 1 + 1 ELSE 0) = n
      OBVIOUS
    <3>7. \A j \in 1..n : 1 + j - 1 = j
      OBVIOUS
    <3>8. Len(d) = n /\ \A j \in 1..n : d[j] = c[j]
      BY <3>4, <3>5, <3>6, <3>7
    <3> QED BY <3>2, <3>5, <3>8
  <2> QED BY <2>1, <2>2
<1>3. ASSUME NEW b \in 1..Len(blocks), NEW i \in 1..Len(blocks[b]), NEW j \in 1..Len(d),
             blocks[b][i].child = d[j]
      PROVE  j > 1 /\ b = d[j - 1] /\ i = Len(blocks[b])
  <2>1. j \in 1..Len(c) /\ d[j] = c[j]
    BY <1>2
  <2>2. j > 1 /\ b = c[j - 1] /\ i = Len(blocks[b])
    BY <1>3, <2>1 DEF OnThePath
  <2>3. j - 1 \in 1..Len(d)
    BY <1>2, <2>2
  <2> QED BY <1>2, <2>2, <2>3
<1> QED BY <1>3 DEF OnThePath

\* What Parse does to the blocks and the stack.
LEMMA ParseDoes ==
    ASSUME NEW type, NEW tok, Parse(type, tok)
    PROVE  \/ /\ UNCHANGED blocks
              /\ \/ config_stack' = config_stack
                 \/ config_stack # <<>> /\ config_stack' = Front(config_stack)
           \/ config_stack # <<>> /\ AddToken(tok)
           \/ config_stack # <<>> /\ last_token_type = "NORMAL" /\ OpenBlock
<1>1. CASE type = "COMMENT" \/ ~Allowed(type)
  BY <1>1 DEF Parse
<1>2. CASE type # "COMMENT" /\ Allowed(type)
  <2>1. type \in {"NORMAL", "START_BLOCK", "END_BLOCK", "EOF", "STATEMENT_END"}
    BY <1>2 DEF Allowed
  <2>2. CASE config_stack = <<>> /\ type # "STATEMENT_END"
    BY <1>2, <2>2 DEF Parse, Undefined
  <2>3. CASE config_stack # <<>> \/ type = "STATEMENT_END"
    BY <1>2, <2>1, <2>3 DEF Parse, PopAtEnd, Allowed
  <2> QED BY <2>2, <2>3
<1> QED BY <1>1, <1>2

LEMMA ParseKeepsPath ==
    ASSUME TInv, OnThePath, outcome = "parsing", NEW type, NEW tok \in Lexeme, Parse(type, tok)
    PROVE  OnThePath'
<1>1. CASE /\ UNCHANGED blocks
           /\ \/ config_stack' = config_stack
              \/ config_stack # <<>> /\ config_stack' = Front(config_stack)
  BY <1>1, PathKeeps
<1>2. CASE config_stack # <<>> /\ AddToken(tok)
  <2>1. PICK B, C : B = blocks /\ C = blocks'
    OBVIOUS
  <2>2. PICK m, e : TopBecomes(B, C, Last(config_stack), m, e) /\ Len(C) = Len(B) /\ e.child = 0
    <3>1. CASE last_token_type = "NORMAL"
      <4>1. Continues(B, C, Last(config_stack), tok)
        BY <1>2, <2>1, <3>1, WordContinues
      <4> QED BY <4>1 DEF Continues
    <3>2. CASE last_token_type # "NORMAL"
      <4>1. Starts(B, C, Last(config_stack), tok)
        BY <1>2, <2>1, <3>2, WordStarts
      <4> QED BY <4>1 DEF Starts
    <3> QED BY <3>1, <3>2
  <2>3. config_stack' = config_stack
    BY <1>2 DEF AddToken
  <2> QED BY <1>2, <2>1, <2>2, <2>3, PathStays
<1>3. CASE config_stack # <<>> /\ last_token_type = "NORMAL" /\ OpenBlock
  <2>1. PICK B, C : B = blocks /\ C = blocks'
    OBVIOUS
  <2>2. Opens(B, C, Last(config_stack))
    BY <1>3, <2>1, BlockOpens
  <2>3. PICK m, e : /\ TopBecomes(B, C, Last(config_stack), m, e) /\ Len(C) = Len(B) + 1
                    /\ C[Len(B) + 1] = <<>> /\ e.child = Len(B) + 1
    BY <2>2 DEF Opens
  <2>4. config_stack' = Append(config_stack, Len(B) + 1)
    BY <1>3, <2>1 DEF OpenBlock
  <2> QED BY <1>3, <2>1, <2>3, <2>4, PathStays
<1> QED BY <1>1, <1>2, <1>3, ParseDoes

-----------------------------------------------------------------------------
(* What the steps of Parse print                                           *)

\* R is printed, the statement that is not finished ended and the open blocks closed.
Prints(R) ==
    Serialized[1] = R \o (IF last_token_type = "NORMAL" THEN Semi ELSE <<>>)
                      \o Closing(Len(config_stack) - 1)

LEMMA PrintsIs ==
    ASSUME NEW R \in Seq(Lexeme), config_stack # <<>>, TInv
    PROVE  /\ Prints(R) <=> Printed(blocks)[1] = Then(Then(R, IF last_token_type = "NORMAL" THEN Semi ELSE <<>>),
                                                     Closing(Len(config_stack) - 1))
           /\ R \in Strip /\ Semi \in Strip /\ Open \in Strip /\ Shut \in Strip /\ <<>> \in Strip
           /\ Len(config_stack) - 1 \in Nat
           /\ Closing(Len(config_stack) - 1) \in Strip
<1>1. Len(config_stack) \in Nat \ {0}
  <2>1. config_stack \in Seq(1..Len(blocks))
    BY DEF TInv, TypeOK
  <2> QED BY <2>1, EmptySeq
<1>2. Len(config_stack) - 1 \in Nat
  BY <1>1
<1>3. Closing(Len(config_stack) - 1) \in Seq(Lexeme)
  BY <1>2, ClosingIs
<1> QED BY <1>2, <1>3, SerializedIs, MarksType DEF Prints, Then, Strip

LEMMA TopChanged ==
    ASSUME TInv, TInv', OnThePath, outcome = "parsing", config_stack # <<>>,
           NEW B, NEW C, B = blocks, C = blocks', NEW m, NEW e,
           TopBecomes(B, C, Last(config_stack), m, e)
    PROVE  Changed(B, C, config_stack)
<1>1. Tree(B) /\ Path(B, config_stack)
  BY StackIsPath
<1>2. Tree(C)
  BY DEF Tree, TInv, TypeOK, ChildrenAreYounger
<1> QED BY <1>1, <1>2 DEF Changed, TopBecomes

\* What is printed when the last block of the path becomes m of its statements and e.
Reprinted(B, C, m, e, X, Z) ==
    \E Y \in Strip :
        /\ Printed(C)[1] = Then(Then(Y, Body(Printed(C), e)), Z)
        /\ Body(Printed(C), e) \in Strip
        /\ Len(B[Last(config_stack)]) = m => X = Y
        /\ Len(B[Last(config_stack)]) = m + 1 => X = Then(Y, Body(Printed(B), B[Last(config_stack)][m + 1]))

LEMMA TopReprinted ==
    ASSUME TInv, TInv', OnThePath, outcome = "parsing", config_stack # <<>>, config_stack[1] = 1,
           NEW B, NEW C, B = blocks, C = blocks', NEW m, NEW e,
           TopBecomes(B, C, Last(config_stack), m, e),
           NEW R \in Seq(Lexeme), Prints(R)
    PROVE  Reprinted(B, C, m, e, Then(R, IF last_token_type = "NORMAL" THEN Semi ELSE <<>>),
                     Closing(Len(config_stack) - 1))
<1> DEFINE X == Then(R, IF last_token_type = "NORMAL" THEN Semi ELSE <<>>)
           Z == Closing(Len(config_stack) - 1)
<1>1. Changed(B, C, config_stack)
  BY TopChanged
<1>2. Printed(B)[1] = X \o Z /\ X \in Seq(Lexeme)
  <2>1. Printed(blocks)[1] = Then(X, Z) /\ R \in Strip /\ Semi \in Strip /\ <<>> \in Strip
    BY PrintsIs
  <2>2. X \in Strip
    BY <2>1, Joining
  <2> HIDE DEF X, Z
  <2> QED BY <2>1, <2>2 DEF Then, Strip
<1>3. PICK p, q : p = B[Last(config_stack)] /\ q = C[Last(config_stack)]
  OBVIOUS
<1>4. m \in Nat /\ Len(q) = m + 1 /\ m <= Len(p) /\ q[m + 1] = e /\ \A k \in 1..m : q[k] = p[k]
  BY <1>3 DEF TopBecomes
<1>5. PICK Y \in Seq(Lexeme) :
               /\ Printed(C)[1] = (Y \o Body(Printed(C), q[m + 1])) \o Closing(Len(config_stack) - 1)
               /\ Body(Printed(C), q[m + 1]) \in Seq(Lexeme)
               /\ Len(p) = m => X = Y
               /\ Len(p) = m + 1 => X = Y \o Body(Printed(B), p[m + 1])
  <2> HIDE DEF X
  <2>1. PICK c : c = config_stack
    OBVIOUS
  <2>2. Printed(B)[1] = X \o Closing(Len(c) - 1) /\ X \in Seq(Lexeme)
    BY <1>2, <2>1
  <2>3. Changed(B, C, c) /\ c[1] = 1 /\ p = B[Last(c)] /\ q = C[Last(c)]
    BY <1>1, <1>3, <2>1
  <2>4. \E Y \in Seq(Lexeme) :
               /\ Printed(C)[1] = (Y \o Body(Printed(C), q[m + 1])) \o Closing(Len(c) - 1)
               /\ Body(Printed(C), q[m + 1]) \in Seq(Lexeme)
               /\ Len(p) = m => X = Y
               /\ Len(p) = m + 1 => X = Y \o Body(Printed(B), p[m + 1])
    <3>1. TopPrintsAs(B, C, c, X, p, q, m)
      <4>1. PICK n \in Nat : n = m
        BY <1>4
      <4> QED BY <1>4, <2>2, <2>3, <4>1, TopPrints
    <3> QED BY <3>1 DEF TopPrintsAs
  <2> QED BY <2>1, <2>4
<1> HIDE DEF X, Z
<1>6. Reprinted(B, C, m, e, X, Z)
  BY <1>3, <1>4, <1>5, Zenon DEF Reprinted, Then, Strip, Z
<1> QED BY <1>6 DEF X, Z

LEMMA AppendIsThen ==
    ASSUME NEW x \in Strip, NEW tok \in Lexeme
    PROVE  Append(x, tok) = Then(x, <<tok>>) /\ <<tok>> \in Strip
<1>1. <<tok>> \in Seq(Lexeme)
  BY SingletonSeq
<1>2. Append(x, tok) = x \o <<tok>>
  BY AppendIsConcat DEF Strip
<1> QED BY <1>1, <1>2 DEF Strip, Then

\* A word goes behind the rest.
LEMMA WordPrints ==
    ASSUME TInv, TInv', OnThePath, outcome = "parsing", config_stack # <<>>, config_stack[1] = 1,
           NEW tok \in Lexeme, AddToken(tok), last_token_type' = "NORMAL",
           NEW R \in Seq(Lexeme), Prints(R), NEW Q, Q = Then(R, <<tok>>)
    PROVE  Prints(Q)'
<1>1. PICK B, C : B = blocks /\ C = blocks'
  OBVIOUS
<1>2. PICK Z : Z = Closing(Len(config_stack) - 1)
  OBVIOUS
<1>3. /\ R \in Strip /\ Semi \in Strip /\ Z \in Strip
      /\ Q = Then(R, <<tok>>) /\ <<tok>> \in Strip
  BY <1>2, PrintsIs, AppendIsThen
<1>4. config_stack' = config_stack
  BY DEF AddToken
<1>5. Printed(C)[1] = Then(Then(Q, Semi), Z)
  <2>1. CASE last_token_type = "NORMAL"
    <3>1. Continues(B, C, Last(config_stack), tok)
      BY <1>1, <2>1, WordContinues
    <3>2. PICK m \in Nat, s \in Statement :
              /\ Len(B[Last(config_stack)]) = m + 1 /\ B[Last(config_stack)][m + 1] = s /\ s.child = 0
              /\ Len(C) = Len(B)
              /\ TopBecomes(B, C, Last(config_stack), m, [tokens |-> Append(s.tokens, tok), child |-> 0])
      BY <3>1 DEF Continues
    <3>3. PICK e : e = [tokens |-> Append(s.tokens, tok), child |-> 0]
      OBVIOUS
    <3>4. Reprinted(B, C, m, e, Then(R, Semi), Z)
      <4>1. Reprinted(B, C, m, e, Then(R, IF last_token_type = "NORMAL" THEN Semi ELSE <<>>), Closing(Len(config_stack) - 1))
        BY <1>1, <3>2, <3>3, TopReprinted
      <4> QED BY <1>2, <2>1, <4>1
    <3>5. PICK t \in Strip : t = s.tokens
      BY DEF Statement, Strip
    <3>6. Body(Printed(C), e) = Then(Append(t, tok), Semi) /\ Body(Printed(B), s) = Then(t, Semi)
      <4>1. e.tokens = Append(t, tok) /\ e.child = 0
        BY <3>3, <3>5
      <4> QED BY <3>2, <3>5, <4>1 DEF Body, Then
    <3>7. Append(t, tok) = Then(t, <<tok>>)
      BY AppendIsThen
    <3>8. PICK Y \in Strip : /\ Printed(C)[1] = Then(Then(Y, Then(Then(t, <<tok>>), Semi)), Z)
                             /\ Then(R, Semi) = Then(Y, Then(t, Semi))
      <4>1. PICK Y \in Strip :
              /\ Printed(C)[1] = Then(Then(Y, Body(Printed(C), e)), Z)
              /\ Len(B[Last(config_stack)]) = m + 1 => Then(R, Semi) = Then(Y, Body(Printed(B), B[Last(config_stack)][m + 1]))
        BY <3>4 DEF Reprinted
      <4> QED BY <3>2, <3>6, <3>7, <4>1
    <3>9. R = Then(Y, t)
      <4>1. Then(Then(Y, t), Semi) = Then(R, Semi) /\ Then(Y, t) \in Strip
        BY <1>3, <3>8, Joining
      <4> QED BY <1>3, <4>1, Joining
    <3>10. Then(Y, Then(Then(t, <<tok>>), Semi)) = Then(Then(Y, Then(t, <<tok>>)), Semi) /\ Then(t, <<tok>>) \in Strip
      <4>1. Then(t, <<tok>>) \in Strip
        BY <1>3, Joining
      <4> QED BY <1>3, <4>1, Joining
    <3>11. Then(Y, Then(t, <<tok>>)) = Q
      BY <1>3, <3>9, Joining
    <3> QED BY <3>8, <3>10, <3>11
  <2>2. CASE last_token_type # "NORMAL"
    <3>1. Starts(B, C, Last(config_stack), tok)
      BY <1>1, <2>2, WordStarts
    <3>2. PICK m, e : /\ e = [tokens |-> <<tok>>, child |-> 0] /\ m = Len(B[Last(config_stack)])
                      /\ TopBecomes(B, C, Last(config_stack), m, e)
      BY <3>1 DEF Starts
    <3>4. Reprinted(B, C, m, e, Then(R, <<>>), Z)
      <4>1. Reprinted(B, C, m, e, Then(R, IF last_token_type = "NORMAL" THEN Semi ELSE <<>>), Closing(Len(config_stack) - 1))
        BY <1>1, <3>2, TopReprinted
      <4> QED BY <1>2, <2>2, <4>1
    <3>6. Body(Printed(C), e) = Then(<<tok>>, Semi)
      <4>1. e.tokens = <<tok>> /\ e.child = 0
        BY <3>2
      <4> QED BY <4>1 DEF Body, Then
    <3>8. PICK Y \in Strip : Printed(C)[1] = Then(Then(Y, Then(<<tok>>, Semi)), Z) /\ Then(R, <<>>) = Y
      <4>1. PICK Y \in Strip :
              /\ Printed(C)[1] = Then(Then(Y, Body(Printed(C), e)), Z)
              /\ Len(B[Last(config_stack)]) = m => Then(R, <<>>) = Y
        BY <3>4 DEF Reprinted
      <4> QED BY <3>2, <3>6, <4>1
    <3>9. Y = R /\ Then(Y, Then(<<tok>>, Semi)) = Then(Then(Y, <<tok>>), Semi)
      BY <1>3, <3>8, Joining
    <3> QED BY <1>3, <3>8, <3>9
  <2> QED BY <2>1, <2>2
<1>6. Serialized'[1] = Then(Then(Q, Semi), Z)
  BY <1>1, <1>5, SerializedIsNext
<1> QED BY <1>2, <1>4, <1>6 DEF Prints, Then

\* An opened block goes behind the rest, and its end before the others.
LEMMA OpenPrints ==
    ASSUME TInv, TInv', OnThePath, outcome = "parsing", config_stack # <<>>, config_stack[1] = 1,
           last_token_type = "NORMAL", OpenBlock, last_token_type' = "START_BLOCK",
           NEW R \in Seq(Lexeme), Prints(R), NEW Q, Q = Then(R, Open)
    PROVE  Prints(Q)'
<1>1. PICK B, C : B = blocks /\ C = blocks'
  OBVIOUS
<1>2. PICK K \in Nat : K = Len(config_stack) - 1
  BY PrintsIs
<1>3. /\ R \in Strip /\ Semi \in Strip /\ Open \in Strip /\ Shut \in Strip /\ Closing(K) \in Strip /\ <<>> \in Strip
      /\ Q = Then(R, Open)
  BY <1>2, PrintsIs, AppendIsThen, MarksType DEF Open
<1>4. Opens(B, C, Last(config_stack))
  BY <1>1, BlockOpens
<1>5. PICK m \in Nat, s \in Statement :
        /\ Len(B[Last(config_stack)]) = m + 1 /\ B[Last(config_stack)][m + 1] = s /\ s.child = 0
        /\ Len(C) = Len(B) + 1 /\ C[Len(B) + 1] = <<>>
        /\ TopBecomes(B, C, Last(config_stack), m, [tokens |-> s.tokens, child |-> Len(B) + 1])
  BY <1>4 DEF Opens
<1>6. PICK n \in Nat : n = Len(B) + 1
  <2>1. Len(B) \in Nat
    BY <1>1, TopFacts
  <2> QED BY <2>1
<1>61. PICK e : e = [tokens |-> s.tokens, child |-> n]
  OBVIOUS
<1>7. Reprinted(B, C, m, e, Then(R, Semi), Closing(K))
  <2>1. Reprinted(B, C, m, e, Then(R, IF last_token_type = "NORMAL" THEN Semi ELSE <<>>), Closing(Len(config_stack) - 1))
    BY <1>1, <1>5, <1>6, <1>61, TopReprinted
  <2> QED BY <1>2, <2>1
<1>8. PICK t \in Strip : t = s.tokens
  BY DEF Statement, Strip
<1>9. Printed(C)[n] = <<>> /\ n # 0
  <2>1. Tree(C)
    BY <1>1 DEF Tree, TInv, TypeOK, ChildrenAreYounger
  <2>2. Len(B) \in Nat
    BY <1>1, TopFacts
  <2>3. n \in 1..Len(C) /\ C[n] = <<>> /\ n # 0
    BY <1>5, <1>6, <2>2
  <2> QED BY <2>1, <2>3, PrintedEmpty
<1>10. Body(Printed(C), e) = Then(t, Then(Then(Open, <<>>), Shut)) /\ Body(Printed(B), s) = Then(t, Semi)
  <2>1. e.tokens = t /\ e.child = n
    BY <1>61, <1>8
  <2> QED BY <1>5, <1>8, <1>9, <2>1 DEF Body, Then
<1>11. PICK Y \in Strip : /\ Printed(C)[1] = Then(Then(Y, Then(t, Then(Then(Open, <<>>), Shut))), Closing(K))
                          /\ Then(R, Semi) = Then(Y, Then(t, Semi))
  <2>1. PICK Y \in Strip :
          /\ Printed(C)[1] = Then(Then(Y, Body(Printed(C), e)), Closing(K))
          /\ Len(B[Last(config_stack)]) = m + 1 => Then(R, Semi) = Then(Y, Body(Printed(B), B[Last(config_stack)][m + 1]))
    BY <1>7 DEF Reprinted
  <2> QED BY <1>5, <1>10, <2>1
<1>12. R = Then(Y, t)
  <2>1. Then(Then(Y, t), Semi) = Then(R, Semi) /\ Then(Y, t) \in Strip
    BY <1>3, <1>11, Joining
  <2> QED BY <1>3, <2>1, Joining
<1>13. Printed(C)[1] = Then(Q, Closing(K + 1))
  <2>1. Then(Open, <<>>) = Open /\ Then(Open, Shut) \in Strip
    BY <1>3, Joining
  <2>2. Then(Y, Then(t, Then(Open, Shut))) = Then(Then(Y, t), Then(Open, Shut))
    BY <1>3, <2>1, Joining
  <2>3. Then(R, Then(Open, Shut)) = Then(Q, Shut) /\ Q \in Strip
    BY <1>3, Joining
  <2>4. Then(Then(Q, Shut), Closing(K)) = Then(Q, Then(Shut, Closing(K)))
    BY <1>3, <2>3, Joining
  <2>5. Then(Shut, Closing(K)) = Closing(K + 1)
    BY ClosingIs DEF Then
  <2> QED BY <1>11, <1>12, <2>1, <2>2, <2>3, <2>4, <2>5
<1>14. config_stack' = Append(config_stack, n) /\ Len(config_stack') = Len(config_stack) + 1
  <2>1. config_stack' = Append(config_stack, n)
    BY <1>1, <1>6 DEF OpenBlock
  <2>2. config_stack \in Seq(1..Len(blocks))
    BY DEF TInv, TypeOK
  <2> QED BY <2>1, <2>2, LastIs
<1>15. Len(config_stack') - 1 = K + 1
  <2>1. Len(config_stack) = K + 1
    <3>1. Len(config_stack) \in Nat
      BY StackFacts DEF TInv
    <3> QED BY <1>2, <3>1
  <2> QED BY <1>14, <2>1
<1>16. Serialized'[1] = Then(Q, Closing(K + 1))
  BY <1>1, <1>13, SerializedIsNext
<1>17. Then(Q, <<>>) = Q
  BY <1>3, Joining
<1> QED BY <1>15, <1>16, <1>17 DEF Prints, Then

\* A statement or a block that ends is printed as it was.
LEMMA EndPrints ==
    ASSUME TInv, TInv', config_stack # <<>>, last_token_type = "NORMAL", last_token_type' = "STATEMENT_END",
           UNCHANGED <<config_stack, blocks>>,
           NEW R \in Seq(Lexeme), Prints(R), NEW Q, Q = Then(R, Semi)
    PROVE  Prints(Q)'
<1>1. PICK K \in Nat : K = Len(config_stack) - 1 /\ Closing(K) \in Strip
  BY PrintsIs
<1>2. R \in Strip /\ Q = Then(R, Semi) /\ Semi \in Strip /\ <<>> \in Strip
  BY PrintsIs, AppendIsThen, MarksType DEF Semi
<1>3. Printed(blocks)[1] = Then(Q, Closing(K))
  BY <1>1, <1>2, PrintsIs
<1>4. Serialized'[1] = Then(Q, Closing(K))
  BY <1>3, SerializedIsNext
<1>5. Then(Q, <<>>) = Q
  <2>1. Q \in Strip
    BY <1>2, Joining
  <2> QED BY <2>1, Joining
<1> QED BY <1>1, <1>4, <1>5 DEF Prints, Then

LEMMA FrontIs ==
    ASSUME NEW S, NEW s \in Seq(S), s # <<>>
    PROVE  /\ Front(s) \in Seq(S) /\ Len(s) \in Nat \ {0} /\ Len(Front(s)) = Len(s) - 1
           /\ \A i \in 1..(Len(s) - 1) : Front(s)[i] = s[i] /\ s[i] \in S
<1>1. PICK n \in Nat : n = Len(s) - 1
  <2>1. \A k \in Nat : k # 0 => k - 1 \in Nat
    OBVIOUS
  <2>2. Len(s) \in Nat /\ Len(s) # 0
    BY EmptySeq, LenProperties
  <2> QED BY <2>1, <2>2
<1>2. Len(s) \in Nat \ {0} /\ Len(s) = n + 1
  <2>1. Len(s) \in Nat
    BY LenProperties
  <2> QED BY <1>1, <2>1
<1>3. Front(s) = SubSeq(s, 1, n)
  BY <1>1 DEF Front
<1>4. \A i \in 1..n : i \in 1..Len(s) /\ s[i] \in S
  <2>1. \A i \in 1..n : i \in 1..Len(s)
    BY <1>2
  <2> QED BY <2>1, ElementOfSeq
<1>5. /\ SubSeq(s, 1, n) \in Seq(S)
      /\ Len(SubSeq(s, 1, n)) = IF 1 <= n THEN n - 1 + 1 ELSE 0
      /\ \A i \in 1..(n - 1 + 1) : SubSeq(s, 1, n)[i] = s[1 + i - 1]
  BY <1>4, SubSeqProperties
<1>6. n - 1 + 1 = n /\ (IF 1 <= n THEN n - 1 + 1 ELSE 0) = n /\ \A j \in 1..n : 1 + j - 1 = j
  OBVIOUS
<1> QED BY <1>1, <1>2, <1>3, <1>4, <1>5, <1>6

LEMMA ShutPrints ==
    ASSUME TInv, TInv', config_stack # <<>>, Len(config_stack) # 1, last_token_type # "NORMAL",
           last_token_type' = "END_BLOCK", config_stack' = Front(config_stack), UNCHANGED blocks,
           NEW R \in Seq(Lexeme), Prints(R), NEW Q, Q = Then(R, Shut)
    PROVE  Prints(Q)'
<1>1. PICK K \in Nat : K = Len(config_stack) - 1 /\ Closing(K) \in Strip
  BY PrintsIs
<1>2. R \in Strip /\ Q = Then(R, Shut) /\ Shut \in Strip /\ <<>> \in Strip
  BY PrintsIs, AppendIsThen, MarksType DEF Shut
<1>3. K # 0 /\ K - 1 \in Nat /\ Len(config_stack') = K
  <2>1. Len(config_stack) \in Nat
    BY StackFacts DEF TInv
  <2>2. \A k, l \in Nat : k = l - 1 /\ l # 1 => k # 0 /\ k - 1 \in Nat
    OBVIOUS
  <2>3. K # 0 /\ K - 1 \in Nat
    BY <1>1, <2>1, <2>2
  <2>4. config_stack \in Seq(1..Len(blocks))
    BY DEF TInv, TypeOK
  <2>5. Len(config_stack') = Len(config_stack) - 1
    BY <2>4, FrontIs
  <2> QED BY <1>1, <2>3, <2>5
<1>4. Printed(blocks)[1] = Then(R, Then(Shut, Closing(K - 1))) /\ Closing(K - 1) \in Strip
  <2>1. Printed(blocks)[1] = Then(Then(R, <<>>), Closing(K))
    BY <1>1, PrintsIs
  <2>2. Then(R, <<>>) = R
    BY <1>2, Joining
  <2>3. K - 1 + 1 = K
    OBVIOUS
  <2>4. Then(Shut, Closing(K - 1)) = Closing(K) /\ Closing(K - 1) \in Strip
    BY <1>3, <2>3, ClosingIs DEF Then, Strip
  <2> QED BY <2>1, <2>2, <2>4
<1>5. Then(R, Then(Shut, Closing(K - 1))) = Then(Q, Closing(K - 1)) /\ Then(Q, <<>>) = Q
  <2>1. Q \in Strip
    BY <1>2, Joining
  <2> QED BY <1>2, <1>4, <2>1, Joining
<1>6. Serialized'[1] = Then(Q, Closing(K - 1))
  BY <1>4, <1>5, SerializedIsNext
<1> QED BY <1>3, <1>5, <1>6 DEF Prints, Then

-----------------------------------------------------------------------------
(* Beginnings of sequences                                                 *)

LEMMA InitialIs ==
    ASSUME NEW S, NEW s \in Seq(S), NEW k \in Nat, k <= Len(s)
    PROVE  /\ SubSeq(s, 1, k) \in Seq(S) /\ Len(SubSeq(s, 1, k)) = k
           /\ \A i \in 1..k : SubSeq(s, 1, k)[i] = s[i] /\ s[i] \in S
<1>1. Len(s) \in Nat
  BY LenProperties
<1>2. \A i \in 1..k : i \in 1..Len(s)
  BY <1>1
<1>3. \A i \in 1..k : s[i] \in S
  BY <1>2, ElementOfSeq
<1>4. /\ SubSeq(s, 1, k) \in Seq(S)
      /\ Len(SubSeq(s, 1, k)) = IF 1 <= k THEN k - 1 + 1 ELSE 0
      /\ \A i \in 1..(k - 1 + 1) : SubSeq(s, 1, k)[i] = s[1 + i - 1]
  BY <1>3, SubSeqProperties
<1>5. k - 1 + 1 = k /\ (IF 1 <= k THEN k - 1 + 1 ELSE 0) = k /\ \A j \in 1..k : 1 + j - 1 = j
  OBVIOUS
<1> QED BY <1>3, <1>4, <1>5

LEMMA InitialSame ==
    ASSUME NEW S, NEW s \in Seq(S), NEW t \in Seq(S), NEW k \in Nat, k <= Len(s), k <= Len(t),
           \A i \in 1..k : s[i] = t[i]
    PROVE  SubSeq(s, 1, k) = SubSeq(t, 1, k)
<1>1. PICK a, b : a = SubSeq(s, 1, k) /\ b = SubSeq(t, 1, k)
  OBVIOUS
<1>2. a \in Seq(S) /\ Len(a) = k /\ \A i \in 1..k : a[i] = s[i]
  BY <1>1, InitialIs
<1>3. b \in Seq(S) /\ Len(b) = k /\ \A i \in 1..k : b[i] = t[i]
  BY <1>1, InitialIs
<1>4. a = b
  BY <1>2, <1>3, SeqEqual
<1> QED BY <1>1, <1>4

LEMMA InitialNext ==
    ASSUME NEW S, NEW s \in Seq(S), NEW k \in Nat, k + 1 <= Len(s)
    PROVE  /\ SubSeq(s, 1, k + 1) = Append(SubSeq(s, 1, k), s[k + 1])
           /\ s[k + 1] \in S
<1>1. Len(s) \in Nat
  BY LenProperties
<1>2. k <= Len(s) /\ k + 1 \in Nat /\ k + 1 \in 1..(k + 1)
  BY <1>1
<1>3. PICK a, b, e : a = SubSeq(s, 1, k) /\ b = SubSeq(s, 1, k + 1) /\ e = s[k + 1]
  OBVIOUS
<1>4. a \in Seq(S) /\ Len(a) = k /\ \A i \in 1..k : a[i] = s[i]
  BY <1>2, <1>3, InitialIs
<1>5. b \in Seq(S) /\ Len(b) = k + 1 /\ (\A i \in 1..(k + 1) : b[i] = s[i]) /\ e \in S
  BY <1>2, <1>3, InitialIs
<1>6. PICK c : c = Append(a, e)
  OBVIOUS
<1>7. c \in Seq(S) /\ Len(c) = k + 1 /\ c[k + 1] = e /\ \A i \in 1..k : c[i] = a[i]
  BY <1>4, <1>5, <1>6, AppendProperties
<1>8. \A i \in 1..(k + 1) : i \in 1..k \/ i = k + 1
  OBVIOUS
<1>9. \A i \in 1..(k + 1) : b[i] = c[i]
  BY <1>3, <1>4, <1>5, <1>7, <1>8
<1>10. b = c
  BY <1>5, <1>7, <1>9, SeqEqual
<1> QED BY <1>3, <1>5, <1>6, <1>10

\* The rest of a sequence.
LEMMA RestIs ==
    ASSUME NEW S, NEW s \in Seq(S), NEW k \in Nat, NEW n \in Nat, n = Len(s), k <= n
    PROVE  /\ SubSeq(s, k + 1, n) \in Seq(S) /\ Len(SubSeq(s, k + 1, n)) = n - k
           /\ \A i \in 1..(n - k) : SubSeq(s, k + 1, n)[i] = s[k + i] /\ s[k + i] \in S
<1>1. \A i \in (k + 1)..n : i \in 1..n
  OBVIOUS
<1>2. \A i \in (k + 1)..n : s[i] \in S
  BY <1>1, ElementOfSeq
<1>3. k + 1 \in Int /\ n \in Int
  OBVIOUS
<1>4. /\ SubSeq(s, k + 1, n) \in Seq(S)
      /\ Len(SubSeq(s, k + 1, n)) = IF k + 1 <= n THEN n - (k + 1) + 1 ELSE 0
      /\ \A i \in 1..(n - (k + 1) + 1) : SubSeq(s, k + 1, n)[i] = s[k + 1 + i - 1]
  BY <1>2, <1>3, SubSeqProperties
<1>5. n - (k + 1) + 1 = n - k /\ (IF k + 1 <= n THEN n - (k + 1) + 1 ELSE 0) = n - k
  OBVIOUS
<1>6. \A j \in 1..(n - k) : k + 1 + j - 1 = k + j /\ k + j \in (k + 1)..n
  OBVIOUS
<1> QED BY <1>2, <1>4, <1>5, <1>6

LEMMA RestNext ==
    ASSUME NEW S, NEW s \in Seq(S), NEW k \in Nat, NEW n \in Nat, n = Len(s), k < n
    PROVE  /\ Head(SubSeq(s, k + 1, n)) = s[k + 1]
           /\ Tail(SubSeq(s, k + 1, n)) = SubSeq(s, k + 2, n)
<1>1. PICK j : j = k + 1
  OBVIOUS
<1>2. j \in 1..n /\ n \in j..n /\ j + 1 = k + 2
  BY <1>1
<1>3. Head(SubSeq(s, j, n)) = s[j] /\ Tail(SubSeq(s, j, n)) = SubSeq(s, j + 1, n)
  BY <1>2, HeadTailOfSubSeq
<1> QED BY <1>1, <1>2, <1>3

LEMMA RestOfMore ==
    ASSUME NEW S, NEW s \in Seq(S), NEW q \in Seq(S), NEW n \in Nat, n = Len(s), NEW t, t = s \o q
    PROVE  /\ t \in Seq(S) /\ Len(t) = n + Len(q) /\ Len(q) \in Nat
           /\ SubSeq(t, n + 1, Len(t)) = q
           /\ \A i \in 1..n : t[i] = s[i]
           /\ \A i \in 1..Len(q) : t[n + i] = q[i]
<1>1. PICK m \in Nat : m = Len(q)
  BY LenProperties
<1>2. /\ t \in Seq(S) /\ Len(t) = n + m
      /\ \A i \in 1..(n + m) : t[i] = IF i <= n THEN s[i] ELSE q[i - n]
  BY <1>1, ConcatProperties
<1>3. n + m \in Nat /\ n <= n + m /\ (n + m) - n = m
  BY <1>1
<1>4. \A i \in 1..m : n + i \in 1..(n + m) /\ ~(n + i <= n) /\ n + i - n = i
  BY <1>1
<1>5. \A i \in 1..m : t[n + i] = q[i]
  BY <1>2, <1>4
<1>6. \A i \in 1..n : i \in 1..(n + m) /\ i <= n
  BY <1>1
<1>7. \A i \in 1..n : t[i] = s[i]
  BY <1>2, <1>6
<1>8. PICK a : a = SubSeq(t, n + 1, n + m)
  OBVIOUS
<1>9. a \in Seq(S) /\ Len(a) = m /\ \A i \in 1..m : a[i] = t[n + i]
  <2>1. PICK l \in Nat : l = n + m
    BY <1>3
  <2>2. a \in Seq(S) /\ Len(a) = l - n /\ \A i \in 1..(l - n) : a[i] = t[n + i]
    BY <1>2, <1>3, <1>8, <2>1, RestIs
  <2> QED BY <1>3, <2>1, <2>2
<1>10. a = q
  BY <1>1, <1>5, <1>9, SeqEqual
<1> QED BY <1>1, <1>2, <1>5, <1>7, <1>8, <1>10

-----------------------------------------------------------------------------
(* The tokens of the file                                                  *)

Uc(ts, l) == IF IsComment(l) THEN ts ELSE Append(ts, l)

UcTable(p, f) ==
    f = [s \in SUBSET DOMAIN p |-> IF s = {} THEN <<>> ELSE Uc(f[s \ {Max(s)}], p[Max(s)])]

LEMMA UncommentedIs == ASSUME NEW p PROVE Uncommented(p) = (CHOOSE f : UcTable(p, f))[DOMAIN p]
BY Zenon DEF Uncommented, UcTable, Uc, FoldLeft, MapThenFoldSet

UcStep == [x \in Strip \X Lexeme |-> Uc(x[1], x[2])]

LEMMA UcStepIs ==
    /\ UcStep \in [Strip \X Lexeme -> Strip]
    /\ \A t \in Strip, l \in Lexeme : UcStep[<<t, l>>] = Uc(t, l)
<1>1. \A t \in Strip, l \in Lexeme : Uc(t, l) \in Strip
  BY AppendProperties DEF Uc, Strip
<1> QED BY <1>1 DEF UcStep

\* The tokens of a sequence of lexemes, one by one.
LEMMA UncommentedSteps ==
    ASSUME NEW p \in Strip
    PROVE  FoldsTo(Strip, UcStep, <<>>, p, Uncommented(p))
<1>0. p \in Seq(Lexeme)
  BY DEF Strip
<1>1. <<>> \in Strip /\ UcStep \in [Strip \X Lexeme -> Strip]
  BY UcStepIs, EmptySeq DEF Strip
<1>2. \A t \in Strip, l \in Lexeme : UcStep[<<t, l>>] = Uc(t, l)
  BY UcStepIs
<1>3. \A s \in SUBSET DOMAIN p : s # {} => p[Max(s)] \in Lexeme
  BY <1>0, LenProperties, ElementOfSeq, SomeMax
<1>4. PICK f : Folds(Strip, Lexeme, UcStep, <<>>, p, f)
  BY <1>0, <1>1, FoldExists, Zenon
<1>5. UcTable(p, f)
  <2>1. \A s \in SUBSET DOMAIN p :
           f[s] = IF s = {} THEN <<>> ELSE Uc(f[s \ {Max(s)}], p[Max(s)])
    BY <1>2, <1>4 DEF Folds
  <2>2. f = [s \in SUBSET DOMAIN p |-> f[s]]
    BY <1>4 DEF Folds
  <2>3. [s \in SUBSET DOMAIN p |-> f[s]]
          = [s \in SUBSET DOMAIN p |-> IF s = {} THEN <<>> ELSE Uc(f[s \ {Max(s)}], p[Max(s)])]
    BY <2>1, Zenon
  <2> QED BY <2>2, <2>3, Zenon DEF UcTable
<1>6. PICK g : UcTable(p, g) /\ Uncommented(p) = g[DOMAIN p]
  BY <1>5, UncommentedIs
<1>7. \A s \in SUBSET DOMAIN p : g[s] = IF s = {} THEN <<>> ELSE Uc(g[s \ {Max(s)}], p[Max(s)])
  BY <1>6, Zenon DEF UcTable
<1>8. TableOf(Strip, UcStep, <<>>, p, g)
  BY <1>2, <1>3, <1>7 DEF TableOf
<1>9. FoldsTo(Strip, UcStep, <<>>, p, g[DOMAIN p])
  BY <1>0, <1>1, <1>8, FoldSteps, Zenon
<1> QED BY <1>6, <1>9

LEMMA UncommentedFacts ==
    /\ \A p \in Strip : Uncommented(p) \in Strip
    /\ Uncommented(<<>>) = <<>>
<1>1. ASSUME NEW p \in Strip PROVE Uncommented(p) \in Strip
  <2>1. PICK a : Accumulates(Strip, UcStep, <<>>, p, a) /\ Uncommented(p) = a[Len(p)]
    BY UncommentedSteps DEF FoldsTo
  <2>2. Len(p) \in Nat
    BY LenProperties DEF Strip
  <2>3. Len(p) \in 0..Len(p)
    BY <2>2
  <2> QED BY <2>1, <2>3 DEF Accumulates
<1>2. Uncommented(<<>>) = <<>>
  <2>1. <<>> \in Strip /\ Len(<<>>) = 0
    BY EmptySeq DEF Strip
  <2>2. PICK a : Accumulates(Strip, UcStep, <<>>, <<>>, a) /\ Uncommented(<<>>) = a[Len(<<>>)]
    BY <2>1, UncommentedSteps DEF FoldsTo
  <2> QED BY <2>1, <2>2 DEF Accumulates
<1> QED BY <1>1, <1>2

LEMMA UncommentedMore ==
    ASSUME NEW p \in Strip, NEW l \in Lexeme
    PROVE  Uncommented(Append(p, l)) = IF IsComment(l) THEN Uncommented(p) ELSE Append(Uncommented(p), l)
<1>1. PICK q : q = Append(p, l)
  OBVIOUS
<1>2. PICK n \in Nat : n = Len(p)
  BY LenProperties DEF Strip
<1>3. q \in Strip /\ Len(q) = n + 1 /\ q[n + 1] = l /\ \A i \in 1..n : p[i] = q[i]
  BY <1>1, <1>2, AppendProperties DEF Strip
<1>4. PICK a : Accumulates(Strip, UcStep, <<>>, p, a) /\ Uncommented(p) = a[n]
  BY <1>2, UncommentedSteps DEF FoldsTo
<1>5. PICK b : Accumulates(Strip, UcStep, <<>>, q, b) /\ Uncommented(q) = b[n + 1]
  BY <1>3, UncommentedSteps DEF FoldsTo
<1>6. a[n] = b[n]
  <2>1. Len(p) \in Nat /\ Len(q) \in Nat /\ n <= Len(p) /\ n <= Len(q)
    BY <1>2, <1>3
  <2> QED BY <1>3, <1>4, <1>5, <2>1, SameSteps
<1>7. b[n + 1] = UcStep[<<b[n], q[n + 1]>>] /\ b[n] \in Strip
  <2>1. n \in 0..(Len(q) - 1) /\ n \in 0..Len(q)
    BY <1>3
  <2> QED BY <1>5, <2>1 DEF Accumulates
<1>8. UcStep[<<b[n], l>>] = Uc(b[n], l)
  BY <1>7, UcStepIs
<1> QED BY <1>1, <1>3, <1>4, <1>5, <1>6, <1>7, <1>8 DEF Uc

-----------------------------------------------------------------------------
(* Tokens that come after others                                           *)

\* Q begins with R.
Leads(R, Q) ==
    R \in Strip /\ Q \in Strip /\ Len(R) <= Len(Q) /\ \A i \in 1..Len(R) : R[i] = Q[i]

LEMMA AppendFacts ==
    ASSUME NEW R \in Strip, NEW l \in Lexeme
    PROVE  /\ Append(R, l) \in Strip /\ Len(R) \in Nat /\ Len(Append(R, l)) = Len(R) + 1
           /\ Append(R, l)[Len(R) + 1] = l /\ Last(Append(R, l)) = l /\ Append(R, l) # <<>>
           /\ \A i \in 1..Len(R) : Append(R, l)[i] = R[i]
           /\ Leads(R, Append(R, l))
<1>1. PICK n \in Nat : n = Len(R)
  BY LenProperties DEF Strip
<1>2. PICK q : q = Append(R, l)
  OBVIOUS
<1>3. q \in Strip /\ Len(q) = n + 1 /\ q[n + 1] = l /\ q # <<>> /\ \A i \in 1..n : q[i] = R[i]
  BY <1>1, <1>2, AppendProperties DEF Strip
<1>4. Leads(R, q)
  BY <1>1, <1>3 DEF Leads
<1> QED BY <1>1, <1>2, <1>3, <1>4 DEF Last

LEMMA LeadsAlong ==
    ASSUME NEW P, NEW R, NEW Q, Leads(P, R), Leads(R, Q)
    PROVE  Leads(P, Q)
<1>1. Len(P) \in Nat /\ Len(R) \in Nat /\ Len(Q) \in Nat
  BY LenProperties DEF Leads, Strip
<1>2. \A i \in 1..Len(P) : i \in 1..Len(R)
  BY <1>1 DEF Leads
<1> QED BY <1>1, <1>2 DEF Leads

\* A token that stands where it cannot, first or behind p.
Wrong(l, first, p) ==
    \/ l \in {<<";">>, <<"{">>} /\ (first \/ p \in Marks)
    \/ l = <<"}">> /\ (first \/ p \notin Marks)

Misplacing(ts, i) == Wrong(ts[i], i = 1, ts[i - 1])

LEMMA MisusedIs ==
    ASSUME NEW R \in Strip
    PROVE  Misused(R) <=> \E i \in 1..Len(R) : Misplacing(R, i)
<1>1. DOMAIN R = 1..Len(R)
  BY LenProperties DEF Strip
<1> QED BY <1>1 DEF Misused, Misplacing, Wrong

LEMMA MisplacingSame ==
    ASSUME NEW R, NEW Q, Leads(R, Q), NEW i \in 1..Len(R)
    PROVE  i \in 1..Len(Q) /\ (Misplacing(R, i) <=> Misplacing(Q, i))
<1>1. Len(R) \in Nat /\ Len(Q) \in Nat
  BY LenProperties DEF Leads, Strip
<1>2. i \in 1..Len(Q) /\ R[i] = Q[i]
  BY <1>1 DEF Leads
<1>3. i # 1 => i - 1 \in 1..Len(R)
  BY <1>1
<1>4. i # 1 => R[i - 1] = Q[i - 1]
  BY <1>3 DEF Leads
<1>5. i = 1 \/ i # 1
  OBVIOUS
<1> QED BY <1>2, <1>4, Zenon DEF Misplacing, Wrong

LEMMA MisusedLeads ==
    ASSUME NEW R, NEW Q, Leads(R, Q), Misused(R)
    PROVE  Misused(Q)
<1>1. R \in Strip /\ Q \in Strip
  BY DEF Leads
<1>2. PICK i \in 1..Len(R) : Misplacing(R, i)
  BY <1>1, MisusedIs
<1> QED BY <1>1, <1>2, MisplacingSame, MisusedIs

\* What the last token makes of it.
Mismatched(R, l) == Wrong(l, R = <<>>, Last(R))

LEMMA MisusedMore ==
    ASSUME NEW R \in Strip, NEW l \in Lexeme
    PROVE  Misused(Append(R, l)) <=> Misused(R) \/ Mismatched(R, l)
<1>1. PICK n \in Nat : n = Len(R)
  BY LenProperties DEF Strip
<1>2. PICK q : q = Append(R, l)
  OBVIOUS
<1>3. /\ q \in Strip /\ Len(q) = n + 1 /\ q[n + 1] = l /\ (\A i \in 1..n : q[i] = R[i]) /\ Leads(R, q)
  BY <1>1, <1>2, AppendFacts
<1>4. \A i \in 1..(n + 1) : i \in 1..n \/ i = n + 1
  OBVIOUS
<1>5. \A i \in 1..n : i \in 1..(n + 1) /\ (Misplacing(R, i) <=> Misplacing(q, i))
  BY <1>1, <1>3, MisplacingSame
<1>6. Misplacing(q, n + 1) <=> Mismatched(R, l)
  <2>1. R = <<>> <=> n = 0
    BY <1>1, EmptySeq DEF Strip
  <2>2. n + 1 = 1 <=> n = 0
    OBVIOUS
  <2>3. n # 0 => n \in 1..n /\ n + 1 - 1 = n
    OBVIOUS
  <2>4. n # 0 => q[n + 1 - 1] = Last(R)
    BY <1>1, <1>3, <2>3 DEF Last
  <2>5. (n + 1 = 1 <=> R = <<>>) /\ (n + 1 # 1 => q[n + 1 - 1] = Last(R)) /\ q[n + 1] = l
    BY <1>3, <2>1, <2>2, <2>4
  <2>6. CASE n + 1 = 1
    BY <2>5, <2>6, Zenon DEF Misplacing, Mismatched, Wrong
  <2>7. CASE n + 1 # 1
    <3>1. PICK v : v = Last(R)
      OBVIOUS
    <3>2. R # <<>> /\ q[n + 1 - 1] = v /\ q[n + 1] = l
      BY <2>5, <2>7, <3>1
    <3>3. Misplacing(q, n + 1) <=> Wrong(q[n + 1], n + 1 = 1, q[n + 1 - 1])
      BY DEF Misplacing
    <3>4. Mismatched(R, l) <=> Wrong(l, R = <<>>, v)
      BY <3>1, Zenon DEF Mismatched
    <3>5. Wrong(q[n + 1], n + 1 = 1, q[n + 1 - 1]) <=> Wrong(l, R = <<>>, v)
      BY <2>7, <3>2, Zenon DEF Wrong
    <3> QED BY <3>3, <3>4, <3>5
  <2> QED BY <2>6, <2>7
<1>7. n + 1 \in 1..(n + 1)
  OBVIOUS
<1>8. Misused(q) <=> \E i \in 1..(n + 1) : Misplacing(q, i)
  BY <1>3, MisusedIs
<1>9. Misused(R) <=> \E i \in 1..n : Misplacing(R, i)
  BY <1>1, MisusedIs
<1> QED BY <1>2, <1>4, <1>5, <1>6, <1>7, <1>8, <1>9

LEMMA CountType ==
    ASSUME NEW R \in Strip, NEW c
    PROVE  IsFiniteSet({i \in DOMAIN R : Is(R[i], c)}) /\ Count(R, c) \in Nat /\ Count(<<>>, c) = 0
<1>1. DOMAIN R = 1..Len(R) /\ Len(R) \in Nat
  BY LenProperties DEF Strip
<1>2. IsFiniteSet(1..Len(R))
  BY <1>1, FS_Interval
<1>3. IsFiniteSet({i \in DOMAIN R : Is(R[i], c)})
  BY <1>1, <1>2, FS_Subset
<1>4. Count(R, c) \in Nat
  BY <1>3, FS_CardinalityType DEF Count
<1>5. {i \in DOMAIN <<>> : Is(<<>>[i], c)} = {}
  OBVIOUS
<1> QED BY <1>3, <1>4, <1>5, FS_EmptySet DEF Count

LEMMA CountMore ==
    ASSUME NEW R \in Strip, NEW l \in Lexeme, NEW c
    PROVE  Count(Append(R, l), c) = IF l = <<c>> THEN Count(R, c) + 1 ELSE Count(R, c)
<1>1. PICK n \in Nat : n = Len(R)
  BY LenProperties DEF Strip
<1>2. PICK q : q = Append(R, l)
  OBVIOUS
<1>3. q \in Strip /\ Len(q) = n + 1 /\ q[n + 1] = l /\ \A i \in 1..n : q[i] = R[i]
  BY <1>1, <1>2, AppendFacts
<1>4. DOMAIN R = 1..n /\ DOMAIN q = 1..(n + 1)
  BY <1>1, <1>3, LenProperties DEF Strip
<1> DEFINE A == {i \in DOMAIN R : Is(R[i], c)}
           B == {i \in DOMAIN q : Is(q[i], c)}
<1>5. IsFiniteSet(A) /\ n + 1 \notin A
  <2>1. n + 1 \notin 1..n
    OBVIOUS
  <2>2. n + 1 \notin A
    BY <1>4, <2>1
  <2>3. IsFiniteSet({i \in DOMAIN R : Is(R[i], c)})
    BY CountType
  <2> QED BY <2>2, <2>3
<1>6. \A i : i \in 1..(n + 1) <=> i \in 1..n \/ i = n + 1
  OBVIOUS
<1>7. B = IF l = <<c>> THEN A \cup {n + 1} ELSE A
  BY <1>3, <1>4, <1>6 DEF Is
<1>8. Count(R, c) = Cardinality(A) /\ Count(q, c) = Cardinality(B)
  BY DEF Count
<1> HIDE DEF A, B
<1>9. Cardinality(A \cup {n + 1}) = Cardinality(A) + 1
  BY <1>5, FS_AddElement
<1> QED BY <1>2, <1>7, <1>8, <1>9

OverclosedAt(ts, i) == Count(SubSeq(ts, 1, i), "}") > Count(SubSeq(ts, 1, i), "{")

LEMMA OverclosedIs ==
    ASSUME NEW R \in Strip
    PROVE  Overclosed(R) <=> \E i \in 1..Len(R) : OverclosedAt(R, i)
<1>1. DOMAIN R = 1..Len(R)
  BY LenProperties DEF Strip
<1> QED BY <1>1 DEF Overclosed, OverclosedAt

LEMMA OverclosedSame ==
    ASSUME NEW R, NEW Q, Leads(R, Q), NEW i \in 1..Len(R)
    PROVE  i \in 1..Len(Q) /\ (OverclosedAt(R, i) <=> OverclosedAt(Q, i))
<1>1. Len(R) \in Nat /\ Len(Q) \in Nat /\ R \in Seq(Lexeme) /\ Q \in Seq(Lexeme)
  BY LenProperties DEF Leads, Strip
<1>2. i \in 1..Len(Q) /\ i \in Nat /\ i <= Len(R) /\ i <= Len(Q)
  BY <1>1 DEF Leads
<1>3. \A j \in 1..i : j \in 1..Len(R)
  BY <1>1
<1>4. \A j \in 1..i : R[j] = Q[j]
  BY <1>3 DEF Leads
<1>5. SubSeq(R, 1, i) = SubSeq(Q, 1, i)
  BY <1>1, <1>2, <1>4, InitialSame
<1> QED BY <1>2, <1>5 DEF OverclosedAt

LEMMA OverclosedLeads ==
    ASSUME NEW R, NEW Q, Leads(R, Q), Overclosed(R)
    PROVE  Overclosed(Q)
<1>1. R \in Strip /\ Q \in Strip
  BY DEF Leads
<1>2. PICK i \in 1..Len(R) : OverclosedAt(R, i)
  BY <1>1, OverclosedIs
<1> QED BY <1>1, <1>2, OverclosedSame, OverclosedIs

LEMMA OverclosedMore ==
    ASSUME NEW R \in Strip, NEW l \in Lexeme
    PROVE  Overclosed(Append(R, l)) <=> Overclosed(R) \/ Count(Append(R, l), "}") > Count(Append(R, l), "{")
<1>1. PICK n \in Nat : n = Len(R)
  BY LenProperties DEF Strip
<1>2. PICK q : q = Append(R, l)
  OBVIOUS
<1>3. q \in Strip /\ Len(q) = n + 1 /\ Leads(R, q)
  BY <1>1, <1>2, AppendFacts
<1>4. \A i \in 1..(n + 1) : i \in 1..n \/ i = n + 1
  OBVIOUS
<1>5. \A i \in 1..n : i \in 1..(n + 1) /\ (OverclosedAt(R, i) <=> OverclosedAt(q, i))
  BY <1>1, <1>3, OverclosedSame
<1>6. OverclosedAt(q, n + 1) <=> Count(q, "}") > Count(q, "{")
  <2>1. SubSeq(q, 1, n + 1) = q
    BY <1>3, SubSeqFull DEF Strip
  <2> QED BY <2>1 DEF OverclosedAt
<1>7. n + 1 \in 1..(n + 1)
  OBVIOUS
<1>8. Overclosed(q) <=> \E i \in 1..(n + 1) : OverclosedAt(q, i)
  BY <1>3, OverclosedIs
<1>9. Overclosed(R) <=> \E i \in 1..n : OverclosedAt(R, i)
  BY <1>1, OverclosedIs
<1> QED BY <1>2, <1>4, <1>5, <1>6, <1>7, <1>8, <1>9

LEMMA MarksDiffer ==
    /\ <<";">> # <<"{">> /\ <<";">> # <<"}">> /\ <<"{">> # <<"}">>
    /\ \A x : x \in Marks <=> x \in {<<";">>, <<"{">>, <<"}">>}
<1>1. <<";">>[1] = ";" /\ <<"{">>[1] = "{" /\ <<"}">>[1] = "}"
  OBVIOUS
<1>2. \A x : x \in Marks <=> x \in {<<";">>, <<"{">>, <<"}">>}
  BY DEF Marks, Special
<1> QED BY <1>1, <1>2

-----------------------------------------------------------------------------
(* What Parse makes of one more token                                      *)

TypeOf(l) ==
    IF l = <<";">> THEN "STATEMENT_END"
    ELSE IF l = <<"{">> THEN "START_BLOCK"
    ELSE IF l = <<"}">> THEN "END_BLOCK"
    ELSE "NORMAL"

\* The type of the last token.
TypeAfter(R) == IF R = <<>> THEN "START" ELSE TypeOf(Last(R))

\* The tokens R are read and nothing else.
ParsedAs(R) ==
    /\ ~Misused(R)
    /\ last_token_type = TypeAfter(R)
    /\ config_stack = <<>> => Overclosed(R)
    /\ config_stack # <<>> =>
          /\ config_stack[1] = 1
          /\ ~Overclosed(R)
          /\ Count(R, "{") = Count(R, "}") + Len(config_stack) - 1
          /\ Prints(R)

LEMMA TypeOfIs ==
    ASSUME NEW l
    PROVE  /\ TypeOf(l) \in {"NORMAL", "STATEMENT_END", "START_BLOCK", "END_BLOCK"}
           /\ TypeOf(l) = "NORMAL" <=> l \notin Marks
           /\ TypeOf(l) = "STATEMENT_END" <=> l = <<";">>
           /\ TypeOf(l) = "START_BLOCK" <=> l = <<"{">>
           /\ TypeOf(l) = "END_BLOCK" <=> l = <<"}">>
<1>1. PICK a, b, c : a = <<";">> /\ b = <<"{">> /\ c = <<"}">>
  OBVIOUS
<1>2. a # b /\ a # c /\ b # c /\ (l \in Marks <=> l = a \/ l = b \/ l = c)
  BY <1>1, MarksDiffer
<1>3. TypeOf(l) = IF l = a THEN "STATEMENT_END" ELSE IF l = b THEN "START_BLOCK"
                  ELSE IF l = c THEN "END_BLOCK" ELSE "NORMAL"
  BY <1>1 DEF TypeOf
<1>4. /\ TypeOf(l) \in {"NORMAL", "STATEMENT_END", "START_BLOCK", "END_BLOCK"}
      /\ TypeOf(l) = "NORMAL" <=> l \notin Marks
      /\ TypeOf(l) = "STATEMENT_END" <=> l = a
      /\ TypeOf(l) = "START_BLOCK" <=> l = b
      /\ TypeOf(l) = "END_BLOCK" <=> l = c
  BY <1>2, <1>3
<1> QED BY <1>1, <1>4

LEMMA TypeAfterIs ==
    ASSUME NEW R
    PROVE  /\ TypeAfter(R) \in {"START", "NORMAL", "STATEMENT_END", "START_BLOCK", "END_BLOCK"}
           /\ TypeAfter(R) = "START" <=> R = <<>>
           /\ TypeAfter(R) = "NORMAL" <=> R # <<>> /\ Last(R) \notin Marks
           /\ TypeAfter(R) \in {"STATEMENT_END", "START_BLOCK", "END_BLOCK"} <=> R # <<>> /\ Last(R) \in Marks
           /\ TypeAfter(R) \in {"STATEMENT_END", "END_BLOCK"} <=> R # <<>> /\ Last(R) \in {<<";">>, <<"}">>}
<1>1. CASE R = <<>>
  BY <1>1 DEF TypeAfter
<1>2. CASE R # <<>>
  <2>1. PICK l : l = Last(R)
    OBVIOUS
  <2>2. TypeAfter(R) = TypeOf(l)
    BY <1>2, <2>1 DEF TypeAfter
  <2>3. PICK t : t = TypeOf(l)
    OBVIOUS
  <2>4. /\ t \in {"NORMAL", "STATEMENT_END", "START_BLOCK", "END_BLOCK"}
        /\ t = "NORMAL" <=> l \notin Marks
        /\ t \in {"STATEMENT_END", "END_BLOCK"} <=> l \in {<<";">>, <<"}">>}
    BY <2>3, TypeOfIs
  <2>5. t \in {"STATEMENT_END", "START_BLOCK", "END_BLOCK"} <=> l \in Marks
    BY <2>4
  <2> QED BY <1>2, <2>1, <2>2, <2>3, <2>4, <2>5
<1> QED BY <1>1, <1>2

\* One turn of Parse, by cases.
LEMMA ParseIs ==
    ASSUME NEW type \in {"NORMAL", "STATEMENT_END", "START_BLOCK", "END_BLOCK", "EOF"}, NEW tok, Parse(type, tok)
    PROVE  /\ last_token_type' = type
           /\ ~Allowed(type) => outcome' = "false" /\ UNCHANGED <<config_stack, blocks>>
           /\ Allowed(type) /\ config_stack = <<>> /\ type # "STATEMENT_END" => outcome' = "undefined" /\ UNCHANGED <<config_stack, blocks>>
           /\ Allowed(type) /\ type = "STATEMENT_END" => UNCHANGED <<config_stack, blocks, outcome>>
           /\ Allowed(type) /\ config_stack # <<>> =>
                 /\ type = "NORMAL" => AddToken(tok)
                 /\ type = "START_BLOCK" => OpenBlock
                 /\ type = "END_BLOCK" => config_stack' = Front(config_stack) /\ UNCHANGED <<blocks, outcome>>
                 /\ type = "EOF" => PopAtEnd
<1>1. type # "COMMENT"
  OBVIOUS
<1>2. last_token_type' = type
  BY <1>1 DEF Parse
<1>3. ~Allowed(type) => outcome' = "false" /\ UNCHANGED <<config_stack, blocks>>
  BY <1>1 DEF Parse
<1>4. Allowed(type) => IF config_stack = <<>> /\ type # "STATEMENT_END" THEN Undefined
             ELSE CASE type = "NORMAL"        -> AddToken(tok)
                    [] type = "START_BLOCK"   -> OpenBlock
                    [] type = "END_BLOCK"     -> /\ config_stack' = Front(config_stack)
                                                 /\ UNCHANGED <<blocks, outcome>>
                    [] type = "EOF"           -> PopAtEnd
                    [] type = "STATEMENT_END" -> UNCHANGED <<config_stack, blocks, outcome>>
  BY <1>1 DEF Parse
<1>5. Allowed(type) /\ config_stack = <<>> /\ type # "STATEMENT_END" => Undefined
  BY <1>4
<1>6. ASSUME Allowed(type), config_stack # <<>> \/ type = "STATEMENT_END"
      PROVE  /\ type = "NORMAL" => AddToken(tok)
             /\ type = "START_BLOCK" => OpenBlock
             /\ type = "END_BLOCK" => config_stack' = Front(config_stack) /\ UNCHANGED <<blocks, outcome>>
             /\ type = "EOF" => PopAtEnd
             /\ type = "STATEMENT_END" => UNCHANGED <<config_stack, blocks, outcome>>
  <2>1. CASE type = "NORMAL"
    BY <1>4, <1>6, <2>1
  <2>2. CASE type = "START_BLOCK"
    BY <1>4, <1>6, <2>2
  <2>3. CASE type = "END_BLOCK"
    BY <1>4, <1>6, <2>3
  <2>4. CASE type = "EOF"
    BY <1>4, <1>6, <2>4
  <2>5. CASE type = "STATEMENT_END"
    BY <1>4, <1>6, <2>5
  <2> QED BY <2>1, <2>2, <2>3, <2>4, <2>5
<1> QED BY <1>2, <1>3, <1>5, <1>6 DEF Undefined

\* The token Q ends with, after R, is taken, or it is an error.
Taken(Q) ==
    \/ outcome' = "parsing" /\ ParsedAs(Q)'
    \/ outcome' = "false" /\ Misused(Q)
    \/ outcome' = "undefined" /\ Overclosed(Q)

LEMMA TakeFacts ==
    ASSUME NEW R \in Strip, NEW l \in Lexeme, NEW Q, Q = Append(R, l)
    PROVE  /\ Q \in Strip /\ Q # <<>> /\ Leads(R, Q) /\ Q = Then(R, <<l>>)
           /\ TypeAfter(Q) = TypeOf(l)
           /\ Misused(Q) <=> Misused(R) \/ Mismatched(R, l)
           /\ Overclosed(R) => Overclosed(Q)
           /\ Overclosed(Q) => Overclosed(R) \/ Count(Q, "}") > Count(Q, "{")
           /\ Count(Q, "}") > Count(Q, "{") => Overclosed(Q)
           /\ Count(R, "{") \in Nat /\ Count(R, "}") \in Nat
           /\ Count(Q, "{") = IF l = <<"{">> THEN Count(R, "{") + 1 ELSE Count(R, "{")
           /\ Count(Q, "}") = IF l = <<"}">> THEN Count(R, "}") + 1 ELSE Count(R, "}")
<1>1. Q \in Strip /\ Q # <<>> /\ Leads(R, Q) /\ Last(Q) = l
  BY AppendFacts
<1>2. Q = Then(R, <<l>>)
  BY AppendIsThen
<1>3. TypeAfter(Q) = TypeOf(l)
  BY <1>1 DEF TypeAfter
<1>4. /\ Count(R, "{") \in Nat /\ Count(R, "}") \in Nat
      /\ Count(Q, "{") = IF l = <<"{">> THEN Count(R, "{") + 1 ELSE Count(R, "{")
      /\ Count(Q, "}") = IF l = <<"}">> THEN Count(R, "}") + 1 ELSE Count(R, "}")
  BY CountType, CountMore
<1>5. Misused(Q) <=> Misused(R) \/ Mismatched(R, l)
  BY MisusedMore
<1>6. Overclosed(Q) <=> Overclosed(R) \/ Count(Q, "}") > Count(Q, "{")
  BY OverclosedMore
<1> QED BY <1>1, <1>2, <1>3, <1>4, <1>5, <1>6

\* The marks that do not match, by what is before them.
LEMMA MismatchedIs ==
    ASSUME NEW R, NEW l
    PROVE  /\ l \notin Marks => ~Mismatched(R, l)
           /\ l \in {<<";">>, <<"{">>} => (Mismatched(R, l) <=> TypeAfter(R) # "NORMAL")
           /\ l = <<"}">> => (Mismatched(R, l) <=> TypeAfter(R) \notin {"STATEMENT_END", "START_BLOCK", "END_BLOCK"})
<1>1. PICK a, b, c : a = <<";">> /\ b = <<"{">> /\ c = <<"}">>
  OBVIOUS
<1>2. a # b /\ a # c /\ b # c /\ (l \in Marks <=> l = a \/ l = b \/ l = c)
  BY <1>1, MarksDiffer
<1>3. PICK e, p, t : e = <<>> /\ p = Last(R) /\ t = TypeAfter(R)
  OBVIOUS
<1>4. Mismatched(R, l) <=> \/ (l = a \/ l = b) /\ (R = e \/ p \in Marks)
                           \/ l = c /\ (R = e \/ p \notin Marks)
  BY <1>1, <1>3, Zenon DEF Mismatched, Wrong
<1>5. /\ t = "NORMAL" <=> R # e /\ p \notin Marks
      /\ t \in {"STATEMENT_END", "START_BLOCK", "END_BLOCK"} <=> R # e /\ p \in Marks
  BY <1>3, TypeAfterIs
<1>6. /\ l \notin Marks => ~Mismatched(R, l)
      /\ l = a \/ l = b => (Mismatched(R, l) <=> t # "NORMAL")
      /\ l = c => (Mismatched(R, l) <=> t \notin {"STATEMENT_END", "START_BLOCK", "END_BLOCK"})
  BY <1>2, <1>4, <1>5
<1> QED BY <1>1, <1>3, <1>6

LEMMA StackLength ==
    ASSUME TInv, config_stack # <<>>
    PROVE  Len(config_stack) \in Nat /\ Len(config_stack) >= 1
<1>1. config_stack \in Seq(1..Len(blocks))
  BY DEF TInv, TypeOK
<1>2. Len(config_stack) \in Nat /\ Len(config_stack) # 0
  BY <1>1, EmptySeq, LenProperties
<1> QED BY <1>2

\* a opened and b closed blocks, K of them still open with the file's own.
Balance(a, b, K) == a \in Nat /\ b \in Nat /\ K \in Nat /\ K >= 1 /\ a = b + K - 1

LEMMA Counting ==
    ASSUME NEW a, NEW b, NEW K, Balance(a, b, K)
    PROVE  /\ ~(b > a) /\ Balance(a + 1, b, K + 1) /\ ~(b > a + 1)
           /\ K = 1 => b + 1 > a
           /\ K # 1 => ~(b + 1 > a) /\ Balance(a, b + 1, K - 1)
           /\ a = b <=> K = 1
BY DEF Balance

LEMMA TakeWord ==
    ASSUME TInv, TInv', OnThePath, outcome = "parsing", NEW R \in Strip, ParsedAs(R),
           NEW l \in Lexeme, l \notin Marks, Parse("NORMAL", l), NEW Q, Q = Append(R, l)
    PROVE  Taken(Q)
<1>1. /\ Q = Then(R, <<l>>) /\ TypeAfter(Q) = TypeOf(l)
      /\ Misused(Q) <=> Misused(R) \/ Mismatched(R, l)
      /\ Overclosed(R) => Overclosed(Q)
      /\ Overclosed(Q) => Overclosed(R) \/ Count(Q, "}") > Count(Q, "{")
      /\ Count(R, "{") \in Nat /\ Count(R, "}") \in Nat
      /\ Count(Q, "{") = IF l = <<"{">> THEN Count(R, "{") + 1 ELSE Count(R, "{")
      /\ Count(Q, "}") = IF l = <<"}">> THEN Count(R, "}") + 1 ELSE Count(R, "}")
  BY TakeFacts
<1>2. l # <<"{">> /\ l # <<"}">>
  BY MarksDiffer
<1>3. TypeAfter(Q) = "NORMAL" /\ ~Misused(Q)
  BY <1>1, MismatchedIs, TypeOfIs DEF ParsedAs
<1>4. Allowed("NORMAL")
  <2>1. last_token_type # "EOF"
    BY TypeAfterIs DEF ParsedAs
  <2> QED BY <2>1 DEF Allowed
<1>5. last_token_type' = "NORMAL"
  BY ParseIs
<1>6. CASE config_stack = <<>>
  <2>1. outcome' = "undefined" /\ Overclosed(R)
    BY <1>4, <1>6, ParseIs DEF ParsedAs
  <2> QED BY <1>1, <2>1 DEF Taken
<1>7. CASE config_stack # <<>>
  <2>1. AddToken(l)
    BY <1>4, <1>7, ParseIs
  <2>2. config_stack' = config_stack /\ outcome' = "parsing"
    BY <2>1 DEF AddToken
  <2>3. /\ config_stack[1] = 1 /\ ~Overclosed(R) /\ Prints(R)
        /\ Count(R, "{") = Count(R, "}") + Len(config_stack) - 1
    BY <1>7 DEF ParsedAs
  <2>4. Prints(Q)'
    BY <1>1, <1>5, <1>7, <2>1, <2>3, WordPrints DEF Strip
  <2>5. Count(Q, "{") = Count(Q, "}") + Len(config_stack) - 1 /\ ~Overclosed(Q)
    <3>1. PICK a, b, K : a = Count(R, "{") /\ b = Count(R, "}") /\ K = Len(config_stack)
      OBVIOUS
    <3>2. K \in Nat /\ K >= 1
      BY <1>7, <3>1, StackLength
    <3>3. Count(Q, "{") = a /\ Count(Q, "}") = b /\ a \in Nat /\ b \in Nat
      BY <1>1, <1>2, <3>1
    <3>4. a = b + K - 1
      BY <2>3, <3>1
    <3>5. ~(b > a)
      BY <3>2, <3>3, <3>4, Counting DEF Balance
    <3> QED BY <1>1, <2>3, <3>1, <3>3, <3>4, <3>5
  <2>6. ParsedAs(Q)'
    BY <1>3, <1>5, <1>7, <2>2, <2>3, <2>4, <2>5 DEF ParsedAs
  <2> QED BY <2>2, <2>6 DEF Taken
<1> QED BY <1>6, <1>7

LEMMA TakeSemicolon ==
    ASSUME TInv, TInv', OnThePath, outcome = "parsing", NEW R \in Strip, ParsedAs(R),
           NEW l \in Lexeme, TypeOf(l) = "STATEMENT_END", NEW tok, Parse("STATEMENT_END", tok), NEW Q, Q = Append(R, l)
    PROVE  Taken(Q)
<1>1. /\ Q = Then(R, <<l>>) /\ TypeAfter(Q) = TypeOf(l)
      /\ Misused(Q) <=> Misused(R) \/ Mismatched(R, l)
      /\ Overclosed(R) => Overclosed(Q)
      /\ Overclosed(Q) => Overclosed(R) \/ Count(Q, "}") > Count(Q, "{")
      /\ Count(R, "{") \in Nat /\ Count(R, "}") \in Nat
      /\ Count(Q, "{") = IF l = <<"{">> THEN Count(R, "{") + 1 ELSE Count(R, "{")
      /\ Count(Q, "}") = IF l = <<"}">> THEN Count(R, "}") + 1 ELSE Count(R, "}")
  BY TakeFacts
<1>2. l # <<"{">> /\ l # <<"}">> /\ l = <<";">>
  <2>1. l = <<";">>
    BY TypeOfIs
  <2> QED BY <2>1, MarksDiffer
<1>3. TypeAfter(Q) = "STATEMENT_END" /\ (Mismatched(R, l) <=> last_token_type # "NORMAL")
  BY <1>1, <1>2, MismatchedIs DEF ParsedAs
<1>4. Allowed("STATEMENT_END") <=> last_token_type = "NORMAL"
  BY DEF Allowed
<1>5. last_token_type' = "STATEMENT_END"
  BY ParseIs
<1>6. CASE last_token_type # "NORMAL"
  <2>1. outcome' = "false"
    BY <1>4, <1>6, ParseIs
  <2> QED BY <1>1, <1>3, <1>6, <2>1 DEF Taken
<1>7. CASE last_token_type = "NORMAL"
  <2>1. config_stack' = config_stack /\ blocks' = blocks /\ outcome' = "parsing"
    BY <1>4, <1>7, ParseIs
  <2>2. ~Misused(Q)
    BY <1>1, <1>3, <1>7 DEF ParsedAs
  <2>3. CASE config_stack = <<>>
    <3>1. Overclosed(Q)
      BY <1>1, <2>3 DEF ParsedAs
    <3>2. ParsedAs(Q)'
      BY <1>3, <1>5, <2>1, <2>2, <2>3, <3>1 DEF ParsedAs
    <3> QED BY <2>1, <3>2 DEF Taken
  <2>4. CASE config_stack # <<>>
    <3>1. /\ config_stack[1] = 1 /\ ~Overclosed(R) /\ Prints(R)
          /\ Count(R, "{") = Count(R, "}") + Len(config_stack) - 1
      BY <2>4 DEF ParsedAs
    <3>2. Prints(Q)'
      <4>1. Q = Then(R, Semi) /\ R \in Seq(Lexeme)
        BY <1>1, <1>2 DEF Semi, Strip
      <4> QED BY <1>5, <1>7, <2>1, <2>4, <3>1, <4>1, EndPrints
    <3>3. Count(Q, "{") = Count(Q, "}") + Len(config_stack) - 1 /\ ~Overclosed(Q)
      <4>1. PICK a, b, K : a = Count(R, "{") /\ b = Count(R, "}") /\ K = Len(config_stack)
        OBVIOUS
      <4>2. K \in Nat /\ K >= 1
        BY <2>4, <4>1, StackLength
      <4>3. Count(Q, "{") = a /\ Count(Q, "}") = b /\ a \in Nat /\ b \in Nat
        BY <1>1, <1>2, <4>1
      <4>4. a = b + K - 1
        BY <3>1, <4>1
      <4>5. ~(b > a)
        BY <4>2, <4>3, <4>4, Counting DEF Balance
      <4> QED BY <1>1, <3>1, <4>1, <4>3, <4>4, <4>5
    <3>4. ParsedAs(Q)'
      BY <1>3, <1>5, <2>1, <2>2, <2>4, <3>1, <3>2, <3>3 DEF ParsedAs
    <3> QED BY <2>1, <3>4 DEF Taken
  <2> QED BY <2>3, <2>4
<1> QED BY <1>6, <1>7

LEMMA TakeOpen ==
    ASSUME TInv, TInv', OnThePath, outcome = "parsing", NEW R \in Strip, ParsedAs(R),
           NEW l \in Lexeme, TypeOf(l) = "START_BLOCK", NEW tok, Parse("START_BLOCK", tok), NEW Q, Q = Append(R, l)
    PROVE  Taken(Q)
<1>1. /\ Q = Then(R, <<l>>) /\ TypeAfter(Q) = TypeOf(l)
      /\ Misused(Q) <=> Misused(R) \/ Mismatched(R, l)
      /\ Overclosed(R) => Overclosed(Q)
      /\ Overclosed(Q) => Overclosed(R) \/ Count(Q, "}") > Count(Q, "{")
      /\ Count(R, "{") \in Nat /\ Count(R, "}") \in Nat
      /\ Count(Q, "{") = IF l = <<"{">> THEN Count(R, "{") + 1 ELSE Count(R, "{")
      /\ Count(Q, "}") = IF l = <<"}">> THEN Count(R, "}") + 1 ELSE Count(R, "}")
  BY TakeFacts
<1>2. l # <<"}">> /\ l = <<"{">>
  <2>1. l = <<"{">>
    BY TypeOfIs
  <2> QED BY <2>1, MarksDiffer
<1>3. TypeAfter(Q) = "START_BLOCK" /\ (Mismatched(R, l) <=> last_token_type # "NORMAL")
  BY <1>1, <1>2, MismatchedIs DEF ParsedAs
<1>4. Allowed("START_BLOCK") <=> last_token_type = "NORMAL"
  BY DEF Allowed
<1>5. last_token_type' = "START_BLOCK"
  BY ParseIs
<1>6. CASE last_token_type # "NORMAL"
  <2>1. outcome' = "false"
    BY <1>4, <1>6, ParseIs
  <2> QED BY <1>1, <1>3, <1>6, <2>1 DEF Taken
<1>7. CASE last_token_type = "NORMAL"
  <2>2. ~Misused(Q)
    BY <1>1, <1>3, <1>7 DEF ParsedAs
  <2>3. CASE config_stack = <<>>
    <3>1. outcome' = "undefined" /\ Overclosed(Q)
      BY <1>1, <1>4, <1>7, <2>3, ParseIs DEF ParsedAs
    <3> QED BY <3>1 DEF Taken
  <2>4. CASE config_stack # <<>>
    <3>0. OpenBlock
      BY <1>4, <1>7, <2>4, ParseIs
    <3>1. /\ config_stack[1] = 1 /\ ~Overclosed(R) /\ Prints(R)
          /\ Count(R, "{") = Count(R, "}") + Len(config_stack) - 1
      BY <2>4 DEF ParsedAs
    <3>2. Prints(Q)'
      <4>1. Q = Then(R, Open) /\ R \in Seq(Lexeme)
        BY <1>1, <1>2 DEF Open, Strip
      <4> QED BY <1>5, <1>7, <2>4, <3>0, <3>1, <4>1, OpenPrints
    <3>3. /\ outcome' = "parsing" /\ config_stack' # <<>> /\ config_stack'[1] = 1
          /\ Len(config_stack') = Len(config_stack) + 1
      <4>1. config_stack' = Append(config_stack, Len(blocks) + 1) /\ outcome' = outcome
        BY <3>0 DEF OpenBlock
      <4>2. PICK c, d, n : c = config_stack /\ d = config_stack' /\ n = Len(blocks) + 1
        OBVIOUS
      <4>3. c \in Seq(1..Len(blocks)) /\ d = Append(c, n) /\ Len(c) \in Nat /\ Len(c) >= 1
        BY <2>4, <4>1, <4>2, StackLength DEF TInv, TypeOK
      <4>4. Len(d) = Len(c) + 1 /\ \A i \in 1..Len(c) : d[i] = c[i]
        BY <4>3, LastIs
      <4>5. 1 \in 1..Len(c) /\ Len(d) # 0
        BY <4>3, <4>4
      <4>6. d # <<>>
        <5>1. Len(<<>>) = 0
          OBVIOUS
        <5> QED BY <4>5, <5>1
      <4> QED BY <3>1, <4>1, <4>2, <4>4, <4>5, <4>6
    <3>4. Count(Q, "{") = Count(Q, "}") + Len(config_stack') - 1 /\ ~Overclosed(Q)
      <4>1. PICK a, b, K : a = Count(R, "{") /\ b = Count(R, "}") /\ K = Len(config_stack)
        OBVIOUS
      <4>2. K \in Nat /\ K >= 1
        BY <2>4, <4>1, StackLength
      <4>3. Count(Q, "{") = a + 1 /\ Count(Q, "}") = b /\ a \in Nat /\ b \in Nat
        BY <1>1, <1>2, <4>1
      <4>4. a = b + K - 1
        BY <3>1, <4>1
      <4>5. Balance(a, b, K)
        BY <4>2, <4>3, <4>4 DEF Balance
      <4>6. Balance(a + 1, b, K + 1) /\ ~(b > a + 1)
        BY <4>5, Counting
      <4>7. a + 1 = b + (K + 1) - 1
        BY <4>6 DEF Balance
      <4> QED BY <1>1, <3>1, <3>3, <4>1, <4>3, <4>6, <4>7
    <3>5. ParsedAs(Q)'
      BY <1>3, <1>5, <2>2, <3>2, <3>3, <3>4 DEF ParsedAs
    <3> QED BY <3>3, <3>5 DEF Taken
  <2> QED BY <2>3, <2>4
<1> QED BY <1>6, <1>7

LEMMA TakeShut ==
    ASSUME TInv, TInv', OnThePath, outcome = "parsing", NEW R \in Strip, ParsedAs(R),
           NEW l \in Lexeme, TypeOf(l) = "END_BLOCK", NEW tok, Parse("END_BLOCK", tok), NEW Q, Q = Append(R, l)
    PROVE  Taken(Q)
<1>1. /\ Q = Then(R, <<l>>) /\ TypeAfter(Q) = TypeOf(l)
      /\ Misused(Q) <=> Misused(R) \/ Mismatched(R, l)
      /\ Overclosed(R) => Overclosed(Q)
      /\ Overclosed(Q) => Overclosed(R) \/ Count(Q, "}") > Count(Q, "{")
      /\ Count(Q, "}") > Count(Q, "{") => Overclosed(Q)
      /\ Count(R, "{") \in Nat /\ Count(R, "}") \in Nat
      /\ Count(Q, "{") = IF l = <<"{">> THEN Count(R, "{") + 1 ELSE Count(R, "{")
      /\ Count(Q, "}") = IF l = <<"}">> THEN Count(R, "}") + 1 ELSE Count(R, "}")
  BY TakeFacts
<1>2. l # <<"{">> /\ l = <<"}">>
  <2>1. l = <<"}">>
    BY TypeOfIs
  <2> QED BY <2>1, MarksDiffer
<1>3. /\ TypeAfter(Q) = "END_BLOCK"
      /\ Mismatched(R, l) <=> last_token_type \notin {"STATEMENT_END", "START_BLOCK", "END_BLOCK"}
  BY <1>1, <1>2, MismatchedIs DEF ParsedAs
<1>4. Allowed("END_BLOCK") <=> last_token_type \in {"STATEMENT_END", "START_BLOCK", "END_BLOCK"}
  BY DEF Allowed
<1>5. last_token_type' = "END_BLOCK"
  BY ParseIs
<1>6. CASE last_token_type \notin {"STATEMENT_END", "START_BLOCK", "END_BLOCK"}
  <2>1. outcome' = "false"
    BY <1>4, <1>6, ParseIs
  <2> QED BY <1>1, <1>3, <1>6, <2>1 DEF Taken
<1>7. CASE last_token_type \in {"STATEMENT_END", "START_BLOCK", "END_BLOCK"}
  <2>2. ~Misused(Q)
    BY <1>1, <1>3, <1>7 DEF ParsedAs
  <2>3. CASE config_stack = <<>>
    <3>1. outcome' = "undefined" /\ Overclosed(Q)
      BY <1>1, <1>4, <1>7, <2>3, ParseIs DEF ParsedAs
    <3> QED BY <3>1 DEF Taken
  <2>4. CASE config_stack # <<>>
    <3>0. config_stack' = Front(config_stack) /\ blocks' = blocks /\ outcome' = "parsing"
      BY <1>4, <1>7, <2>4, ParseIs
    <3>1. /\ config_stack[1] = 1 /\ ~Overclosed(R) /\ Prints(R)
          /\ Count(R, "{") = Count(R, "}") + Len(config_stack) - 1
      BY <2>4 DEF ParsedAs
    <3>2. PICK c, d, K : c = config_stack /\ d = config_stack' /\ K = Len(c)
      OBVIOUS
    <3>3. /\ c \in Seq(1..Len(blocks)) /\ c # <<>> /\ d = Front(c)
      BY <2>4, <3>0, <3>2 DEF TInv, TypeOK
    <3>4. /\ d \in Seq(1..Len(blocks)) /\ K \in Nat \ {0} /\ Len(d) = K - 1
          /\ \A i \in 1..(K - 1) : d[i] = c[i]
      BY <3>2, <3>3, FrontIs, SMTT(30)
    <3>5. PICK a, b : a = Count(R, "{") /\ b = Count(R, "}")
      OBVIOUS
    <3>6. Count(Q, "{") = a /\ Count(Q, "}") = b + 1 /\ a \in Nat /\ b \in Nat
      BY <1>1, <1>2, <3>5
    <3>7. Balance(a, b, K)
      <4>1. a = b + K - 1
        BY <3>1, <3>2, <3>5
      <4>2. K \in Nat /\ K >= 1
        BY <2>4, <3>2, StackLength
      <4> QED BY <3>6, <4>1, <4>2 DEF Balance
    <3>8. /\ K = 1 => b + 1 > a
          /\ K # 1 => ~(b + 1 > a) /\ a = (b + 1) + (K - 1) - 1
      <4>1. (K = 1 => b + 1 > a) /\ (K # 1 => ~(b + 1 > a) /\ Balance(a, b + 1, K - 1))
        BY <3>7, Counting
      <4> QED BY <4>1 DEF Balance
    <3>9. CASE K = 1
      <4>1. d = <<>>
        <5>1. Len(d) = 0
          BY <3>4, <3>9
        <5> QED BY <3>4, <5>1, EmptySeq
      <4>2. Overclosed(Q)
        BY <1>1, <3>6, <3>8, <3>9
      <4>3. ParsedAs(Q)'
        BY <1>3, <1>5, <2>2, <3>2, <4>1, <4>2 DEF ParsedAs
      <4> QED BY <3>0, <4>3 DEF Taken
    <3>10. CASE K # 1
      <4>1. Prints(Q)'
        <5>1. Q = Then(R, Shut) /\ R \in Seq(Lexeme)
          BY <1>1, <1>2 DEF Shut, Strip
        <5>2. last_token_type # "NORMAL" /\ Len(config_stack) # 1
          BY <1>7, <3>2, <3>10
        <5> QED BY <1>5, <2>4, <3>0, <3>1, <5>1, <5>2, ShutPrints
      <4>2. ~Overclosed(Q) /\ Count(Q, "{") = Count(Q, "}") + Len(d) - 1
        BY <1>1, <3>1, <3>4, <3>6, <3>8, <3>10
      <4>3. d[1] = 1
        <5>1. 1 \in 1..(K - 1)
          BY <3>4, <3>10
        <5> QED BY <3>1, <3>2, <3>4, <5>1
      <4>4. ParsedAs(Q)'
        <5>1. d # <<>>
          <6>1. Len(d) # 0 /\ Len(<<>>) = 0
            BY <3>4, <3>10
          <6> QED BY <6>1
        <5> QED BY <1>3, <1>5, <2>2, <3>2, <4>1, <4>2, <4>3, <5>1 DEF ParsedAs
      <4> QED BY <3>0, <4>4 DEF Taken
    <3> QED BY <3>9, <3>10
  <2> QED BY <2>3, <2>4
<1> QED BY <1>6, <1>7

LEMMA Take ==
    ASSUME TInv, TInv', OnThePath, outcome = "parsing", NEW R \in Strip, ParsedAs(R),
           NEW l \in Lexeme, NEW type, type = TypeOf(l), NEW tok, type = "NORMAL" => tok = l,
           Parse(type, tok), NEW Q, Q = Append(R, l)
    PROVE  Taken(Q)
<1>1. CASE type = "NORMAL"
  <2>1. l \notin Marks /\ tok = l
    BY <1>1, TypeOfIs
  <2> QED BY <1>1, <2>1, TakeWord
<1>2. CASE type = "STATEMENT_END"
  BY <1>2, TakeSemicolon
<1>3. CASE type = "START_BLOCK"
  BY <1>3, TakeOpen
<1>4. CASE type = "END_BLOCK"
  BY <1>4, TakeShut
<1> QED BY <1>1, <1>2, <1>3, <1>4, TypeOfIs

-----------------------------------------------------------------------------
(* Lexemes, whole or not                                                   *)

\* A string or a comment that the file ends within.
Cut(l) ==
    /\ l \in Lexeme /\ l # <<>>
    /\ \/ l[1] \in Quotes /\ \A i \in 2..Len(l) : l[i] # l[1]
       \/ IsComment(l) /\ \A i \in 2..Len(l) : l[i] \notin {"\n", "\r"}

\* What closes a string or a comment.
EndsOf(l) == IF l[1] \in Quotes THEN {l[1]} ELSE {"\n", "\r"}

LEMMA CharsApart ==
    ASSUME NEW c \in Letters
    PROVE  c \notin Blank /\ c \notin Quotes /\ c \notin Special /\ c # "#"
BY ConfigParserAssumption

EndsWhere(l) ==
    /\ Whole(l) <=> ClosedBy(l, EndsOf(l))
    /\ Cut(l) <=> \A i \in 2..Len(l) : l[i] \notin EndsOf(l)

LEMMA LexemeIs ==
    ASSUME NEW l, Whole(l) \/ Cut(l)
    PROVE  /\ l \in Lexeme /\ l # <<>> /\ Len(l) \in Nat /\ Len(l) >= 1
           /\ l[1] \in Letters \cup Quotes \cup Special \cup {"#"}
           /\ IsWord(l) => l \in Seq(Letters) /\ ~Cut(l) /\ l \notin Marks /\ ~IsComment(l)
           /\ l \in Marks <=> l[1] \in Special
           /\ l \in Marks => Len(l) = 1 /\ l = <<l[1]>> /\ Whole(l) /\ ~IsComment(l) /\ ~IsWord(l)
           /\ l[1] \in Quotes \cup {"#"} => EndsWhere(l)
<1>1. l \in Lexeme /\ l # <<>>
  <2>1. CASE l \in Seq(Letters) \ {<<>>}
    <3>1. Letters \subseteq Chars
      BY DEF Chars
    <3>2. Seq(Letters) \subseteq Seq(Chars)
      BY <3>1, SeqMonotonic
    <3> QED BY <2>1, <3>2 DEF Lexeme
  <2>2. CASE l \in Marks
    <3>1. l = <<";">> \/ l = <<"{">> \/ l = <<"}">>
      BY <2>2, MarksDiffer
    <3>2. l \in Lexeme /\ Len(l) = 1
      BY <3>1, MarksType DEF Lexeme
    <3> QED BY <3>2, EmptySeq
  <2>3. l \in Seq(Letters) \ {<<>>} \/ l \in Marks \/ (l \in Lexeme /\ l # <<>>)
    <3>1. CASE Whole(l)
      <4> HIDE DEF Marks, Lexeme
      <4> QED BY <3>1, Zenon DEF Whole
    <3>2. CASE Cut(l)
      <4> HIDE DEF Marks, Lexeme
      <4> QED BY <3>2, Zenon DEF Cut
    <3> QED BY <3>1, <3>2
  <2> QED BY <2>1, <2>2, <2>3
<1>2. Len(l) \in Nat /\ Len(l) >= 1
  <2>1. Len(l) \in Nat /\ Len(l) # 0
    BY <1>1, EmptySeq, LenProperties DEF Lexeme
  <2> QED BY <2>1
<1>3. 1 \in 1..Len(l)
  BY <1>2
<1>4. l \in Seq(Letters) => l[1] \in Letters
  BY <1>3, ElementOfSeq
<1>5. l \in Marks => Len(l) = 1 /\ l = <<l[1]>> /\ l[1] \in Special
  <2> SUFFICES ASSUME l \in Marks PROVE Len(l) = 1 /\ l = <<l[1]>> /\ l[1] \in Special
    OBVIOUS
  <2>1. PICK c \in Special : l = <<c>>
    BY DEF Marks
  <2>2. Len(l) = 1 /\ l[1] = c
    BY <2>1
  <2> QED BY <2>1, <2>2
<1>6. /\ Whole(l) <=> \/ l \in Seq(Letters) \/ l \in Marks
                      \/ l[1] \in Quotes /\ ClosedBy(l, {l[1]})
                      \/ l[1] = "#" /\ ClosedBy(l, {"\n", "\r"})
      /\ Cut(l) <=> \/ l[1] \in Quotes /\ \A i \in 2..Len(l) : l[i] # l[1]
                    \/ l[1] = "#" /\ \A i \in 2..Len(l) : l[i] \notin {"\n", "\r"}
  BY <1>1 DEF Whole, Cut, IsComment
<1>7. PICK c : c = l[1]
  OBVIOUS
<1>8. /\ c \in Letters => c \notin Quotes /\ c \notin Special /\ c # "#"
      /\ c \in Special => c \notin Quotes /\ c # "#"
      /\ "#" \notin Quotes
  BY CharsApart DEF Special, Quotes
<1>9. c \in Letters \cup Quotes \cup Special \cup {"#"}
  BY <1>4, <1>5, <1>6, <1>7
<1>10. c \in Special => l \in Marks
  BY <1>4, <1>6, <1>7, <1>8
<1>11. c \in Letters => l \in Seq(Letters) /\ ~Cut(l) /\ l \notin Marks
  BY <1>5, <1>6, <1>7, <1>8
<1>12. c \in Quotes \/ c = "#" => l \notin Seq(Letters) /\ l \notin Marks
  BY <1>4, <1>5, <1>7, <1>8
<1>13. ASSUME c \in Quotes
       PROVE EndsWhere(l)
  <2>1. EndsOf(l) = {c} /\ c # "#"
    BY <1>7, <1>8, <1>13 DEF EndsOf
  <2>2. /\ Whole(l) <=> ClosedBy(l, EndsOf(l))
        /\ Cut(l) <=> \A i \in 2..Len(l) : l[i] \notin EndsOf(l)
    BY <1>6, <1>7, <1>12, <1>13, <2>1
  <2> QED BY <2>2 DEF EndsWhere
<1>14. ASSUME c = "#"
       PROVE EndsWhere(l)
  <2>1. EndsOf(l) = {"\n", "\r"} /\ c \notin Quotes
    BY <1>7, <1>8, <1>14 DEF EndsOf
  <2>2. /\ Whole(l) <=> ClosedBy(l, EndsOf(l))
        /\ Cut(l) <=> \A i \in 2..Len(l) : l[i] \notin EndsOf(l)
    BY <1>6, <1>7, <1>12, <1>14, <2>1
  <2> QED BY <2>2 DEF EndsWhere
<1>15. c \in Quotes \cup {"#"} => EndsWhere(l)
  BY <1>13, <1>14
<1>16. IsWord(l) => l \in Seq(Letters) /\ ~Cut(l) /\ l \notin Marks /\ ~IsComment(l)
  BY <1>7, <1>8, <1>11 DEF IsWord, IsComment
<1>17. l \in Marks => Whole(l) /\ ~IsComment(l) /\ ~IsWord(l)
  BY <1>5, <1>6, <1>7, <1>8 DEF IsWord, IsComment
<1>21. l \in Marks => Len(l) = 1 /\ l = <<l[1]>> /\ Whole(l) /\ ~IsComment(l) /\ ~IsWord(l)
  BY <1>5, <1>17, Zenon
<1>18. l[1] \in Letters \cup Quotes \cup Special \cup {"#"}
  BY <1>7, <1>9
<1>19. l \in Marks <=> l[1] \in Special
  BY <1>5, <1>7, <1>10
<1>20. l[1] \in Quotes \cup {"#"} => EndsWhere(l)
  BY <1>7, <1>15
<1> QED BY <1>1, <1>2, <1>16, <1>18, <1>19, <1>20, <1>21, Zenon

\* What ParseToken makes of a character.
LEMMA CharIs ==
    ASSUME NEW c, TypeOK
    PROVE  /\ state = "whitespace" =>
                 /\ c \notin Special => Completes(c) = ""
                 /\ c = "{" => Completes(c) = "START_BLOCK"
                 /\ c = "}" => Completes(c) = "END_BLOCK"
                 /\ c = ";" => Completes(c) = "STATEMENT_END"
                 /\ c = "#" => Following(c) = "comment"
                 /\ c \in Quotes => Following(c) = c
                 /\ c \in Blank => Following(c) = "whitespace"
                 /\ c \notin Blank \cup Quotes \cup {"#"} => Following(c) = "normal"
           /\ state # "whitespace" => Following(c) = state
           /\ state \in Quotes => Completes(c) = IF c = state THEN "NORMAL" ELSE ""
           /\ state = "comment" => Completes(c) = IF c \in {"\n", "\r"} THEN "COMMENT" ELSE ""
           /\ state = "normal" => Completes(c) = IF c \in {" ", "\t", "\n"} \cup Special THEN "NORMAL" ELSE ""
<1>1. ASSUME state = "whitespace"
      PROVE /\ c \notin Special => Completes(c) = ""
            /\ c = "{" => Completes(c) = "START_BLOCK"
            /\ c = "}" => Completes(c) = "END_BLOCK"
            /\ c = ";" => Completes(c) = "STATEMENT_END"
  BY <1>1 DEF Completes, Special, Quotes
<1>2. ASSUME state = "whitespace"
      PROVE /\ c = "#" => Following(c) = "comment"
            /\ c \in Quotes => Following(c) = c
            /\ c \in Blank => Following(c) = "whitespace"
            /\ c \notin Blank \cup Quotes \cup {"#"} => Following(c) = "normal"
  BY <1>2 DEF Following, Quotes, Blank
<1>3. state # "whitespace" => Following(c) = state
  BY DEF Following
<1>4. state \in Quotes => Completes(c) = IF c = state THEN "NORMAL" ELSE ""
  BY DEF Completes, Quotes
<1>5. state = "comment" => Completes(c) = IF c \in {"\n", "\r"} THEN "COMMENT" ELSE ""
  BY DEF Completes, Quotes
<1>6. state = "normal" => Completes(c) = IF c \in {" ", "\t", "\n"} \cup Special THEN "NORMAL" ELSE ""
  BY DEF Completes, Quotes
<1> QED BY <1>1, <1>2, <1>3, <1>4, <1>5, <1>6

Tok(c) == IF state \in Quotes THEN Append(value, c) ELSE value

\* What ParseToken changes.
LEMMA TokenSteps ==
    ASSUME ParseToken
    PROVE  /\ outcome = "parsing" /\ text # <<>> /\ UNCHANGED <<ended, file, phrases, server>>
           /\ Completes(Head(text)) = "" =>
                 /\ state' = Following(Head(text)) /\ text' = Tail(text)
                 /\ value' = IF Following(Head(text)) = "whitespace" THEN <<>> ELSE Append(value, Head(text))
                 /\ UNCHANGED <<last_token_type, config_stack, blocks, outcome>>
           /\ Completes(Head(text)) # "" =>
                 /\ Parse(Completes(Head(text)), Tok(Head(text)))
                 /\ state' = "whitespace" /\ value' = <<>>
                 /\ text' = IF Ungets THEN text ELSE Tail(text)
<1> USE DEF Tok
<1>1. outcome = "parsing" /\ text # <<>> /\ UNCHANGED <<ended, file, phrases, server>>
  BY DEF ParseToken
<1>2. Completes(Head(text)) = "" =>
                 /\ state' = Following(Head(text)) /\ text' = Tail(text)
                 /\ value' = IF Following(Head(text)) = "whitespace" THEN <<>> ELSE Append(value, Head(text))
                 /\ UNCHANGED <<last_token_type, config_stack, blocks, outcome>>
  BY DEF ParseToken
<1>3. Completes(Head(text)) # "" =>
                 /\ Parse(Completes(Head(text)), Tok(Head(text)))
                 /\ state' = "whitespace" /\ value' = <<>>
                 /\ text' = IF Ungets THEN text ELSE Tail(text)
  BY DEF ParseToken
<1> QED BY <1>1, <1>2, <1>3

-----------------------------------------------------------------------------
(* Where the reader stands                                                 *)

LEMMA JoinHead ==
    ASSUME NEW S, NEW s \in Seq(S), s # <<>>, NEW w \in Seq(S), NEW t, t = s \o w
    PROVE  /\ t \in Seq(S) /\ t # <<>> /\ Head(t) = Head(s) /\ Head(s) = s[1] /\ Head(s) \in S
           /\ Tail(s) \in Seq(S) /\ Tail(t) = Tail(s) \o w
<1>1. PICK m \in Nat : m = Len(s)
  BY LenProperties
<1>2. PICK n \in Nat : n = Len(w)
  BY LenProperties
<1>3. m >= 1
  BY <1>1, EmptySeq
<1>4. /\ t \in Seq(S) /\ Len(t) = m + n
      /\ \A i \in 1..(m + n) : t[i] = IF i <= m THEN s[i] ELSE w[i - m]
  BY <1>1, <1>2, ConcatProperties
<1>5. m + n # 0 /\ 1 \in 1..(m + n) /\ 1 <= m /\ 1 \in 1..m
  BY <1>3
<1>6. t # <<>> /\ t[1] = s[1] /\ s[1] \in S
  BY <1>1, <1>4, <1>5, EmptySeq, ElementOfSeq
<1>7. PICK a, b, c : a = Tail(s) /\ b = Tail(t) /\ c = a \o w
  OBVIOUS
<1>8. Head(s) = s[1] /\ a \in Seq(S) /\ Len(a) = m - 1 /\ \A i \in 1..(m - 1) : a[i] = s[i + 1]
  BY <1>1, <1>7, HeadTailProperties
<1>9. Head(t) = t[1] /\ b \in Seq(S) /\ Len(b) = m + n - 1 /\ \A i \in 1..(m + n - 1) : b[i] = t[i + 1]
  BY <1>4, <1>6, <1>7, HeadTailProperties
<1>10. PICK j \in Nat : j = m - 1
  BY <1>3
<1>11. /\ c \in Seq(S) /\ Len(c) = j + n
       /\ \A i \in 1..(j + n) : c[i] = IF i <= j THEN a[i] ELSE w[i - j]
  <2>1. Len(a) = j
    BY <1>8, <1>10
  <2>2. /\ a \o w \in Seq(S) /\ Len(a \o w) = Len(a) + Len(w)
        /\ \A i \in 1..(Len(a) + Len(w)) : (a \o w)[i] = IF i <= Len(a) THEN a[i] ELSE w[i - Len(a)]
    BY <1>8, ConcatProperties
  <2> QED BY <1>2, <1>7, <2>1, <2>2
<1>12. \A i \in 1..(j + n) : /\ i \in 1..(m + n - 1) /\ i + 1 \in 1..(m + n)
                             /\ i <= j => i + 1 <= m /\ i \in 1..(m - 1)
                             /\ ~(i <= j) => ~(i + 1 <= m) /\ i + 1 - m = i - j
  BY <1>10
<1>13. j + n = m + n - 1
  BY <1>10
<1>14. ASSUME NEW i \in 1..(j + n) PROVE b[i] = c[i]
  <2>1. b[i] = t[i + 1]
    BY <1>9, <1>12
  <2>2. CASE i <= j
    BY <1>4, <1>8, <1>11, <1>12, <2>1, <2>2
  <2>3. CASE ~(i <= j)
    <3>1. t[i + 1] = w[i + 1 - m]
      <4>1. PICK x : x = i + 1
        OBVIOUS
      <4>2. x \in 1..(m + n) /\ ~(x <= m)
        BY <1>12, <2>3, <4>1
      <4>3. t[x] = w[x - m]
        BY <1>4, <4>2
      <4> QED BY <4>1, <4>3
    <3>2. c[i] = w[i - j]
      BY <1>11, <2>3
    <3> QED BY <1>12, <2>1, <2>3, <3>1, <3>2
  <2> QED BY <2>2, <2>3
<1>15. b = c
  BY <1>9, <1>11, <1>13, <1>14, SeqEqual
<1> QED BY <1>4, <1>6, <1>7, <1>8, <1>9, <1>15

\* v has grown by the first of u, on its way to l.
Grown(v, u, l) ==
    /\ Append(v, Head(u)) \in Seq(Chars) /\ Append(v, Head(u)) # <<>>
    /\ Append(v, Head(u)) \o Tail(u) = l
    /\ Len(v) \in Nat /\ Len(l) \in Nat /\ Len(v) + 1 <= Len(l) /\ l[Len(v) + 1] = Head(u)
    /\ Tail(u) = <<>> <=> Len(l) = Len(v) + 1

LEMMA Grows ==
    ASSUME NEW v \in Seq(Chars), NEW u \in Seq(Chars), u # <<>>, NEW l, l = v \o u
    PROVE  Grown(v, u, l)
<1>1. PICK m \in Nat : m = Len(v)
  BY LenProperties
<1>2. PICK n \in Nat : n = Len(u)
  BY LenProperties
<1>3. n >= 1
  BY <1>2, EmptySeq
<1>4. /\ l \in Seq(Chars) /\ Len(l) = m + n
      /\ \A i \in 1..(m + n) : l[i] = IF i <= m THEN v[i] ELSE u[i - m]
  BY <1>1, <1>2, ConcatProperties
<1>5. PICK a, b, c, d : a = Append(v, c) /\ b = Tail(u) /\ c = Head(u) /\ d = a \o b
  OBVIOUS
<1>6. c = u[1] /\ c \in Chars /\ b \in Seq(Chars) /\ Len(b) = n - 1 /\ \A i \in 1..(n - 1) : b[i] = u[i + 1]
  <2>1. 1 \in 1..n
    BY <1>3
  <2> QED BY <1>2, <1>5, <2>1, HeadTailProperties, ElementOfSeq
<1>7. /\ a \in Seq(Chars) /\ Len(a) = m + 1 /\ a[m + 1] = c /\ \A i \in 1..m : a[i] = v[i]
  BY <1>1, <1>5, <1>6, AppendProperties
<1>8. PICK j \in Nat : j = n - 1
  BY <1>3
<1>9. /\ d \in Seq(Chars) /\ Len(d) = (m + 1) + j
      /\ \A i \in 1..((m + 1) + j) : d[i] = IF i <= m + 1 THEN a[i] ELSE b[i - (m + 1)]
  <2>1. Len(a) = m + 1 /\ Len(b) = j
    BY <1>6, <1>7, <1>8
  <2>2. /\ a \o b \in Seq(Chars) /\ Len(a \o b) = Len(a) + Len(b)
        /\ \A i \in 1..(Len(a) + Len(b)) : (a \o b)[i] = IF i <= Len(a) THEN a[i] ELSE b[i - Len(a)]
    BY <1>6, <1>7, ConcatProperties
  <2> QED BY <1>5, <2>1, <2>2
<1>10. (m + 1) + j = m + n /\ m + n \in Nat /\ m + 1 <= m + n /\ (j = 0 <=> m + n = m + 1) /\ m + 1 # 0
  BY <1>3, <1>8
<1>11. \A i \in 1..(m + n) : \/ i \in 1..m /\ i <= m /\ i <= m + 1
                             \/ i = m + 1 /\ ~(i <= m) /\ i <= m + 1 /\ i - m = 1
                             \/ ~(i <= m) /\ ~(i <= m + 1) /\ i - (m + 1) \in 1..(n - 1) /\ i - (m + 1) + 1 = i - m
  OBVIOUS
<1>12. ASSUME NEW i \in 1..(m + n) PROVE d[i] = l[i]
  <2>0. i \in 1..((m + 1) + j)
    BY <1>10
  <2>1. l[i] = (IF i <= m THEN v[i] ELSE u[i - m]) /\ d[i] = (IF i <= m + 1 THEN a[i] ELSE b[i - (m + 1)])
    BY <1>4, <1>9, <2>0
  <2>2. CASE i \in 1..m /\ i <= m /\ i <= m + 1
    BY <1>7, <2>1, <2>2
  <2>3. CASE i = m + 1 /\ ~(i <= m) /\ i <= m + 1 /\ i - m = 1
    <3>1. l[i] = u[i - m] /\ d[i] = a[i]
      BY <2>1, <2>3
    <3> QED BY <1>6, <1>7, <2>3, <3>1
  <2>4. CASE ~(i <= m) /\ ~(i <= m + 1) /\ i - (m + 1) \in 1..(n - 1) /\ i - (m + 1) + 1 = i - m
    <3>1. l[i] = u[i - m] /\ d[i] = b[i - (m + 1)]
      BY <2>1, <2>4
    <3>2. b[i - (m + 1)] = u[i - (m + 1) + 1]
      BY <1>6, <2>4
    <3> QED BY <2>4, <3>1, <3>2
  <2> QED BY <1>11, <2>2, <2>3, <2>4
<1>13. d = l
  BY <1>4, <1>9, <1>10, <1>12, SeqEqual
<1>14. l[m + 1] = c
  <2>1. m + 1 \in 1..(m + n) /\ ~(m + 1 <= m) /\ m + 1 - m = 1
    BY <1>3
  <2>2. l[m + 1] = u[m + 1 - m]
    BY <1>4, <2>1
  <2> QED BY <1>6, <2>1, <2>2
<1>15. b = <<>> <=> j = 0
  BY <1>6, <1>8, EmptySeq
<1>16. a # <<>>
  <2>1. Len(<<>>) = 0
    OBVIOUS
  <2> QED BY <1>7, <1>10, <2>1
<1>17. /\ a \in Seq(Chars) /\ a # <<>> /\ d = l
       /\ Len(v) \in Nat /\ Len(l) \in Nat /\ Len(v) + 1 <= Len(l) /\ l[Len(v) + 1] = c
       /\ b = <<>> <=> Len(l) = Len(v) + 1
  BY <1>1, <1>4, <1>7, <1>8, <1>10, <1>13, <1>14, <1>15, <1>16
<1> QED BY <1>5, <1>17 DEF Grown

\* Where a string or a comment ends.
LEMMA EndsFacts ==
    ASSUME NEW l \in Lexeme, NEW n \in Nat, n = Len(l), n >= 1, EndsWhere(l), Whole(l) \/ Cut(l)
    PROVE  /\ Whole(l) => ~Cut(l)
           /\ \A i \in 2..n : l[i] \in EndsOf(l) => i = n /\ Whole(l)
           /\ l[n] \notin EndsOf(l) => Cut(l)
           /\ n = 1 => Cut(l)
<1>1. PICK E : E = EndsOf(l)
  OBVIOUS
<1>2. Whole(l) <=> n > 1 /\ l[n] \in E /\ \A i \in 2..(n - 1) : l[i] \notin E
  <2>1. Whole(l) <=> ClosedBy(l, E)
    BY <1>1 DEF EndsWhere
  <2> QED BY <2>1 DEF ClosedBy, Last
<1>3. Cut(l) <=> \A i \in 2..n : l[i] \notin E
  BY <1>1 DEF EndsWhere
<1>4. n > 1 => n \in 2..n
  OBVIOUS
<1>5. \A i \in 2..n : i = n \/ i \in 2..(n - 1)
  OBVIOUS
<1>6. n = 1 => ~(n > 1)
  OBVIOUS
<1> QED BY <1>1, <1>2, <1>3, <1>4, <1>5, <1>6

Rest(k) == SubSeq(file, k + 1, Len(file))

StateIn(l) == IF IsWord(l) THEN "normal" ELSE IF l[1] \in Quotes THEN l[1] ELSE "comment"

\* Only the last lexeme is cut.
FileIsWhole ==
    \A i \in 1..Len(file) : Whole(file[i]) \/ (i = Len(file) /\ ended /\ Cut(file[i]))

\* Between two lexemes, k of them being read.
Between(k) ==
    /\ k \in Nat /\ k <= Len(file)
    /\ state = "whitespace" /\ value = <<>> /\ Unread(text, Rest(k))
    /\ k = Len(file) /\ k > 0 => ~IsWord(file[k])

\* Within the lexeme after the first k, u of it and then w still to be read.
Within(k, u, w) ==
    /\ k \in Nat /\ k + 1 <= Len(file)
    /\ value # <<>> /\ value \o u = file[k + 1] /\ file[k + 1] \notin Marks
    /\ state = StateIn(file[k + 1])
    /\ text = u \o w /\ Unread(w, Rest(k + 1))
    /\ k + 1 = Len(file) => w = <<>>
    /\ IsWord(file[k + 1]) /\ w # <<>> => w[1] \in {" ", "\n"} \cup Special
    /\ ~IsWord(file[k + 1]) /\ u = <<>> => Cut(file[k + 1])

\* k lexemes are read.
Reading(k) == Between(k) \/ \E u, w \in Seq(Chars) : Within(k, u, w)

LEMMA FileFacts ==
    ASSUME TypeOK, FileIsWhole, NEW k \in Nat, NEW n \in Nat, n = Len(file), k + 1 <= n, NEW l, l = file[k + 1]
    PROVE  /\ l \in Lexeme /\ (Whole(l) \/ (k + 1 = n /\ ended /\ Cut(l)))
           /\ Rest(k) \in Seq(Lexeme) /\ Rest(k + 1) \in Seq(Lexeme)
           /\ Head(Rest(k)) = l /\ Tail(Rest(k)) = Rest(k + 1)
           /\ k + 1 = n => Rest(k + 1) = <<>>
<1>1. file \in Seq(Lexeme)
  BY DEF TypeOK
<1>2. k + 1 \in 1..n /\ k <= n /\ k < n
  OBVIOUS
<1>3. l \in Lexeme /\ (Whole(l) \/ (k + 1 = n /\ ended /\ Cut(l)))
  BY <1>1, <1>2, ElementOfSeq DEF FileIsWhole
<1>4. Rest(k) = SubSeq(file, k + 1, n)
  BY DEF Rest
<1>5. PICK j \in Nat : j = k + 1
  OBVIOUS
<1>6. Rest(k + 1) = SubSeq(file, j + 1, n) /\ j + 1 = k + 2 /\ j <= n
  BY <1>5 DEF Rest
<1>7. Rest(k) \in Seq(Lexeme)
  BY <1>1, <1>2, <1>4, RestIs
<1>8. SubSeq(file, j + 1, n) \in Seq(Lexeme) /\ Len(SubSeq(file, j + 1, n)) = n - j
  BY <1>1, <1>6, RestIs
<1>9. Head(SubSeq(file, k + 1, n)) = file[k + 1] /\ Tail(SubSeq(file, k + 1, n)) = SubSeq(file, k + 2, n)
  BY <1>1, <1>2, RestNext
<1>10. k + 1 = n => n - j = 0
  BY <1>5
<1>11. k + 1 = n => Rest(k + 1) = <<>>
  BY <1>6, <1>8, <1>10, EmptySeq
<1> QED BY <1>3, <1>4, <1>6, <1>7, <1>8, <1>9, <1>11

\* A lexeme is read to its end.
Ended(k) ==
    /\ k + 1 <= Len(file) /\ Between(k + 1)'
    /\ \/ IsComment(file[k + 1]) /\ \E tok : Parse("COMMENT", tok)
       \/ /\ ~IsComment(file[k + 1])
          /\ \E tok : /\ Parse(TypeOf(file[k + 1]), tok)
                      /\ TypeOf(file[k + 1]) = "NORMAL" => tok = file[k + 1]

\* A turn of ParseToken that begins between two lexemes.
LEMMA FromBetween ==
    ASSUME TypeOK, FileIsWhole, ParseToken, NEW k, Between(k)
    PROVE  (Reading(k)' /\ UNCHANGED <<last_token_type, config_stack, blocks, outcome>>) \/ Ended(k)
<1>0. /\ k \in Nat /\ state = "whitespace" /\ value = <<>> /\ Unread(text, Rest(k))
      /\ k <= Len(file)
      /\ k = Len(file) /\ k > 0 => ~IsWord(file[k])
  BY DEF Between
<1>1. PICK n \in Nat : n = Len(file)
  BY LenProperties DEF TypeOK
<1>2. PICK c, t : c = Head(text) /\ t = Tail(text)
  OBVIOUS
<1>3. /\ text # <<>> /\ text \in Seq(Chars) /\ UNCHANGED <<ended, file, phrases, server>>
      /\ Completes(c) = "" =>
                 /\ state' = Following(c) /\ text' = t
                 /\ value' = IF Following(c) = "whitespace" THEN <<>> ELSE Append(value, c)
                 /\ UNCHANGED <<last_token_type, config_stack, blocks, outcome>>
      /\ Completes(c) # "" =>
                 /\ Parse(Completes(c), Tok(c))
                 /\ state' = "whitespace" /\ value' = <<>>
                 /\ text' = IF Ungets THEN text ELSE t
  BY <1>2, TokenSteps DEF TypeOK
<1>4. /\ c \notin Special => Completes(c) = ""
      /\ c = "{" => Completes(c) = "START_BLOCK"
      /\ c = "}" => Completes(c) = "END_BLOCK"
      /\ c = ";" => Completes(c) = "STATEMENT_END"
      /\ c = "#" => Following(c) = "comment"
      /\ c \in Quotes => Following(c) = c
      /\ c \in Blank => Following(c) = "whitespace"
      /\ c \notin Blank \cup Quotes \cup {"#"} => Following(c) = "normal"
  BY <1>0, CharIs
<1>5. \A j : Rest(j)' = Rest(j)
  BY <1>3 DEF Rest
<1>8. file \in Seq(Lexeme) /\ k <= n /\ Rest(k) \in Seq(Lexeme)
  <2>1. file \in Seq(Lexeme)
    BY DEF TypeOK
  <2>2. k \in Nat /\ k <= n
    BY <1>0, <1>1
  <2> QED BY <1>1, <2>1, <2>2, RestIs DEF Rest
<1>6. CASE c \in {" ", "\n"} /\ Unread(t, Rest(k))
  <2>1. c \in Blank /\ c \notin Special
    BY <1>6 DEF Blank, Special
  <2>2. state' = "whitespace" /\ text' = t /\ value' = <<>> /\ UNCHANGED <<last_token_type, config_stack, blocks, outcome>>
    BY <1>3, <1>4, <2>1
  <2>3. Unread(text, Rest(k))'
    BY <1>5, <1>6, <2>2 DEF Unread
  <2>4. Between(k)'
    BY <1>0, <1>3, <2>2, <2>3 DEF Between
  <2> QED BY <2>2, <2>4 DEF Reading
<1>7. CASE /\ Rest(k) # <<>>
           /\ \E y \in Seq(Chars) :
                 /\ text = Head(Rest(k)) \o y /\ Unread(y, Tail(Rest(k)))
                 /\ Tail(Rest(k)) = <<>> => y = <<>>
                 /\ IsWord(Head(Rest(k))) /\ y # <<>> => y[1] = " "
  <2>1. k + 1 <= n
    <3>1. file \in Seq(Lexeme) /\ k <= n
      BY <1>8
    <3>2. Len(Rest(k)) = n - k /\ Rest(k) \in Seq(Lexeme)
      BY <1>0, <1>1, <3>1, RestIs DEF Rest
    <3>3. n - k # 0
      BY <1>7, <3>2, EmptySeq
    <3> QED BY <1>0, <3>1, <3>3
  <2>2. PICK l : l = file[k + 1]
    OBVIOUS
  <2>3. /\ l \in Lexeme /\ (Whole(l) \/ (k + 1 = n /\ ended /\ Cut(l)))
        /\ Head(Rest(k)) = l /\ Tail(Rest(k)) = Rest(k + 1)
        /\ k + 1 = n => Rest(k + 1) = <<>>
    BY <1>0, <1>1, <2>1, <2>2, FileFacts
  <2>4. PICK y \in Seq(Chars) : /\ text = l \o y /\ Unread(y, Rest(k + 1))
                                /\ Rest(k + 1) = <<>> => y = <<>>
                                /\ IsWord(l) /\ y # <<>> => y[1] = " "
    <3>1. \E y \in Seq(Chars) :
                 /\ text = Head(Rest(k)) \o y /\ Unread(y, Tail(Rest(k)))
                 /\ Tail(Rest(k)) = <<>> => y = <<>>
                 /\ IsWord(Head(Rest(k))) /\ y # <<>> => y[1] = " "
      BY <1>7
    <3>2. PICK h, r : h = Head(Rest(k)) /\ r = Tail(Rest(k))
      OBVIOUS
    <3>3. h = l /\ r = Rest(k + 1)
      BY <2>3, <3>2
    <3>4. \E y \in Seq(Chars) :
                 /\ text = h \o y /\ Unread(y, r)
                 /\ r = <<>> => y = <<>>
                 /\ IsWord(h) /\ y # <<>> => y[1] = " "
      BY <3>1, <3>2
    <3> QED BY <3>3, <3>4
  <2>5. /\ l \in Lexeme /\ l # <<>> /\ Len(l) \in Nat /\ Len(l) >= 1
        /\ l[1] \in Letters \cup Quotes \cup Special \cup {"#"}
        /\ IsWord(l) => l \in Seq(Letters) /\ ~Cut(l) /\ l \notin Marks /\ ~IsComment(l)
        /\ l \in Marks <=> l[1] \in Special
        /\ l \in Marks => Len(l) = 1 /\ l = <<l[1]>> /\ Whole(l) /\ ~IsComment(l) /\ ~IsWord(l)
        /\ l[1] \in Quotes \cup {"#"} => EndsWhere(l)
    BY <2>3, LexemeIs
  <2>6. c = l[1] /\ c = Head(l) /\ t = Tail(l) \o y /\ Tail(l) \in Seq(Chars)
    <3>1. l \in Seq(Chars) /\ l # <<>> /\ y \in Seq(Chars) /\ text = l \o y
      BY <2>4, <2>5 DEF Lexeme
    <3>2. /\ Head(text) = Head(l) /\ Head(l) = l[1] /\ Tail(l) \in Seq(Chars) /\ Tail(text) = Tail(l) \o y
      BY <3>1, JoinHead
    <3> QED BY <1>2, <3>2
  <2>7. Unread(y, Rest(k + 1))' /\ k + 1 \in Nat
    <3>1. k + 1 \in Nat
      BY <1>0
    <3>2. Rest(k + 1)' = Rest(k + 1) /\ Unread(y, Rest(k + 1))
      BY <1>5, <2>4
    <3> QED BY <3>1, <3>2 DEF Unread
  <2>8. CASE l \in Marks
    <3>1. c \in Special /\ ~IsComment(l) /\ ~IsWord(l)
      BY <2>5, <2>6, <2>8
    <3>2. Tail(l) = <<>> /\ l = <<c>>
      <4>1. Len(Tail(l)) = 0
        BY <2>5, <2>8, HeadTailProperties DEF Lexeme
      <4> QED BY <2>5, <2>6, <2>8, <4>1, EmptySeq
    <3>3. t = y
      BY <2>4, <2>6, <3>2, ConcatEmptySeq
    <3>4. Completes(c) = TypeOf(l) /\ Completes(c) # "" /\ TypeOf(l) # "NORMAL"
      <4>1. c = ";" \/ c = "{" \/ c = "}"
        BY <3>1 DEF Special
      <4>2. Completes(c) \in {"STATEMENT_END", "START_BLOCK", "END_BLOCK"}
        BY <1>4, <4>1
      <4>3. l = <<";">> <=> c = ";"
        BY <3>2
      <4>4. l = <<"{">> <=> c = "{"
        BY <3>2
      <4>5. TypeOf(l) = IF c = ";" THEN "STATEMENT_END" ELSE IF c = "{" THEN "START_BLOCK"
                        ELSE IF c = "}" THEN "END_BLOCK" ELSE "NORMAL"
        <5>1. l = <<"}">> <=> c = "}"
          BY <3>2
        <5> QED BY <4>3, <4>4, <5>1, Zenon DEF TypeOf
      <4> QED BY <1>4, <4>1, <4>2, <4>5
    <3>5. Parse(TypeOf(l), Tok(c)) /\ state' = "whitespace" /\ value' = <<>> /\ text' = y
      <4>1. ~Ungets
        BY <1>0 DEF Ungets
      <4> QED BY <1>3, <3>3, <3>4, <4>1
    <3>6. Between(k + 1)'
      <4>1. Unread(text, Rest(k + 1))'
        BY <1>5, <2>4, <3>5 DEF Unread
      <4> QED BY <1>1, <1>3, <2>1, <2>2, <2>7, <3>1, <3>5, <4>1 DEF Between
    <3> QED BY <1>1, <2>1, <2>2, <3>1, <3>4, <3>5, <3>6 DEF Ended
  <2>9. CASE l \notin Marks
    <3>1. c \notin Special /\ c \notin Blank /\ (c \in Letters \/ c \in Quotes \/ c = "#")
      <4>1. c \notin Special /\ c \in Letters \cup Quotes \cup Special \cup {"#"}
        BY <2>5, <2>6, <2>9
      <4>2. c \in Letters => c \notin Blank
        BY CharsApart
      <4>3. c \in Quotes \/ c = "#" => c \notin Blank
        BY DEF Quotes, Blank
      <4> QED BY <4>1, <4>2, <4>3
    <3>2. Following(c) = StateIn(l) /\ StateIn(l) # "whitespace"
      <4>1. CASE c \in Letters
        <5>1. c \notin Blank \cup Quotes \cup {"#"} /\ IsWord(l)
          BY <2>6, <4>1, CharsApart DEF IsWord
        <5> QED BY <1>4, <5>1 DEF StateIn
      <4>2. CASE c \in Quotes
        <5>1. ~IsWord(l) /\ c # "whitespace" /\ l[1] \in Quotes
          BY <2>6, <4>2, CharsApart DEF IsWord, Quotes
        <5> QED BY <1>4, <2>6, <4>2, <5>1 DEF StateIn
      <4>3. CASE c = "#"
        <5>1. ~IsWord(l) /\ c \notin Quotes
          BY <2>6, <4>3, CharsApart DEF IsWord, Quotes
        <5> QED BY <1>4, <2>6, <4>3, <5>1 DEF StateIn
      <4> QED BY <3>1, <4>1, <4>2, <4>3
    <3>3. /\ state' = StateIn(l) /\ text' = Tail(l) \o y /\ value' = Append(<<>>, c)
          /\ UNCHANGED <<last_token_type, config_stack, blocks, outcome>>
      BY <1>0, <1>3, <1>4, <2>6, <3>1, <3>2
    <3>4. value' # <<>> /\ value' \o Tail(l) = l
      <4>1. <<>> \in Seq(Chars) /\ l \in Seq(Chars) /\ l = <<>> \o l
        BY <2>5, EmptySeq, ConcatEmptySeq DEF Lexeme
      <4>2. Grown(<<>>, l, l)
        BY <2>5, <4>1, Grows
      <4> QED BY <2>6, <3>3, <4>2 DEF Grown
    <3>5. k + 1 = n => y = <<>>
      <4>1. k + 1 = n => Rest(k + 1) = <<>>
        BY <2>3
      <4>2. Rest(k + 1) = <<>> => y = <<>>
        BY <2>4
      <4> QED BY <4>1, <4>2
    <3>6. IsWord(l) /\ y # <<>> => y[1] \in {" ", "\n"} \cup Special
      BY <2>4
    <3>7. ~IsWord(l) /\ Tail(l) = <<>> => Cut(l)
      <4> SUFFICES ASSUME ~IsWord(l), Tail(l) = <<>> PROVE Cut(l)
        OBVIOUS
      <4>0. Tail(l) = <<>>
        OBVIOUS
      <4>1. EndsWhere(l)
        BY <2>5, <2>6, <3>1 DEF IsWord
      <4>2. Len(l) = 1
        <5>1. Len(Tail(l)) = Len(l) - 1 /\ Len(<<>>) = 0
          BY <2>5, HeadTailProperties DEF Lexeme
        <5>2. Len(l) \in Nat /\ Len(l) - 1 = 0
          BY <2>5, <4>0, <5>1
        <5> QED BY <5>2
      <4>3. Whole(l) \/ Cut(l)
        BY <2>3
      <4> QED BY <2>5, <4>1, <4>2, <4>3, EndsFacts
    <3>8. Within(k, Tail(l), y)'
      BY <1>0, <1>1, <1>3, <2>1, <2>2, <2>7, <2>9, <3>3, <3>4, <3>5, <3>6, <3>7 DEF Within
    <3> QED BY <2>4, <2>6, <3>3, <3>8 DEF Reading
  <2> QED BY <2>8, <2>9
<1> QED BY <1>0, <1>2, <1>3, <1>6, <1>7, <1>8, UnreadSplit

\* A turn of ParseToken that begins within a lexeme.
LEMMA FromWithin ==
    ASSUME TypeOK, FileIsWhole, ParseToken, NEW k, NEW u \in Seq(Chars), NEW w \in Seq(Chars), Within(k, u, w)
    PROVE  (Reading(k)' /\ UNCHANGED <<last_token_type, config_stack, blocks, outcome>>) \/ Ended(k)
<1>1. PICK n \in Nat : n = Len(file)
  BY LenProperties DEF TypeOK
<1>2. PICK l : l = file[k + 1]
  OBVIOUS
<1>3. /\ k \in Nat /\ k + 1 <= n
      /\ value # <<>> /\ value \o u = l /\ l \notin Marks
      /\ state = StateIn(l)
      /\ text = u \o w /\ Unread(w, Rest(k + 1))
      /\ k + 1 = n => w = <<>>
      /\ IsWord(l) /\ w # <<>> => w[1] \in {" ", "\n"} \cup Special
      /\ ~IsWord(l) /\ u = <<>> => Cut(l)
  BY <1>1, <1>2 DEF Within
<1>4. l \in Lexeme /\ (Whole(l) \/ (k + 1 = n /\ ended /\ Cut(l)))
  BY <1>1, <1>2, <1>3, FileFacts
<1>5. /\ l \in Lexeme /\ l # <<>> /\ Len(l) \in Nat /\ Len(l) >= 1
      /\ l[1] \in Letters \cup Quotes \cup Special \cup {"#"}
      /\ IsWord(l) => l \in Seq(Letters) /\ ~Cut(l) /\ l \notin Marks /\ ~IsComment(l)
      /\ l \in Marks <=> l[1] \in Special
      /\ l[1] \in Quotes \cup {"#"} => EndsWhere(l)
  BY <1>4, LexemeIs
<1>6. value \in Seq(Chars) /\ Len(value) \in Nat /\ Len(value) >= 1
  <2>1. value \in Seq(Chars)
    BY DEF TypeOK, Lexeme
  <2>2. Len(value) \in Nat /\ Len(value) # 0
    BY <1>3, <2>1, EmptySeq, LenProperties
  <2> QED BY <2>1, <2>2
<1>7. PICK c, t : c = Head(text) /\ t = Tail(text)
  OBVIOUS
<1>8. /\ text # <<>> /\ UNCHANGED <<ended, file, phrases, server>>
      /\ Completes(c) = "" =>
                 /\ state' = Following(c) /\ text' = t
                 /\ value' = IF Following(c) = "whitespace" THEN <<>> ELSE Append(value, c)
                 /\ UNCHANGED <<last_token_type, config_stack, blocks, outcome>>
      /\ Completes(c) # "" =>
                 /\ Parse(Completes(c), Tok(c))
                 /\ state' = "whitespace" /\ value' = <<>>
                 /\ text' = IF Ungets THEN text ELSE t
  BY <1>7, TokenSteps
<1>9. /\ state # "whitespace" => Following(c) = state
      /\ state \in Quotes => Completes(c) = IF c = state THEN "NORMAL" ELSE ""
      /\ state = "comment" => Completes(c) = IF c \in {"\n", "\r"} THEN "COMMENT" ELSE ""
      /\ state = "normal" => Completes(c) = IF c \in {" ", "\t", "\n"} \cup Special THEN "NORMAL" ELSE ""
  BY CharIs
<1>10. \A j : Rest(j)' = Rest(j)
  BY <1>8 DEF Rest
<1>11. /\ IsWord(l) => state = "normal"
       /\ l[1] \in Quotes => state = l[1] /\ ~IsWord(l) /\ EndsOf(l) = {l[1]} /\ ~IsComment(l)
       /\ ~IsWord(l) => l[1] \in Quotes \/ l[1] = "#"
       /\ l[1] = "#" => state = "comment" /\ ~IsWord(l) /\ IsComment(l) /\ EndsOf(l) = {"\n", "\r"}
  <2>1. "#" \notin Quotes /\ \A x \in Letters : x \notin Quotes /\ x # "#"
    BY CharsApart DEF Quotes
  <2>2. ~IsWord(l) => l[1] \in Quotes \/ l[1] = "#"
    BY <1>3, <1>5 DEF IsWord
  <2>3. IsWord(l) => state = "normal"
    BY <1>3 DEF StateIn
  <2>4. l[1] \in Quotes => ~IsWord(l) /\ l[1] # "#"
    BY <2>1 DEF IsWord
  <2>5. l[1] = "#" => ~IsWord(l) /\ l[1] \notin Quotes
    BY <2>1 DEF IsWord
  <2>6. l[1] \in Quotes => state = l[1] /\ EndsOf(l) = {l[1]}
    BY <1>3, <2>4 DEF StateIn, EndsOf
  <2>7. l[1] = "#" => state = "comment" /\ EndsOf(l) = {"\n", "\r"}
    BY <1>3, <2>5 DEF StateIn, EndsOf
  <2> QED BY <2>2, <2>3, <2>4, <2>5, <2>6, <2>7 DEF IsComment
<1>12. state # "whitespace"
  BY <1>11 DEF Quotes
<1>13. k + 1 \in Nat /\ Unread(w, Rest(k + 1))'
  <2>1. Rest(k + 1)' = Rest(k + 1)
    BY <1>10
  <2>2. k \in Nat
    BY <1>3
  <2>3. k + 1 \in Nat
    BY <2>2
  <2> QED BY <1>3, <2>1, <2>3 DEF Unread
\* The lexeme is done.
<1>14. ASSUME state' = "whitespace", value' = <<>>, text' = w, k + 1 = n => ~IsWord(l)
       PROVE  Between(k + 1)'
  <2>1. Unread(text, Rest(k + 1))'
    <3>1. Rest(k + 1)' = Rest(k + 1)
      BY <1>10
    <3> QED BY <1>3, <1>14, <3>1 DEF Unread
  <2> QED BY <1>1, <1>2, <1>3, <1>8, <1>13, <1>14, <2>1 DEF Between
<1>15. CASE u # <<>>
  <2>1. /\ c = Head(u) /\ c = u[1] /\ Tail(u) \in Seq(Chars) /\ t = Tail(u) \o w
    <3>1. /\ Head(text) = Head(u) /\ Head(u) = u[1] /\ Tail(u) \in Seq(Chars) /\ Tail(text) = Tail(u) \o w
      <4>1. text = u \o w
        BY <1>3
      <4> QED BY <1>15, <4>1, JoinHead
    <3> QED BY <1>7, <3>1
  <2>2. /\ Append(value, c) \in Seq(Chars) /\ Append(value, c) # <<>>
        /\ Append(value, c) \o Tail(u) = l
        /\ Len(value) \in Nat /\ Len(l) \in Nat /\ Len(value) + 1 <= Len(l) /\ l[Len(value) + 1] = c
        /\ Tail(u) = <<>> <=> Len(l) = Len(value) + 1
    <3>1. l = value \o u /\ value \in Seq(Chars)
      BY <1>3, <1>6
    <3>2. /\ Append(value, Head(u)) \in Seq(Chars) /\ Append(value, Head(u)) # <<>>
          /\ Append(value, Head(u)) \o Tail(u) = l
          /\ Len(value) \in Nat /\ Len(l) \in Nat /\ Len(value) + 1 <= Len(l) /\ l[Len(value) + 1] = Head(u)
          /\ Tail(u) = <<>> <=> Len(l) = Len(value) + 1
      <4>1. Grown(value, u, l)
        BY <1>15, <3>1, Grows
      <4> QED BY <4>1 DEF Grown
    <3> QED BY <2>1, <3>2
  <2>3. PICK m \in Nat : m = Len(l)
    BY <1>5
  <2>4. PICK i \in Nat : i = Len(value) + 1
    BY <1>6
  <2>5. i \in 2..m /\ l[i] = c /\ (Tail(u) = <<>> <=> m = i) /\ m >= 1 /\ i \in 1..m
    <3>1. Len(value) \in Nat /\ Len(value) >= 1 /\ Len(value) + 1 <= m
      BY <1>6, <2>2, <2>3
    <3>2. i \in 2..m /\ m >= 1 /\ i \in 1..m
      BY <2>4, <3>1
    <3>3. l[i] = c /\ (Tail(u) = <<>> <=> m = i)
      BY <2>2, <2>3, <2>4
    <3> QED BY <3>2, <3>3
  <2>6. ASSUME Completes(c) = "", ~IsWord(l) /\ Tail(u) = <<>> => Cut(l)
        PROVE  Reading(k)' /\ UNCHANGED <<last_token_type, config_stack, blocks, outcome>>
    <3>1. /\ state' = state /\ text' = Tail(u) \o w /\ value' = Append(value, c)
          /\ UNCHANGED <<last_token_type, config_stack, blocks, outcome>>
      BY <1>8, <1>9, <1>12, <2>1, <2>6
    <3>2. Within(k, Tail(u), w)'
      BY <1>1, <1>2, <1>3, <1>8, <1>13, <2>2, <2>6, <3>1 DEF Within
    <3> QED BY <2>1, <3>1, <3>2 DEF Reading
  <2>7. CASE IsWord(l)
    <3>1. c \in Letters
      BY <1>5, <2>3, <2>5, <2>7, ElementOfSeq
    <3>2. c \notin {" ", "\t", "\n"} \cup Special
      BY <3>1, CharsApart DEF Blank
    <3>3. Completes(c) = ""
      BY <1>9, <1>11, <2>7, <3>2
    <3> QED BY <2>6, <2>7, <3>3
  <2>8. CASE ~IsWord(l)
    <3>1. /\ Whole(l) => ~Cut(l)
          /\ \A j \in 2..m : l[j] \in EndsOf(l) => j = m /\ Whole(l)
          /\ l[m] \notin EndsOf(l) => Cut(l)
      <4>1. EndsWhere(l) /\ l \in Lexeme /\ (Whole(l) \/ Cut(l))
        BY <1>4, <1>5, <1>11, <2>8
      <4> QED BY <2>3, <2>5, <4>1, EndsFacts
    <3>2. CASE c \notin EndsOf(l)
      <4>1. Completes(c) = ""
        BY <1>9, <1>11, <2>8, <3>2
      <4>2. Tail(u) = <<>> => Cut(l)
        BY <2>5, <3>1, <3>2
      <4> QED BY <2>6, <4>1, <4>2
    <3>3. CASE c \in EndsOf(l)
      <4>1. i = m /\ Tail(u) = <<>>
        BY <2>5, <3>1, <3>3
      <4>2. t = w
        BY <2>1, <4>1, ConcatEmptySeq
      <4>3. Append(value, c) = l
        <5>1. PICK x : x = Append(value, c)
          OBVIOUS
        <5>2. x \in Seq(Chars) /\ x \o <<>> = l
          BY <2>2, <4>1, <5>1
        <5> QED BY <5>1, <5>2, ConcatEmptySeq
      <4>4. Completes(c) = (IF IsComment(l) THEN "COMMENT" ELSE "NORMAL") /\ ~Ungets
        <5>1. CASE l[1] \in Quotes
          <6>1. c = state /\ ~IsComment(l) /\ state # "normal" /\ state \in Quotes
            BY <1>11, <3>3, <5>1 DEF Quotes
          <6> QED BY <1>9, <6>1 DEF Ungets
        <5>2. CASE l[1] = "#"
          <6>1. c \in {"\n", "\r"} /\ IsComment(l) /\ state = "comment"
            BY <1>11, <3>3, <5>2
          <6> QED BY <1>9, <6>1 DEF Ungets
        <5> QED BY <1>11, <2>8, <5>1, <5>2
      <4>5. /\ Parse(Completes(c), Tok(c)) /\ state' = "whitespace" /\ value' = <<>> /\ text' = w
        <5>1. Completes(c) # ""
          BY <4>4
        <5> QED BY <1>8, <4>2, <4>4, <5>1
      <4>6. Between(k + 1)'
        BY <1>14, <2>8, <4>5
      <4>7. CASE IsComment(l)
        BY <1>1, <1>2, <1>3, <4>4, <4>5, <4>6, <4>7 DEF Ended
      <4>8. CASE ~IsComment(l)
        <5>1. l[1] \in Quotes
          BY <1>11, <2>8, <4>8
        <5>2. Tok(c) = l
          BY <1>11, <4>3, <5>1 DEF Tok
        <5>3. TypeOf(l) = "NORMAL"
          BY <1>3, TypeOfIs
        <5> QED BY <1>1, <1>2, <1>3, <4>4, <4>5, <4>6, <4>8, <5>2, <5>3 DEF Ended
      <4> QED BY <4>7, <4>8
    <3> QED BY <3>2, <3>3
  <2> QED BY <2>7, <2>8
<1>16. CASE u = <<>>
  <2>1. text = w /\ value = l
    <3>1. text = <<>> \o w /\ value \o <<>> = l
      BY <1>3, <1>16
    <3> QED BY <1>6, <3>1, ConcatEmptySeq
  <2>2. k + 1 # n
    BY <1>3, <1>8, <2>1
  <2>3. IsWord(l)
    <3> SUFFICES ASSUME ~IsWord(l) PROVE FALSE
      OBVIOUS
    <3>1. Cut(l) /\ Whole(l) /\ EndsWhere(l)
      BY <1>3, <1>4, <1>5, <1>11, <1>16, <2>2
    <3>2. PICK m \in Nat : m = Len(l)
      BY <1>5
    <3>3. m >= 1 /\ l \in Lexeme
      BY <1>5, <3>2
    <3> QED BY <3>1, <3>2, <3>3, EndsFacts
  <2>4. c = w[1] /\ c \in {" ", "\n"} \cup Special
    <3>0. w # <<>>
      BY <1>8, <2>1
    <3>1. Head(w) = w[1]
      BY <3>0, HeadTailProperties
    <3> QED BY <1>3, <1>7, <1>8, <2>1, <2>3, <3>1
  <2>5. state = "normal" /\ state \notin Quotes /\ Ungets
    BY <1>11, <2>3 DEF Ungets, Quotes
  <2>6. Completes(c) = "NORMAL"
    BY <1>9, <2>4, <2>5
  <2>7. Tok(c) = l
    BY <2>1, <2>5 DEF Tok
  <2>8. /\ Parse("NORMAL", l) /\ state' = "whitespace" /\ value' = <<>> /\ text' = w
    <3>1. Completes(c) # ""
      BY <2>6
    <3> QED BY <1>8, <2>1, <2>5, <2>6, <2>7, <3>1
  <2>9. Between(k + 1)'
    BY <1>14, <2>2, <2>8
  <2>10. TypeOf(l) = "NORMAL" /\ ~IsComment(l)
    BY <1>3, <1>5, <2>3, TypeOfIs
  <2> QED BY <1>1, <1>2, <1>3, <2>8, <2>9, <2>10 DEF Ended
<1> QED BY <1>15, <1>16

\* One turn of ParseToken.
LEMMA Turn ==
    ASSUME TypeOK, FileIsWhole, ParseToken, NEW k, Reading(k)
    PROVE  (Reading(k)' /\ UNCHANGED <<last_token_type, config_stack, blocks, outcome>>) \/ Ended(k)
BY FromBetween, FromWithin DEF Reading

\* The tokens among the first k lexemes.
TokensTo(k) == Uncommented(SubSeq(file, 1, k))

\* How many lexemes are whole words at least: the last may be an unfinished word.
Counted == IF ended /\ file # <<>> /\ IsWord(Last(file)) THEN Len(file) - 1 ELSE Len(file)

LEMMA TokensToFacts ==
    ASSUME TypeOK, NEW n \in Nat, n = Len(file)
    PROVE  /\ \A k \in 0..n : TokensTo(k) \in Strip
           /\ TokensTo(0) = <<>>
           /\ TokensTo(n) = Uncommented(file)
           /\ \A k \in 0..(n - 1) :
                 TokensTo(k + 1) = IF IsComment(file[k + 1]) THEN TokensTo(k) ELSE Append(TokensTo(k), file[k + 1])
<1>1. file \in Seq(Lexeme)
  BY DEF TypeOK
<1>2. ASSUME NEW k \in 0..n PROVE SubSeq(file, 1, k) \in Strip /\ TokensTo(k) \in Strip
  <2>1. k \in Nat /\ k <= Len(file)
    OBVIOUS
  <2>2. SubSeq(file, 1, k) \in Strip
    BY <1>1, <2>1, InitialIs DEF Strip
  <2> QED BY <2>2, UncommentedFacts DEF TokensTo
<1>3. TokensTo(0) = <<>>
  <2>1. 0 \in Nat /\ 0 <= Len(file)
    OBVIOUS
  <2>2. SubSeq(file, 1, 0) \in Seq(Lexeme) /\ Len(SubSeq(file, 1, 0)) = 0
    BY <1>1, <2>1, InitialIs
  <2>3. SubSeq(file, 1, 0) = <<>>
    BY <2>2, EmptySeq
  <2> QED BY <2>3, UncommentedFacts DEF TokensTo
<1>4. TokensTo(n) = Uncommented(file)
  <2>1. SubSeq(file, 1, n) = file
    <3>1. n \in Nat /\ n <= Len(file)
      OBVIOUS
    <3>2. /\ SubSeq(file, 1, n) \in Seq(Lexeme) /\ Len(SubSeq(file, 1, n)) = n
          /\ \A i \in 1..n : SubSeq(file, 1, n)[i] = file[i]
      BY <1>1, <3>1, InitialIs
    <3> QED BY <1>1, <3>2, SeqEqual
  <2> QED BY <2>1 DEF TokensTo
<1>5. ASSUME NEW k \in 0..(n - 1)
      PROVE  TokensTo(k + 1) = IF IsComment(file[k + 1]) THEN TokensTo(k) ELSE Append(TokensTo(k), file[k + 1])
  <2>1. k \in Nat /\ k + 1 <= Len(file) /\ k \in 0..n
    OBVIOUS
  <2>2. SubSeq(file, 1, k + 1) = Append(SubSeq(file, 1, k), file[k + 1]) /\ file[k + 1] \in Lexeme
    BY <1>1, <2>1, InitialNext
  <2>3. PICK p, l : p = SubSeq(file, 1, k) /\ l = file[k + 1]
    OBVIOUS
  <2>4. p \in Strip
    BY <1>2, <2>1, <2>3
  <2>5. Uncommented(Append(p, l)) = IF IsComment(l) THEN Uncommented(p) ELSE Append(Uncommented(p), l)
    BY <2>2, <2>3, <2>4, UncommentedMore
  <2>6. TokensTo(k + 1) = Uncommented(Append(p, l)) /\ TokensTo(k) = Uncommented(p)
    BY <2>2, <2>3 DEF TokensTo
  <2> QED BY <2>3, <2>5, <2>6
<1> QED BY <1>2, <1>3, <1>4, <1>5

LEMMA LeadsItself == ASSUME NEW R \in Strip PROVE Leads(R, R)
<1>1. Len(R) \in Nat
  BY LenProperties DEF Strip
<1> QED BY <1>1 DEF Leads

\* Tokens read are the first of all.
LEMMA TokensToLead ==
    ASSUME TypeOK, NEW n \in Nat, n = Len(file), NEW m \in Nat, m <= n, NEW k \in Nat, k <= m
    PROVE  Leads(TokensTo(k), TokensTo(m))
<1> DEFINE A == {j \in Nat : k + j <= n => Leads(TokensTo(k), TokensTo(k + j))}
<1>1. 0 \in A
  <2>1. k + 0 = k /\ k \in 0..n
    OBVIOUS
  <2>2. TokensTo(k) \in Strip
    BY <2>1, TokensToFacts
  <2> QED BY <2>1, <2>2, LeadsItself
<1>2. ASSUME NEW j \in Nat, j \in A PROVE j + 1 \in A
  <2> SUFFICES ASSUME k + (j + 1) <= n PROVE Leads(TokensTo(k), TokensTo(k + (j + 1)))
    OBVIOUS
  <2>1. PICK i : i = k + j
    OBVIOUS
  <2>2. i \in 0..(n - 1) /\ i \in 0..n /\ i + 1 = k + (j + 1) /\ k + j <= n /\ i + 1 \in 1..n
    BY <2>1
  <2>3. Leads(TokensTo(k), TokensTo(i))
    BY <1>2, <2>1, <2>2
  <2>4. TokensTo(i + 1) = (IF IsComment(file[i + 1]) THEN TokensTo(i) ELSE Append(TokensTo(i), file[i + 1]))
        /\ TokensTo(i) \in Strip
    BY <2>2, TokensToFacts
  <2>5. Leads(TokensTo(i), TokensTo(i + 1))
    <3>1. file[i + 1] \in Lexeme
      BY <2>2, ElementOfSeq DEF TypeOK
    <3>2. PICK R, l : R = TokensTo(i) /\ l = file[i + 1]
      OBVIOUS
    <3>3. Leads(R, R) /\ Leads(R, Append(R, l))
      BY <2>4, <3>1, <3>2, LeadsItself, AppendFacts
    <3> QED BY <2>4, <3>2, <3>3
  <2> QED BY <2>2, <2>3, <2>5, LeadsAlong
<1> HIDE DEF A
<1>3. \A j \in Nat : j \in A
  BY <1>1, <1>2, Induction
<1>4. m - k \in Nat /\ k + (m - k) = m
  OBVIOUS
<1> QED BY <1>3, <1>4 DEF A

\* The tokens of the file are those of its counted lexemes.
LEMMA TokensAre ==
    ASSUME TypeOK, NEW n \in Nat, n = Len(file)
    PROVE  /\ Counted \in 0..n /\ Tokens = TokensTo(Counted) /\ Tokens \in Strip
           /\ n > 0 => (file # <<>> /\ Last(file) = file[n])
           /\ Counted = IF ended /\ n > 0 /\ IsWord(file[n]) THEN n - 1 ELSE n
<1>1. file # <<>> <=> n > 0
  <2>1. file \in Seq(Lexeme)
    BY DEF TypeOK
  <2>2. file = <<>> <=> n = 0
    BY <2>1, EmptySeq
  <2>3. n > 0 <=> n # 0
    OBVIOUS
  <2> QED BY <2>2, <2>3
<1>2. Last(file) = file[n]
  BY DEF Last
<1>3. Counted = IF ended /\ n > 0 /\ IsWord(file[n]) THEN n - 1 ELSE n
  BY <1>1, <1>2 DEF Counted
<1>4. Counted \in 0..n
  BY <1>3
<1>5. Tokens = TokensTo(Counted)
  <2>1. CASE ended /\ n > 0 /\ IsWord(file[n])
    <3>1. PICK k \in Nat : k = n - 1
      BY <2>1
    <3>2. k \in 0..(n - 1) /\ k + 1 = n /\ k \in 0..n
      BY <3>1
    <3>3. ~IsComment(file[n])
      BY <2>1, CharsApart DEF IsWord, IsComment
    <3>4. TokensTo(k + 1) = (IF IsComment(file[k + 1]) THEN TokensTo(k) ELSE Append(TokensTo(k), file[k + 1]))
          /\ TokensTo(k) \in Strip /\ TokensTo(n) = Uncommented(file)
      BY <3>2, TokensToFacts
    <3>5. PICK R, l : R = TokensTo(k) /\ l = file[n]
      OBVIOUS
    <3>6. Uncommented(file) = Append(R, l) /\ R \in Strip
      BY <3>2, <3>3, <3>4, <3>5
    <3>7. l \in Lexeme
      <4>1. n \in 1..n
        BY <2>1
      <4> QED BY <3>5, <4>1, ElementOfSeq DEF TypeOK
    <3>8. Append(R, l) # <<>>
      BY <3>6, <3>7, AppendFacts
    <3>9. Front(Append(R, l)) = R
      <4>1. PICK q, f, i : q = Append(R, l) /\ f = Front(q) /\ i = Len(R)
        OBVIOUS
      <4>2. /\ q \in Strip /\ i \in Nat /\ Len(q) = i + 1 /\ q # <<>>
            /\ \A j \in 1..i : q[j] = R[j]
        BY <3>6, <3>7, <4>1, AppendFacts
      <4>3. /\ f \in Seq(Lexeme) /\ Len(f) = Len(q) - 1
            /\ \A j \in 1..(Len(q) - 1) : f[j] = q[j]
        <5>1. q \in Seq(Lexeme) /\ q # <<>>
          BY <4>2 DEF Strip
        <5> QED BY <4>1, <5>1, FrontIs
      <4>4. Len(q) - 1 = i
        BY <4>2
      <4>5. f = R
        <5>1. R \in Seq(Lexeme) /\ Len(f) = Len(R) /\ \A j \in 1..Len(f) : f[j] = R[j]
          BY <3>6, <4>1, <4>2, <4>3, <4>4 DEF Strip
        <5> QED BY <4>3, <5>1, SeqEqual
      <4> QED BY <4>1, <4>5
    <3>10. Tokens = Front(Uncommented(file))
      BY <1>1, <1>2, <2>1, <3>6, <3>8 DEF Tokens
    <3>11. Counted = k
      BY <1>3, <2>1, <3>1
    <3> QED BY <3>5, <3>6, <3>9, <3>10, <3>11
  <2>2. CASE ~(ended /\ n > 0 /\ IsWord(file[n]))
    <3>1. Tokens = Uncommented(file)
      BY <1>1, <1>2, <2>2 DEF Tokens
    <3>2. Counted = n
      BY <1>3, <2>2
    <3> QED BY <3>1, <3>2, TokensToFacts
  <2> QED BY <2>1, <2>2
<1>6. Tokens \in Strip
  BY <1>4, <1>5, TokensToFacts
<1> QED BY <1>1, <1>2, <1>3, <1>4, <1>5, <1>6

\* What is read so far, while Parse runs.
ReadInv ==
    outcome = "parsing" =>
        IF last_token_type = "EOF"
        THEN ended /\ text = <<>> /\ state = "whitespace" /\ ~Complete(Tokens)
        ELSE \E k \in Nat, R \in Strip : Reading(k) /\ R = TokensTo(k) /\ ParsedAs(R)

RInv ==
    /\ TInv
    /\ OnThePath
    /\ FileIsWhole
    /\ ReadInv
    /\ ReadsFiles

LEMMA AtLeast ==
    ASSUME TypeOK, NEW n \in Nat, n = Len(file), NEW k \in Nat, k <= n, k = n /\ k > 0 => ~IsWord(file[k])
    PROVE  k <= Counted /\ Counted \in Nat /\ Counted <= n
<1>1. Counted = IF ended /\ n > 0 /\ IsWord(file[n]) THEN n - 1 ELSE n
  BY TokensAre
<1>2. CASE ended /\ n > 0 /\ IsWord(file[n])
  <2>1. k # n
    BY <1>2
  <2> QED BY <1>1, <1>2, <2>1
<1>3. CASE ~(ended /\ n > 0 /\ IsWord(file[n]))
  BY <1>1, <1>3
<1> QED BY <1>2, <1>3

LEMMA TokensLedBy ==
    ASSUME TypeOK, NEW n \in Nat, n = Len(file), NEW k \in Nat, k <= n, k = n /\ k > 0 => ~IsWord(file[k])
    PROVE  Leads(TokensTo(k), Tokens)
<1>1. PICK m : m = Counted
  OBVIOUS
<1>2. k <= m /\ m \in Nat /\ m <= n
  BY <1>1, AtLeast
<1>3. Tokens = TokensTo(m)
  BY <1>1, TokensAre
<1> QED BY <1>2, <1>3, TokensToLead

LEMMA SerializedSame == blocks' = blocks => Serialized' = Serialized
BY SerializedIs, SerializedIsNext

LEMMA TokenKeepsPath ==
    ASSUME TInv, OnThePath, ParseToken
    PROVE  OnThePath'
<1>1. PICK c : c = Head(text)
  OBVIOUS
<1>2. /\ outcome = "parsing" /\ text # <<>>
      /\ Completes(c) = "" => UNCHANGED <<last_token_type, config_stack, blocks, outcome>>
      /\ Completes(c) # "" => Parse(Completes(c), Tok(c))
  BY <1>1, TokenSteps
<1>3. CASE Completes(c) = ""
  BY <1>2, <1>3, PathKeeps
<1>4. CASE Completes(c) # ""
  <2>1. text \in Seq(Chars) /\ value \in Seq(Chars)
    BY DEF TInv, TypeOK, Lexeme
  <2>2. c \in Chars
    BY <1>1, <1>2, <2>1, HeadTailProperties
  <2>3. Append(value, c) \in Lexeme
    BY <2>1, <2>2, AppendProperties DEF Lexeme
  <2>4. Tok(c) \in Lexeme
    BY <2>1, <2>3 DEF Tok, Lexeme
  <2> QED BY <1>2, <1>4, <2>4, ParseKeepsPath
<1> QED BY <1>3, <1>4

LEMMA TokenKeepsReading ==
    ASSUME RInv, ParseToken, TInv'
    PROVE  RInv'
<1>0. TInv /\ TypeOK /\ OnThePath /\ FileIsWhole /\ ReadInv
  BY DEF RInv, TInv
<1>1. /\ outcome = "parsing" /\ text # <<>> /\ ended' = ended /\ file' = file
  BY TokenSteps
<1>2. OnThePath'
  BY <1>0, TokenKeepsPath
<1>3. FileIsWhole'
  BY <1>0, <1>1 DEF FileIsWhole
<1>4. Tokens' = Tokens
  BY <1>1 DEF Tokens
<1>5. PICK k \in Nat, R \in Strip : Reading(k) /\ R = TokensTo(k) /\ ParsedAs(R)
  BY <1>0, <1>1 DEF ReadInv
<1>6. last_token_type # "EOF"
  <2>1. last_token_type = TypeAfter(R)
    BY <1>5 DEF ParsedAs
  <2> QED BY <2>1, TypeAfterIs
<1>7. \A j : TokensTo(j)' = TokensTo(j)
  BY <1>1 DEF TokensTo
<1>8. ReadInv' /\ ReadsFiles'
  <2>1. CASE Reading(k)' /\ UNCHANGED <<last_token_type, config_stack, blocks, outcome>>
    <3>1. ParsedAs(R)'
      <4>1. ParsedAs(R)
        BY <1>5
      <4>2. Prints(R)' <=> Prints(R)
        BY <2>1, SerializedSame DEF Prints
      <4> QED BY <2>1, <4>1, <4>2 DEF ParsedAs
    <3>2. R = TokensTo(k)'
      BY <1>5, <1>7
    <3>3. last_token_type' # "EOF" /\ outcome' = "parsing"
      BY <1>1, <1>6, <2>1
    <3>4. ReadInv'
      BY <1>5, <2>1, <3>1, <3>2, <3>3 DEF ReadInv
    <3> QED BY <3>3, <3>4 DEF ReadsFiles
  <2>2. CASE Ended(k)
    <3>1. PICK n \in Nat : n = Len(file)
      BY <1>0, LenProperties DEF TypeOK
    <3>2. PICK l, Q : l = file[k + 1] /\ Q = TokensTo(k + 1)
      OBVIOUS
    <3>3. k + 1 <= n /\ Between(k + 1)'
      BY <2>2, <3>1 DEF Ended
    <3>4. Q = (IF IsComment(l) THEN R ELSE Append(R, l)) /\ Q \in Strip
      <4>1. k \in 0..(n - 1) /\ k + 1 \in 0..n
        BY <3>3
      <4>2. TokensTo(k + 1) = (IF IsComment(file[k + 1]) THEN TokensTo(k) ELSE Append(TokensTo(k), file[k + 1]))
            /\ TokensTo(k + 1) \in Strip
        BY <1>0, <3>1, <4>1, TokensToFacts
      <4> QED BY <1>5, <3>2, <4>2
    <3>5. l \in Lexeme
      BY <1>0, <3>1, <3>2, <3>3, FileFacts
    <3>6. Q = TokensTo(k + 1)' /\ Reading(k + 1)' /\ k + 1 \in Nat
      BY <1>7, <3>2, <3>3 DEF Reading
    <3>7. ASSUME ParsedAs(Q)', outcome' = "parsing"
          PROVE  ReadInv' /\ ReadsFiles'
      <4>1. last_token_type' # "EOF"
        <5>1. last_token_type' = TypeAfter(Q)
          BY <3>7 DEF ParsedAs
        <5> QED BY <5>1, TypeAfterIs
      <4>2. ReadInv'
        BY <3>4, <3>6, <3>7, <4>1 DEF ReadInv
      <4> QED BY <3>7, <4>2 DEF ReadsFiles
    <3>8. CASE IsComment(l)
      <4>1. PICK tok : Parse("COMMENT", tok)
        <5>1. \E tok : Parse("COMMENT", tok)
          BY <2>2, <3>2, <3>8 DEF Ended
        <5> QED BY <5>1
      <4>2. UNCHANGED <<last_token_type, config_stack, blocks, outcome>>
        BY <4>1 DEF Parse
      <4>3. ParsedAs(R)'
        <5>1. ParsedAs(R)
          BY <1>5
        <5>2. Prints(R)' <=> Prints(R)
          BY <4>2, SerializedSame DEF Prints
        <5> QED BY <4>2, <5>1, <5>2 DEF ParsedAs
      <4>4. ParsedAs(Q)'
        <5>1. Q = R
          BY <3>4, <3>8
        <5> QED BY <4>3, <5>1
      <4> QED BY <1>1, <3>7, <4>2, <4>4
    <3>9. CASE ~IsComment(l)
      <4>1. PICK tok : Parse(TypeOf(l), tok) /\ (TypeOf(l) = "NORMAL" => tok = l)
        <5>1. \E tok : Parse(TypeOf(l), tok) /\ (TypeOf(l) = "NORMAL" => tok = l)
          BY <2>2, <3>2, <3>9 DEF Ended
        <5> QED BY <5>1
      <4>2. PICK type : type = TypeOf(l)
        OBVIOUS
      <4>3. Q = Append(R, l)
        BY <3>4, <3>9
      <4>4. Taken(Q)
        <5>1. Parse(type, tok) /\ (type = "NORMAL" => tok = l) /\ ParsedAs(R)
          BY <1>5, <4>1, <4>2
        <5> QED BY <1>0, <1>1, <3>5, <4>2, <4>3, <5>1, Take
      <4>5. Leads(Q, Tokens)
        <5>1. k + 1 = Len(file)' => ~IsWord(file'[k + 1])
          BY <3>3 DEF Between
        <5>2. k + 1 = n /\ k + 1 > 0 => ~IsWord(file[k + 1])
          BY <1>1, <3>1, <5>1
        <5>3. Leads(TokensTo(k + 1), Tokens)
          BY <1>0, <3>1, <3>3, <3>6, <5>2, TokensLedBy
        <5> QED BY <3>2, <5>3
      <4>6. CASE outcome' = "parsing" /\ ParsedAs(Q)'
        BY <3>7, <4>6
      <4>7. CASE outcome' = "false" /\ Misused(Q)
        <5>1. Misused(Tokens)
          <6>1. PICK T : T = Tokens
            OBVIOUS
          <6> QED BY <4>5, <4>7, <6>1, MisusedLeads
        <5>2. Misused(Tokens')
          BY <1>4, <5>1
        <5> QED BY <4>7, <5>2 DEF ReadInv, ReadsFiles
      <4>8. CASE outcome' = "undefined" /\ Overclosed(Q)
        <5>1. Overclosed(Tokens)
          <6>1. PICK T : T = Tokens
            OBVIOUS
          <6> QED BY <4>5, <4>8, <6>1, OverclosedLeads
        <5>2. Overclosed(Tokens')
          BY <1>4, <5>1
        <5> QED BY <4>8, <5>2 DEF ReadInv, ReadsFiles
      <4> QED BY <4>4, <4>6, <4>7, <4>8 DEF Taken
    <3> QED BY <3>8, <3>9
  <2> QED BY <1>0, <1>5, <2>1, <2>2, Turn
<1> QED BY <1>2, <1>3, <1>8 DEF RInv

\* Where the reader stands when no text is left.
LEMMA NothingLeft ==
    ASSUME TypeOK, FileIsWhole, text = <<>>, NEW k, Reading(k), NEW n \in Nat, n = Len(file)
    PROVE  /\ k \in Nat
           /\ \/ k = n /\ Between(k)
              \/ k + 1 = n /\ value = file[n] /\ state = StateIn(file[n]) /\ value # <<>> /\ file[n] \notin Marks
                 /\ Within(k, <<>>, <<>>) /\ (~IsWord(file[n]) => Cut(file[n]))
<1>0. file \in Seq(Lexeme) /\ value \in Seq(Chars)
  BY DEF TypeOK, Lexeme
<1>1. ASSUME NEW j \in Nat, j <= n, Unread(<<>>, Rest(j)) PROVE j = n
  <2>1. Rest(j) \in Seq(Lexeme) /\ Len(Rest(j)) = n - j /\ \A i \in 1..(n - j) : Rest(j)[i] = file[j + i]
    BY <1>0, <1>1, RestIs DEF Rest
  <2>2. \A i \in 1..(n - j) : j + i \in 1..n
    BY <1>1
  <2>3. \A i \in 1..n : file[i] # <<>>
    <3>1. \A i \in 1..n : Whole(file[i]) \/ Cut(file[i])
      BY DEF FileIsWhole
    <3> QED BY <3>1, LexemeIs
  <2>4. \A i \in 1..Len(Rest(j)) : Rest(j)[i] # <<>>
    BY <2>1, <2>2, <2>3
  <2>5. Rest(j) = <<>>
    BY <1>1, <2>1, <2>4, UnreadNothing
  <2>6. n - j = 0
    BY <2>1, <2>5, EmptySeq
  <2> QED BY <1>1, <2>6
<1>2. CASE Between(k)
  <2>1. k \in Nat /\ k <= n /\ Unread(<<>>, Rest(k))
    BY <1>2 DEF Between
  <2> QED BY <1>1, <1>2, <2>1
<1>3. CASE \E u, w \in Seq(Chars) : Within(k, u, w)
  <2>1. PICK u \in Seq(Chars), w \in Seq(Chars) : Within(k, u, w)
    BY <1>3
  <2>2. k \in Nat /\ k + 1 <= n /\ text = u \o w /\ Unread(w, Rest(k + 1))
    BY <2>1 DEF Within
  <2>3. u = <<>> /\ w = <<>>
    <3>1. u = <<>>
      <4>1. text = u \o w
        BY <2>2
      <4>2. \A x, y \in Seq(Chars) : x # <<>> => x \o y # <<>>
        BY JoinHead
      <4>3. u # <<>> => text # <<>>
        BY <4>1, <4>2
      <4> QED BY <1>1, <4>3
    <3>2. text = w
      BY <2>2, <3>1, ConcatEmptySeq
    <3> QED BY <3>1, <3>2
  <2>4. k + 1 = n
    <3>1. PICK j \in Nat : j = k + 1
      BY <2>2
    <3>2. j <= n /\ Unread(<<>>, Rest(j))
      BY <2>2, <2>3, <3>1
    <3> QED BY <1>1, <3>1, <3>2
  <2>5. Within(k, <<>>, <<>>)
    BY <2>1, <2>3
  <2>6. /\ value # <<>> /\ value \o <<>> = file[k + 1] /\ state = StateIn(file[k + 1]) /\ file[k + 1] \notin Marks
        /\ ~IsWord(file[k + 1]) => Cut(file[k + 1])
    BY <2>5 DEF Within
  <2>7. value \o <<>> = value
    BY <1>0, ConcatEmptySeq
  <2> QED BY <2>2, <2>4, <2>5, <2>6, <2>7
<1> QED BY <1>2, <1>3 DEF Reading

\* Then all tokens are read, unless a string is open.
LEMMA AllIsRead ==
    ASSUME TypeOK, FileIsWhole, text = <<>>, ended, NEW k, Reading(k)
    PROVE  \/ state \in Quotes /\ UnclosedString
           \/ state \notin Quotes /\ Tokens = TokensTo(k)
<1>1. PICK n \in Nat : n = Len(file)
  BY LenProperties DEF TypeOK
<1>2. /\ Tokens = TokensTo(Counted)
      /\ n > 0 => (file # <<>> /\ Last(file) = file[n])
      /\ Counted = IF ended /\ n > 0 /\ IsWord(file[n]) THEN n - 1 ELSE n
  BY <1>1, TokensAre
<1>3. k \in Nat
  BY <1>1, NothingLeft
<1>4. CASE k = n /\ Between(k)
  <2>1. state = "whitespace" /\ (k > 0 => ~IsWord(file[n]))
    BY <1>1, <1>4 DEF Between
  <2>2. Counted = k
    BY <1>2, <1>4, <2>1
  <2>3. state \notin Quotes
    BY <2>1 DEF Quotes
  <2> QED BY <1>2, <2>2, <2>3
<1>5. CASE k + 1 = n /\ value = file[n] /\ state = StateIn(file[n]) /\ value # <<>> /\ file[n] \notin Marks
           /\ (~IsWord(file[n]) => Cut(file[n]))
  <2>1. PICK l : l = file[n]
    OBVIOUS
  <2>2. n > 0 /\ k \in 0..(n - 1) /\ n \in 1..n /\ k = n - 1
    BY <1>3, <1>5
  <2>3. Whole(l) \/ Cut(l)
    BY <1>1, <2>1, <2>2 DEF FileIsWhole
  <2>4. /\ l \in Lexeme /\ Len(l) \in Nat /\ Len(l) >= 1
        /\ l[1] \in Letters \cup Quotes \cup Special \cup {"#"}
        /\ l \in Marks <=> l[1] \in Special
        /\ l[1] \in Quotes \cup {"#"} => EndsWhere(l)
    BY <2>3, LexemeIs
  <2>5. CASE IsWord(l)
    <3>1. state = "normal"
      BY <1>5, <2>1, <2>5 DEF StateIn
    <3>2. Counted = k
      BY <1>2, <2>1, <2>2, <2>5
    <3> QED BY <1>2, <3>1, <3>2 DEF Quotes
  <2>6. CASE ~IsWord(l)
    <3>1. Cut(l) /\ (l[1] \in Quotes \/ l[1] = "#")
      BY <1>5, <2>1, <2>4, <2>6 DEF IsWord
    <3>2. CASE l[1] \in Quotes
      <4>1. state = l[1]
        BY <1>5, <2>1, <2>6, <3>2 DEF StateIn
      <4>2. ~Whole(l)
        <5>1. EndsWhere(l)
          BY <2>4, <3>2
        <5> QED BY <2>3, <2>4, <3>1, <5>1, EndsFacts
      <4>3. UnclosedString
        BY <1>2, <2>1, <2>2, <3>2, <4>2 DEF UnclosedString
      <4> QED BY <3>2, <4>1, <4>3
    <3>3. CASE l[1] = "#"
      <4>1. l[1] \notin Quotes /\ IsComment(l)
        BY <3>3 DEF Quotes, IsComment
      <4>2. state = "comment"
        BY <1>5, <2>1, <2>6, <4>1 DEF StateIn
      <4>3. Counted = n
        BY <1>2, <2>1, <2>6
      <4>4. TokensTo(k + 1) = IF IsComment(file[k + 1]) THEN TokensTo(k) ELSE Append(TokensTo(k), file[k + 1])
        BY <1>1, <2>2, TokensToFacts
      <4>5. Tokens = TokensTo(k)
        BY <1>2, <1>5, <2>1, <4>1, <4>3, <4>4
      <4> QED BY <4>2, <4>5 DEF Quotes
    <3> QED BY <3>1, <3>2, <3>3
  <2> QED BY <2>5, <2>6
<1> QED BY <1>1, <1>4, <1>5, NothingLeft

\* What Parse makes of the end of the file, when R is read.
LEMMA EndIsTaken ==
    ASSUME TInv, outcome = "parsing", NEW R \in Strip, ParsedAs(R), NEW tok, Parse("EOF", tok)
    PROVE  /\ last_token_type' = "EOF" /\ UNCHANGED blocks
           /\ \/ config_stack' = config_stack
              \/ config_stack # <<>> /\ config_stack' = Front(config_stack)
           /\ \/ outcome' = "false" /\ ~Complete(R)
              \/ outcome' = "undefined" /\ Overclosed(R)
              \/ outcome' = "true" /\ ~Misused(R) /\ ~Overclosed(R) /\ Complete(R) /\ Serialized[1] = R
              \/ outcome' = "parsing" /\ ~Complete(R)
<1>1. ~Misused(R) /\ last_token_type = TypeAfter(R)
  BY DEF ParsedAs
<1>2. Allowed("EOF") <=> (R # <<>> => Last(R) \in {<<";">>, <<"}">>})
  <2>1. Allowed("EOF") <=> TypeAfter(R) \in {"STATEMENT_END", "END_BLOCK", "START"}
    BY <1>1 DEF Allowed
  <2> QED BY <2>1, TypeAfterIs
<1>3. last_token_type' = "EOF"
  BY ParseIs
<1>4. CASE ~Allowed("EOF")
  <2>1. outcome' = "false" /\ UNCHANGED <<config_stack, blocks>>
    BY <1>4, ParseIs
  <2>2. ~Complete(R)
    BY <1>2, <1>4 DEF Complete
  <2> QED BY <1>3, <2>1, <2>2
<1>5. CASE Allowed("EOF") /\ config_stack = <<>>
  <2>1. outcome' = "undefined" /\ UNCHANGED <<config_stack, blocks>>
    BY <1>5, ParseIs
  <2>2. Overclosed(R)
    BY <1>5 DEF ParsedAs
  <2> QED BY <1>3, <2>1, <2>2
<1>6. CASE Allowed("EOF") /\ config_stack # <<>>
  <2>1. PopAtEnd
    BY <1>6, ParseIs
  <2>2. config_stack' = Front(config_stack) /\ UNCHANGED blocks
        /\ outcome' = IF Len(config_stack) = 1 THEN "true" ELSE outcome
    BY <2>1 DEF PopAtEnd
  <2>3. ~Overclosed(R) /\ Count(R, "{") = Count(R, "}") + Len(config_stack) - 1 /\ Prints(R)
    BY <1>6 DEF ParsedAs
  <2>4. PICK a, b, K : a = Count(R, "{") /\ b = Count(R, "}") /\ K = Len(config_stack)
    OBVIOUS
  <2>5. K \in Nat /\ K >= 1 /\ a \in Nat /\ b \in Nat
    BY <1>6, <2>4, StackLength, CountType
  <2>6. a = b + K - 1
    BY <2>3, <2>4
  <2>7. a = b <=> K = 1
    BY <2>5, <2>6, Counting DEF Balance
  <2>8. Complete(R) <=> K = 1
    BY <1>2, <1>6, <2>4, <2>7 DEF Complete
  <2>9. CASE K = 1
    <3>1. last_token_type # "NORMAL"
      BY <1>6 DEF Allowed
    <3>2. Serialized[1] = R
      <4>1. Serialized[1] = R \o (IF last_token_type = "NORMAL" THEN Semi ELSE <<>>) \o Closing(Len(config_stack) - 1)
        BY <2>3 DEF Prints
      <4>2. Len(config_stack) - 1 = 0
        <5>1. \A x : x = 1 => x - 1 = 0
          OBVIOUS
        <5> QED BY <2>4, <2>9, <5>1, Zenon
      <4>3. Closing(0) = <<>>
        BY ClosingIs
      <4>4. Serialized[1] = R \o <<>> \o <<>>
        BY <3>1, <4>1, <4>2, <4>3
      <4>5. R \in Seq(Lexeme)
        BY DEF Strip
      <4>6. R \o <<>> = R
        BY <4>5, ConcatEmptySeq
      <4> QED BY <4>4, <4>6
    <3>3. outcome' = "true"
      BY <2>2, <2>4, <2>9
    <3> QED BY <1>1, <1>3, <1>6, <2>2, <2>3, <2>8, <2>9, <3>2, <3>3
  <2>10. CASE K # 1
    <3>1. outcome' = "parsing"
      BY <2>2, <2>4, <2>10
    <3> QED BY <1>3, <1>6, <2>2, <2>8, <2>10, <3>1
  <2> QED BY <2>9, <2>10
<1> QED BY <1>4, <1>5, <1>6

LEMMA EndKeepsReading ==
    ASSUME RInv, ParseTokenEnds, TInv'
    PROVE  RInv'
<1>0. TInv /\ TypeOK /\ OnThePath /\ FileIsWhole /\ ReadInv
  BY DEF RInv, TInv
<1>1. /\ outcome = "parsing" /\ text = <<>> /\ text' = text /\ ended /\ ended' = ended /\ file' = file
      /\ state' = "whitespace"
  BY DEF ParseTokenEnds, input
<1>2. FileIsWhole'
  BY <1>0, <1>1 DEF FileIsWhole
<1>3. Tokens' = Tokens /\ UnclosedString' = UnclosedString
  BY <1>1 DEF Tokens, UnclosedString
<1>4. \/ /\ state \in Quotes /\ outcome' = "false"
         /\ UNCHANGED <<last_token_type, config_stack, blocks>>
      \/ state \notin Quotes /\ Parse("EOF", <<>>)
  BY DEF ParseTokenEnds
<1>5. CASE last_token_type = "EOF"
  <2>1. state = "whitespace" /\ ~Complete(Tokens)
    BY <1>0, <1>1, <1>5 DEF ReadInv
  <2>2. Parse("EOF", <<>>)
    BY <1>4, <2>1 DEF Quotes
  <2>3. ~Allowed("EOF")
    BY <1>5 DEF Allowed
  <2>4. outcome' = "false" /\ UNCHANGED <<config_stack, blocks>>
    BY <2>2, <2>3, ParseIs
  <2>5. OnThePath'
    BY <1>0, <2>4, PathKeeps
  <2>6. ~Complete(Tokens') /\ ended'
    BY <1>1, <1>3, <2>1
  <2>7. ReadInv' /\ ReadsFiles'
    BY <2>4, <2>6 DEF ReadInv, ReadsFiles
  <2> QED BY <1>2, <2>5, <2>7 DEF RInv
<1>6. CASE last_token_type # "EOF"
  <2>1. PICK k \in Nat, R \in Strip : Reading(k) /\ R = TokensTo(k) /\ ParsedAs(R)
    BY <1>0, <1>1, <1>6 DEF ReadInv
  <2>2. \/ state \in Quotes /\ UnclosedString
        \/ state \notin Quotes /\ Tokens = R
    BY <1>0, <1>1, <2>1, AllIsRead
  <2>3. CASE state \in Quotes
    <3>1. outcome' = "false" /\ UNCHANGED <<last_token_type, config_stack, blocks>>
      BY <1>4, <2>3
    <3>2. OnThePath'
      BY <1>0, <3>1, PathKeeps
    <3>3. UnclosedString' /\ ended'
      BY <1>1, <1>3, <2>2, <2>3
    <3>4. ReadInv' /\ ReadsFiles'
      BY <3>1, <3>3 DEF ReadInv, ReadsFiles
    <3> QED BY <1>2, <3>2, <3>4 DEF RInv
  <2>4. CASE state \notin Quotes
    <3>1. Parse("EOF", <<>>) /\ Tokens = R /\ Tokens' = R
      BY <1>3, <1>4, <2>2, <2>4
    <3>2. /\ last_token_type' = "EOF" /\ UNCHANGED blocks
          /\ \/ config_stack' = config_stack
             \/ config_stack # <<>> /\ config_stack' = Front(config_stack)
          /\ \/ outcome' = "false" /\ ~Complete(R)
             \/ outcome' = "undefined" /\ Overclosed(R)
             \/ outcome' = "true" /\ ~Misused(R) /\ ~Overclosed(R) /\ Complete(R) /\ Serialized[1] = R
             \/ outcome' = "parsing" /\ ~Complete(R)
      BY <1>0, <1>1, <2>1, <3>1, EndIsTaken
    <3>3. OnThePath'
      BY <1>0, <3>2, PathKeeps
    <3>4. Serialized' = Serialized
      BY <3>2, SerializedSame
    <3>5. ReadInv'
      BY <1>1, <3>1, <3>2 DEF ReadInv
    <3>6. ReadsFiles'
      BY <1>1, <3>1, <3>2, <3>4 DEF ReadsFiles
    <3> QED BY <1>2, <3>3, <3>5, <3>6 DEF RInv
  <2> QED BY <2>3, <2>4
<1> QED BY <1>5, <1>6

-----------------------------------------------------------------------------
(* What Write and End add                                                  *)

\* The text t of the lexemes q, behind what is written already.
Adds(t, q) ==
    /\ q \in Seq(Lexeme) /\ q # <<>> /\ t \in Seq(Chars) /\ t # <<>>
    /\ Unread(t, q)
    /\ file # <<>> /\ IsWord(Last(file)) => t[1] \in {" ", "\n"} \cup Special

\* A phrase, or the one lexeme that the file ends within.
LEMMA WhatIsAdded ==
    ASSUME NEW q \in Seq(Lexeme), q # <<>>, \A i \in 1..Len(q) : q[i] # <<>>, NEW h, h[1] = q[1][1],
           NEW b \in Layout(h), NEW t,
           \/ Len(q) = 1 /\ t = b \o q[1]
           \/ t = b \o Written(q) /\ ~IsWord(Last(q)),
           h[1] \in Special => q[1][1] \in Special,
           file # <<>> /\ IsWord(Last(file)) /\ b = <<>> => h[1] \in Special
    PROVE  Adds(t, q)
<1>1. b \in Gaps
  BY DEF Layout, Gaps
<1>2. PICK l : l = q[1]
  OBVIOUS
<1>3. l \in Seq(Chars) /\ l # <<>> /\ Head(q) = l /\ Tail(q) \in Seq(Lexeme) /\ 1 \in 1..Len(q)
  <2>1. 1 \in 1..Len(q)
    BY EmptySeq, LenProperties
  <2>2. l \in Lexeme /\ l # <<>>
    BY <1>2, <2>1, ElementOfSeq
  <2> QED BY <1>2, <2>1, <2>2, HeadTailProperties DEF Lexeme
<1>4. PICK x : /\ t = b \o x
               /\ \/ Len(q) = 1 /\ x = l
                  \/ x = Written(q) /\ ~IsWord(Last(q))
  BY <1>2
<1>5. \E y \in Seq(Chars) : x = l \o y
  <2>1. CASE x = l
    <3>1. l = l \o <<>> /\ <<>> \in Seq(Chars)
      BY <1>3, ConcatEmptySeq, EmptySeq
    <3> QED BY <2>1, <3>1
  <2>2. CASE x = Written(q)
    <3>1. x = (l \o Sep(l)) \o Written(Tail(q))
      BY <1>3, <2>2, WrittenFront
    <3>2. Sep(l) \in Seq(Chars) /\ Written(Tail(q)) \in Seq(Chars)
      BY <1>3, SepType, WrittenType
    <3>3. PICK u, v : u = Sep(l) /\ v = Written(Tail(q))
      OBVIOUS
    <3>4. u \in Seq(Chars) /\ v \in Seq(Chars) /\ x = (l \o u) \o v
      BY <3>1, <3>2, <3>3
    <3>5. x = l \o (u \o v) /\ u \o v \in Seq(Chars)
      <4>1. (l \o u) \o v = l \o (u \o v)
        BY <1>3, <3>4, Assoc
      <4>2. u \o v \in Seq(Chars)
        BY <3>4, ConcatProperties
      <4> QED BY <3>4, <4>1, <4>2
    <3> QED BY <3>5
  <2> QED BY <1>4, <2>1, <2>2
<1>6. x \in Seq(Chars) /\ x # <<>> /\ x[1] = l[1]
  <2>1. PICK y \in Seq(Chars) : x = l \o y
    BY <1>5
  <2>2. x \in Seq(Chars) /\ x # <<>> /\ Head(x) = l[1]
    BY <1>3, <2>1, JoinHead
  <2> QED BY <2>2, HeadTailProperties
<1>7. t \in Seq(Chars) /\ t # <<>>
  <2>1. b \in Seq(Chars)
    BY <1>1, GapType
  <2>2. CASE b = <<>>
    BY <1>4, <1>6, <2>2, ConcatEmptySeq
  <2>3. CASE b # <<>>
    BY <1>4, <1>6, <2>1, <2>3, JoinHead
  <2> QED BY <2>2, <2>3
<1>8. Unread(t, q)
  BY <1>1, <1>2, <1>4 DEF Unread
<1>9. ASSUME file # <<>>, IsWord(Last(file)) PROVE t[1] \in {" ", "\n"} \cup Special
  <2>1. CASE b = <<>>
    <3>1. t = x
      BY <1>4, <1>6, <2>1, ConcatEmptySeq
    <3>2. l[1] \in Special
      BY <1>2, <1>9, <2>1
    <3> QED BY <1>6, <3>1, <3>2
  <2>2. CASE b # <<>>
    <3>1. b \in Seq(Chars) /\ b[1] \in {" ", "\n"}
      BY <1>1, <2>2, GapType
    <3>2. Head(t) = b[1]
      <4>1. t = b \o x /\ x \in Seq(Chars)
        BY <1>4, <1>6
      <4>2. b \in Seq(Chars) /\ b # <<>>
        BY <2>2, <3>1
      <4>3. Head(b) = b[1]
        BY <4>2, HeadTailProperties
      <4>4. Head(t) = Head(b)
        BY <4>1, <4>2, JoinHead
      <4> QED BY <4>3, <4>4
    <3>3. Head(t) = t[1]
      BY <1>7, HeadTailProperties
    <3> QED BY <3>1, <3>2, <3>3
  <2> QED BY <2>1, <2>2
<1> QED BY <1>7, <1>8, <1>9 DEF Adds

\* The reader stands where it stood.
LEMMA StandsStill ==
    ASSUME TypeOK, FileIsWhole, ~ended, text = <<>>, NEW k, Reading(k), NEW q, Adds(text', q), file' = file \o q,
           state' = state, value' = value
    PROVE  Reading(k)' /\ k \in Nat /\ TokensTo(k)' = TokensTo(k)
<1>0. file \in Seq(Lexeme)
  BY DEF TypeOK
<1>1. PICK n \in Nat : n = Len(file)
  BY <1>0, LenProperties
<1>2. PICK m \in Nat : m = Len(q)
  BY LenProperties DEF Adds
<1>3. PICK f : f = file'
  OBVIOUS
<1>4. /\ f \in Seq(Lexeme) /\ Len(f) = n + m /\ SubSeq(f, n + 1, Len(f)) = q
      /\ \A i \in 1..n : f[i] = file[i]
  <2>1. f = file \o q /\ q \in Seq(Lexeme)
    BY <1>3 DEF Adds
  <2> QED BY <1>0, <1>1, <1>2, <2>1, RestOfMore
<1>5. m >= 1
  <2>1. m # 0
    BY <1>2, EmptySeq DEF Adds
  <2> QED BY <2>1
<1>6. Rest(n)' = q
  BY <1>3, <1>4 DEF Rest
<1>7. Unread(text, Rest(n))'
  <2>1. Unread(text', q)
    BY DEF Adds
  <2> QED BY <1>6, <2>1 DEF Unread
<1>8. k \in Nat /\ k <= n
  <2>1. k \in Nat /\ (k = n \/ k + 1 = n)
    BY <1>1, NothingLeft
  <2> QED BY <2>1
<1>9. TokensTo(k)' = TokensTo(k)
  <2>1. k <= Len(file) /\ k <= Len(f) /\ \A i \in 1..k : file[i] = f[i]
    BY <1>1, <1>4, <1>8
  <2>2. SubSeq(file, 1, k) = SubSeq(f, 1, k)
    BY <1>0, <1>4, <1>8, <2>1, InitialSame
  <2> QED BY <1>3, <2>2 DEF TokensTo
<1>10. CASE k = n /\ Between(k)
  <2>1. state' = "whitespace" /\ value' = <<>>
    BY <1>10 DEF Between
  <2>2. n <= n + m /\ n # n + m
    BY <1>5
  <2>3. Between(n)'
    BY <1>3, <1>4, <1>7, <2>1, <2>2 DEF Between
  <2> QED BY <1>8, <1>9, <1>10, <2>3 DEF Reading
<1>11. CASE k + 1 = n /\ value = file[n] /\ state = StateIn(file[n]) /\ value # <<>> /\ file[n] \notin Marks
            /\ (~IsWord(file[n]) => Cut(file[n]))
  <2>1. PICK l : l = file[n]
    OBVIOUS
  <2>2. n \in 1..n /\ n <= n + m /\ n # n + m /\ n > 0
    BY <1>5, <1>8, <1>11
  <2>3. f[n] = l
    BY <1>4, <2>1, <2>2
  <2>4. Whole(l)
    BY <1>1, <2>1, <2>2 DEF FileIsWhole
  <2>5. /\ l \in Lexeme /\ Len(l) \in Nat /\ Len(l) >= 1
        /\ l[1] \in Letters \cup Quotes \cup Special \cup {"#"}
        /\ l \in Marks <=> l[1] \in Special
        /\ l[1] \in Quotes \cup {"#"} => EndsWhere(l)
    BY <2>4, LexemeIs
  <2>6. IsWord(l)
    <3> SUFFICES ASSUME ~IsWord(l) PROVE FALSE
      OBVIOUS
    <3>1. EndsWhere(l) /\ Cut(l)
      BY <1>11, <2>1, <2>5 DEF IsWord
    <3> QED BY <2>4, <2>5, <3>1, EndsFacts
  <2>7. file # <<>> /\ Last(file) = l
    BY <1>1, <2>1, <2>2, TokensAre
  <2>8. text' \in Seq(Chars) /\ text' # <<>> /\ text'[1] \in {" ", "\n"} \cup Special
    BY <2>6, <2>7 DEF Adds
  <2>9. value' = l /\ value' # <<>> /\ state' = StateIn(l) /\ l \notin Marks
    BY <1>11, <2>1
  <2>10. value' \o <<>> = l /\ text' = <<>> \o text' /\ <<>> \in Seq(Chars)
    <3>1. l \in Seq(Chars)
      BY <2>5 DEF Lexeme
    <3> QED BY <2>8, <2>9, <3>1, ConcatEmptySeq, EmptySeq
  <2>11. Within(k, <<>>, text)'
    <3>1. file'[k + 1] = l /\ Len(file') = n + m /\ k + 1 = n
      BY <1>3, <1>4, <1>11, <2>3
    <3>2. Unread(text, Rest(k + 1))'
      BY <1>7, <3>1
    <3>3. k + 1 <= Len(file') /\ k + 1 # Len(file')
      BY <2>2, <3>1
    <3> QED BY <1>8, <2>6, <2>8, <2>9, <2>10, <3>1, <3>2, <3>3 DEF Within
  <2>12. Reading(k)'
    BY <2>8, <2>10, <2>11 DEF Reading
  <2> QED BY <1>8, <1>9, <2>12
<1> QED BY <1>1, <1>10, <1>11, NothingLeft

\* ParsedAs does not change when Parse does nothing.
LEMMA ParsedAsSame ==
    ASSUME NEW R, ParsedAs(R), UNCHANGED <<last_token_type, config_stack, blocks>>
    PROVE  ParsedAs(R)'
<1>1. Prints(R)' <=> Prints(R)
  BY SerializedSame DEF Prints
<1> QED BY <1>1 DEF ParsedAs

\* More of the file.
LEMMA MoreKeepsReading ==
    ASSUME RInv, TInv', outcome = "parsing", text = <<>>, ~ended, NEW q, Adds(text', q), file' = file \o q,
           \A i \in 1..Len(q) : Whole(q[i]) \/ (i = 1 /\ Len(q) = 1 /\ ended' /\ Cut(q[i])),
           UNCHANGED <<state, value, last_token_type, config_stack, blocks, outcome>>
    PROVE  RInv'
<1>0. TInv /\ TypeOK /\ OnThePath /\ FileIsWhole /\ ReadInv
  BY DEF RInv, TInv
<1>1. last_token_type # "EOF"
  BY <1>0 DEF ReadInv
<1>2. PICK k \in Nat, R \in Strip : Reading(k) /\ R = TokensTo(k) /\ ParsedAs(R)
  BY <1>0, <1>1 DEF ReadInv
<1>3. Reading(k)' /\ TokensTo(k)' = TokensTo(k)
  BY <1>0, <1>2, StandsStill
<1>4. ParsedAs(R)'
  BY <1>2, ParsedAsSame
<1>5. R = TokensTo(k)'
  BY <1>2, <1>3
<1>6. ReadInv'
  BY <1>1, <1>2, <1>3, <1>4, <1>5 DEF ReadInv
<1>7. ReadsFiles'
  BY DEF ReadsFiles
<1>8. OnThePath'
  BY <1>0, PathKeeps
<1>9. FileIsWhole'
  <2>1. PICK n \in Nat : n = Len(file)
    BY <1>0, LenProperties DEF TypeOK
  <2>2. PICK m \in Nat : m = Len(q)
    BY LenProperties DEF Adds
  <2>3. PICK f : f = file'
    OBVIOUS
  <2>4. /\ Len(f) = n + m
        /\ \A i \in 1..n : f[i] = file[i]
        /\ \A i \in 1..m : f[n + i] = q[i]
    <3>1. file \in Seq(Lexeme) /\ q \in Seq(Lexeme) /\ f = file \o q
      BY <1>0, <2>3 DEF TypeOK, Adds
    <3> QED BY <2>1, <2>2, <3>1, RestOfMore
  <2>5. ASSUME NEW i \in 1..(n + m) PROVE Whole(f[i]) \/ (i = n + m /\ ended' /\ Cut(f[i]))
    <3>1. CASE i \in 1..n
      <4>1. Whole(file[i])
        BY <1>0, <2>1, <3>1 DEF FileIsWhole
      <4> QED BY <2>4, <3>1, <4>1
    <3>2. CASE i \notin 1..n
      <4>1. PICK j \in Nat : j = i - n
        BY <3>2
      <4>2. j \in 1..m /\ i = n + j
        BY <3>2, <4>1
      <4>3. f[i] = q[j]
        BY <2>4, <4>2
      <4>4. Whole(q[j]) \/ (j = 1 /\ m = 1 /\ ended' /\ Cut(q[j]))
        BY <2>2, <4>2
      <4> QED BY <4>2, <4>3, <4>4
    <3> QED BY <3>1, <3>2
  <2> QED BY <2>3, <2>4, <2>5 DEF FileIsWhole
<1> QED BY <1>6, <1>7, <1>8, <1>9 DEF RInv

LEMMA LayoutIs ==
    ASSUME NEW h, NEW b \in Layout(h)
    PROVE  file # <<>> /\ IsWord(Last(file)) /\ b = <<>> => h[1] \in Special
BY DEF Layout

LEMMA WriteKeepsReading ==
    ASSUME RInv, NEW p \in Phrases, Write(p), TInv'
    PROVE  RInv'
<1>1. p \in Seq(Lexeme) /\ p # <<>> /\ Head(p) = p[1] /\ Len(p) \in Nat
  <2>1. p \in Seq(Lexeme) /\ p # <<>>
    BY PhraseFacts
  <2> QED BY <2>1, HeadTailProperties, LenProperties
<1>2. (\A i \in 1..Len(p) : Whole(p[i])) /\ (Len(p) > 1 => ~IsWord(Last(p)))
  <2>1. DOMAIN p = 1..Len(p)
    BY <1>1, LenProperties
  <2> QED BY <2>1, ConfigParserAssumption
<1>3. \A i \in 1..Len(p) : p[i] # <<>>
  BY <1>2, LexemeIs
<1>4. PICK b \in Layout(Head(p)) : text' = b \o (IF Len(p) = 1 THEN Head(p) ELSE Written(p))
  BY DEF Write
<1>5. /\ outcome = "parsing" /\ text = <<>> /\ ~ended /\ ended' = ended /\ file' = file \o p
      /\ UNCHANGED <<state, value, last_token_type, config_stack, blocks, outcome>>
  BY DEF Write
<1>6. \/ Len(p) = 1 /\ text' = b \o p[1]
      \/ text' = b \o Written(p) /\ ~IsWord(Last(p))
  <2>1. CASE Len(p) = 1
    BY <1>1, <1>4, <2>1
  <2>2. CASE Len(p) # 1
    <3>1. Len(p) # 0
      BY <1>1, EmptySeq
    <3>2. Len(p) > 1
      <4>1. \A n \in Nat : n # 0 /\ n # 1 => n > 1
        OBVIOUS
      <4> QED BY <1>1, <2>2, <3>1, <4>1
    <3> QED BY <1>2, <1>4, <2>2, <3>2
  <2> QED BY <2>1, <2>2
<1>7. Adds(text', p)
  <2>1. PICK t, h : t = text' /\ h = Head(p)
    OBVIOUS
  <2>2. b \in Layout(h) /\ h[1] = p[1][1]
    BY <1>1, <1>4, <2>1
  <2>3. file # <<>> /\ IsWord(Last(file)) /\ b = <<>> => h[1] \in Special
    BY <2>2, LayoutIs
  <2>4. \/ Len(p) = 1 /\ t = b \o p[1]
        \/ t = b \o Written(p) /\ ~IsWord(Last(p))
    BY <1>6, <2>1
  <2>5. Adds(t, p)
    BY <1>1, <1>3, <2>2, <2>3, <2>4, WhatIsAdded
  <2> QED BY <2>1, <2>5
<1> QED BY <1>2, <1>5, <1>7, MoreKeepsReading

\* What is left of a lexeme that the file ends within.
LEMMA FrontOfWhole ==
    ASSUME NEW l, Whole(l), Len(l) > 1, NEW f, f = Front(l)
    PROVE  f \in Lexeme /\ f # <<>> /\ f[1] = l[1] /\ (Whole(f) \/ Cut(f))
<1>1. /\ l \in Lexeme /\ l # <<>> /\ Len(l) \in Nat
      /\ l[1] \in Letters \cup Quotes \cup Special \cup {"#"}
      /\ IsWord(l) => l \in Seq(Letters)
      /\ l \in Marks <=> l[1] \in Special
      /\ l \in Marks => Len(l) = 1
      /\ l[1] \in Quotes \cup {"#"} => EndsWhere(l)
  BY LexemeIs
<1>2. PICK n \in Nat : n = Len(l) - 1
  BY <1>1
<1>3. n >= 1 /\ n + 1 = Len(l) /\ 1 \in 1..n /\ n # 0
  BY <1>1, <1>2
<1>4. f \in Lexeme /\ Len(f) = n /\ \A i \in 1..n : f[i] = l[i]
  BY <1>1, <1>2, FrontIs DEF Lexeme
<1>5. f # <<>> /\ f[1] = l[1]
  BY <1>3, <1>4, EmptySeq DEF Lexeme
<1>6. CASE IsWord(l)
  <2>1. f \in Seq(Letters)
    BY <1>1, <1>6, FrontIs
  <2> QED BY <1>4, <1>5, <2>1 DEF Whole
<1>7. CASE ~IsWord(l)
  <2>1. Len(l) # 1
    BY <1>3
  <2>2. l[1] \in Quotes \/ l[1] = "#"
    BY <1>1, <1>7, <2>1 DEF IsWord
  <2>3. PICK E : E = EndsOf(l)
    OBVIOUS
  <2>4. ClosedBy(l, E)
    BY <1>1, <2>2, <2>3 DEF EndsWhere
  <2>5. \A i \in 2..n : l[i] \notin E
    BY <1>2, <2>4 DEF ClosedBy
  <2>6. \A i \in 2..n : i \in 1..n
    OBVIOUS
  <2>7. \A i \in 2..Len(f) : f[i] \notin E
    BY <1>4, <2>5, <2>6
  <2>8. CASE l[1] \in Quotes
    <3>1. E = {f[1]} /\ f[1] \in Quotes
      BY <1>5, <2>3, <2>8 DEF EndsOf
    <3> QED BY <1>4, <1>5, <2>7, <3>1 DEF Cut
  <2>9. CASE l[1] = "#"
    <3>1. E = {"\n", "\r"} /\ IsComment(f)
      BY <1>5, <2>3, <2>9 DEF EndsOf, IsComment, Quotes
    <3> QED BY <1>4, <1>5, <2>7, <3>1 DEF Cut
  <2> QED BY <2>2, <2>8, <2>9
<1> QED BY <1>4, <1>5, <1>6, <1>7

LEMMA EndsKeepReading ==
    ASSUME RInv, End, TInv'
    PROVE  RInv'
<1>0. TInv /\ TypeOK /\ OnThePath /\ FileIsWhole /\ ReadInv
  BY DEF RInv, TInv
<1>1. /\ outcome = "parsing" /\ text = <<>> /\ ~ended /\ ended'
      /\ UNCHANGED <<state, value, last_token_type, config_stack, blocks, outcome>>
  BY DEF End
<1>2. CASE UNCHANGED <<text, file>>
  <2>1. last_token_type # "EOF"
    BY <1>0, <1>1 DEF ReadInv
  <2>2. PICK k \in Nat, R \in Strip : Reading(k) /\ R = TokensTo(k) /\ ParsedAs(R)
    BY <1>0, <1>1, <2>1 DEF ReadInv
  <2>3. Reading(k)'
    BY <1>1, <1>2, <2>2 DEF Reading, Between, Within, Rest
  <2>4. ParsedAs(R)'
    BY <1>1, <2>2, ParsedAsSame
  <2>5. R = TokensTo(k)'
    BY <1>2, <2>2 DEF TokensTo
  <2>6. ReadInv'
    BY <1>1, <2>1, <2>2, <2>3, <2>4, <2>5 DEF ReadInv
  <2>7. ReadsFiles'
    BY <1>1 DEF ReadsFiles
  <2>8. OnThePath'
    BY <1>0, <1>1, PathKeeps
  <2>9. FileIsWhole'
    BY <1>0, <1>1, <1>2 DEF FileIsWhole
  <2> QED BY <2>6, <2>7, <2>8, <2>9 DEF RInv
<1>3. CASE ~UNCHANGED <<text, file>>
  <2>1. PICK p \in Phrases : \E b \in Layout(Head(p)) :
            /\ Len(p) = 1 /\ Len(Head(p)) > 1
            /\ text' = b \o Front(Head(p))
            /\ file' = Append(file, Front(Head(p)))
    BY <1>3 DEF End
  <2>2. PICK b \in Layout(Head(p)) :
            text' = b \o Front(Head(p)) /\ file' = Append(file, Front(Head(p)))
    BY <2>1
  <2>3. PICK h, f, t : h = Head(p) /\ f = Front(h) /\ t = text'
    OBVIOUS
  <2>4. Whole(h) /\ Len(h) > 1
    <3>1. p \in Seq(Lexeme) /\ p # <<>> /\ Len(p) = 1
      BY <2>1, PhraseFacts
    <3>2. h = p[1] /\ 1 \in DOMAIN p
      BY <2>3, <3>1, HeadTailProperties, LenProperties
    <3> QED BY <2>1, <2>3, <3>2, ConfigParserAssumption
  <2>5. f \in Lexeme /\ f # <<>> /\ f[1] = h[1] /\ (Whole(f) \/ Cut(f))
    BY <2>3, <2>4, FrontOfWhole
  <2>6. PICK q : q = <<f>>
    OBVIOUS
  <2>7. q \in Seq(Lexeme) /\ Len(q) = 1 /\ q[1] = f /\ q # <<>>
    <3>1. q \in Seq(Lexeme)
      BY <2>5, <2>6, SingletonSeq
    <3>2. Len(q) = 1 /\ q[1] = f
      BY <2>6
    <3>3. q # <<>>
      <4>1. Len(<<>>) = 0
        OBVIOUS
      <4> QED BY <3>2, <4>1
    <3> QED BY <3>1, <3>2, <3>3
  <2>8. file' = file \o q
    <3>1. file \in Seq(Lexeme) /\ file' = Append(file, f)
      BY <1>0, <2>2, <2>3 DEF TypeOK
    <3> QED BY <2>5, <2>6, <3>1, AppendIsConcat
  <2>9. Adds(text', q)
    <3>1. b \in Layout(h) /\ t = b \o q[1]
      BY <2>2, <2>3, <2>7
    <3>2. file # <<>> /\ IsWord(Last(file)) /\ b = <<>> => h[1] \in Special
      BY <3>1, LayoutIs
    <3>3. /\ \A i \in 1..Len(q) : q[i] # <<>>
          /\ h[1] = q[1][1]
      <4>1. \A i \in 1..1 : i = 1
        OBVIOUS
      <4> QED BY <2>5, <2>7, <4>1
    <3>4. Adds(t, q)
      BY <2>7, <3>1, <3>2, <3>3, WhatIsAdded
    <3> QED BY <2>3, <3>4
  <2>10. \A i \in 1..Len(q) : Whole(q[i]) \/ (i = 1 /\ Len(q) = 1 /\ ended' /\ Cut(q[i]))
    <3>1. \A i \in 1..1 : i = 1
      OBVIOUS
    <3> QED BY <1>1, <2>5, <2>7, <3>1
  <2> QED BY <1>1, <2>8, <2>9, <2>10, MoreKeepsReading
<1> QED BY <1>2, <1>3

LEMMA ReadsAtFirst == Init => RInv
<1> SUFFICES ASSUME Init PROVE RInv
  OBVIOUS
<1>1. TInv /\ TypeOK
  BY TInvInit DEF TInv
<1>2. file = <<>> /\ Len(<<>>) = 0 /\ 0 \in Nat /\ ended = FALSE /\ text = <<>>
  BY DEF Init
<1>3. FileIsWhole
  BY <1>2 DEF FileIsWhole
<1>4. OnThePath
  <2>1. Len(blocks) = 1 /\ blocks[1] = <<>>
    BY DEF Init
  <2> QED BY <1>2, <2>1 DEF OnThePath
<1>5. TokensTo(0) = <<>> /\ <<>> \in Strip /\ <<>> \in Seq(Lexeme)
  <2>1. 0 = Len(file)
    BY <1>2
  <2> QED BY <1>1, <2>1, TokensToFacts, MarksType DEF Strip
<1>6. Between(0)
  <2>1. Unread(<<>>, <<>>)
    <3>1. <<>> \in Gaps /\ <<>> = <<>> \o Written(<<>>)
      BY WrittenNothing, WrittenType, <1>5, ConcatEmptySeq DEF Gaps
    <3> QED BY <3>1 DEF Unread
  <2>2. Rest(0) = <<>>
    <3>1. Rest(0) \in Seq(Lexeme) /\ Len(Rest(0)) = 0 - 0
      <4>1. file \in Seq(Lexeme) /\ 0 = Len(file) /\ 0 <= 0
        BY <1>2, <1>5
      <4> QED BY <4>1, RestIs DEF Rest
    <3> QED BY <3>1, EmptySeq
  <2> QED BY <1>2, <2>1, <2>2 DEF Between, Init
<1>7. ParsedAs(<<>>)
  <2>1. ~Misused(<<>>)
    <3>1. ~ \E i \in 1..0 : Misplacing(<<>>, i)
      OBVIOUS
    <3> QED BY <1>2, <1>5, <3>1, MisusedIs
  <2>2. last_token_type = "START" /\ TypeAfter(<<>>) = "START"
    BY DEF Init, TypeAfter
  <2>3. config_stack # <<>> /\ config_stack[1] = 1 /\ Len(config_stack) = 1
    BY DEF Init
  <2>4. ~Overclosed(<<>>)
    BY DEF Overclosed
  <2>5. Count(<<>>, "{") = 0 /\ Count(<<>>, "}") = 0
    BY <1>5, CountType
  <2>6. Count(<<>>, "{") = Count(<<>>, "}") + Len(config_stack) - 1
    <3>1. PICK a, b, K : a = Count(<<>>, "{") /\ b = Count(<<>>, "}") /\ K = Len(config_stack)
      OBVIOUS
    <3>2. a = 0 /\ b = 0 /\ K = 1
      BY <2>3, <2>5, <3>1
    <3>3. a = b + K - 1
      BY <3>2
    <3> QED BY <3>1, <3>3
  <2>7. Prints(<<>>)
    <3>1. Serialized[1] = <<>>
      <4>1. 1 \in 1..Len(blocks) /\ blocks[1] = <<>>
        BY DEF Init
      <4>2. PICK B : B = blocks
        OBVIOUS
      <4>3. Tree(B)
        BY <1>1, <4>2 DEF Tree, TInv, TypeOK, ChildrenAreYounger
      <4>4. Printed(B)[1] = <<>>
        BY <4>1, <4>2, <4>3, PrintedEmpty
      <4> QED BY <4>2, <4>4, SerializedIs
    <3>2. Closing(Len(config_stack) - 1) = <<>>
      <4>1. Len(config_stack) - 1 = 0
        BY <2>3
      <4> QED BY <4>1, ClosingIs
    <3>3. (<<>> \o (IF last_token_type = "NORMAL" THEN Semi ELSE <<>>)) \o Closing(Len(config_stack) - 1) = <<>>
      <4>1. (IF last_token_type = "NORMAL" THEN Semi ELSE <<>>) = <<>>
        BY <2>2
      <4>2. <<>> \o <<>> = <<>>
        BY <1>5, ConcatEmptySeq
      <4> QED BY <3>2, <4>1, <4>2
    <3> QED BY <3>1, <3>3 DEF Prints
  <2> QED BY <2>1, <2>2, <2>3, <2>4, <2>6, <2>7 DEF ParsedAs
<1>8. ReadInv
  <2>1. last_token_type # "EOF" /\ Reading(0)
    BY <1>6 DEF Init, Reading
  <2> QED BY <1>2, <1>5, <1>7, <2>1 DEF ReadInv
<1>9. ReadsFiles
  BY DEF Init, ReadsFiles
<1> QED BY <1>1, <1>3, <1>4, <1>8, <1>9 DEF RInv

LEMMA StillReads ==
    ASSUME RInv, TInv', UNCHANGED <<input, state, value, last_token_type, config_stack, blocks, outcome>>
    PROVE  RInv'
<1>0. TInv /\ TypeOK /\ OnThePath /\ FileIsWhole /\ ReadInv /\ ReadsFiles
  BY DEF RInv, TInv
<1>1. UNCHANGED <<text, ended, file, state, value, last_token_type, config_stack, blocks, outcome>>
  BY DEF input
<1>2. Tokens' = Tokens /\ UnclosedString' = UnclosedString /\ Serialized' = Serialized
  BY <1>1, SerializedSame DEF Tokens, UnclosedString
<1>3. FileIsWhole' /\ OnThePath'
  BY <1>0, <1>1, PathKeeps DEF FileIsWhole
<1>4. ReadsFiles'
  BY <1>0, <1>1, <1>2 DEF ReadsFiles
<1>5. ReadInv'
  <2>1. CASE outcome # "parsing"
    BY <1>1, <2>1 DEF ReadInv
  <2>2. CASE outcome = "parsing" /\ last_token_type = "EOF"
    BY <1>0, <1>1, <1>2, <2>2 DEF ReadInv
  <2>3. CASE outcome = "parsing" /\ last_token_type # "EOF"
    <3>1. PICK k \in Nat, R \in Strip : Reading(k) /\ R = TokensTo(k) /\ ParsedAs(R)
      BY <1>0, <2>3 DEF ReadInv
    <3>2. Reading(k)'
      BY <1>1, <3>1 DEF Reading, Between, Within, Rest
    <3>3. ParsedAs(R)'
      BY <1>1, <3>1, ParsedAsSame
    <3>4. R = TokensTo(k)'
      BY <1>1, <3>1 DEF TokensTo
    <3> QED BY <1>1, <2>3, <3>1, <3>2, <3>3, <3>4 DEF ReadInv
  <2> QED BY <2>1, <2>2, <2>3
<1> QED BY <1>3, <1>4, <1>5 DEF RInv

LEMMA ReadsOn == RInv /\ [Next]_vars => RInv'
<1> SUFFICES ASSUME RInv, [Next]_vars PROVE RInv'
  OBVIOUS
<1>0. TInv'
  BY TInvStep DEF RInv
<1>1. ASSUME NEW p \in Phrases, Write(p) PROVE RInv'
  BY <1>0, <1>1, WriteKeepsReading
<1>2. CASE End
  BY <1>0, <1>2, EndsKeepReading
<1>3. CASE ParseToken
  BY <1>0, <1>3, TokenKeepsReading
<1>4. CASE ParseTokenEnds
  BY <1>0, <1>4, EndKeepsReading
<1>5. CASE main
  BY <1>0, <1>5, StillReads DEF main
<1>6. CASE UNCHANGED vars
  BY <1>0, <1>6, StillReads DEF vars
<1> QED BY <1>1, <1>2, <1>3, <1>4, <1>5, <1>6 DEF Next

\* Whatever is written in the file, with any layout, comments and strings, and
\* wherever it ends: Parse returns true for exactly the files that are made of
\* finished statements and blocks, and then what NginxConfig::ToString prints of the
\* blocks it has built is the file, token by token.
THEOREM FilesAreRead == Spec => []ReadsFiles
<1>1. RInv => ReadsFiles
  BY DEF RInv
<1> QED BY <1>1, ReadsAtFirst, ReadsOn, PTL DEF Spec

-----------------------------------------------------------------------------
(* What main serves                                                        *)

\* The tokens of a statement: at least one, and no mark.
WordsOf == {t \in Strip : t # <<>> /\ \A i \in 1..Len(t) : t[i] \notin Marks}

\* Every statement has tokens.
Worded == blocks \in Seq(Seq(StatementsOf(WordsOf)))

LEMMA WordsGrow ==
    ASSUME NEW l \in Lexeme, l \notin Marks
    PROVE  <<l>> \in WordsOf /\ \A t \in WordsOf : Append(t, l) \in WordsOf
<1>1. <<l>> \in WordsOf
  <2>1. <<l>> \in Strip /\ Len(<<l>>) = 1 /\ <<l>>[1] = l /\ <<l>> # <<>>
    BY SingletonSeq DEF Strip
  <2>2. \A i \in 1..Len(<<l>>) : i = 1
    BY <2>1
  <2> QED BY <2>1, <2>2 DEF WordsOf
<1>2. ASSUME NEW t \in WordsOf PROVE Append(t, l) \in WordsOf
  <2>1. t \in Strip /\ \A i \in 1..Len(t) : t[i] \notin Marks
    BY DEF WordsOf
  <2>2. PICK n, u : n \in Nat /\ n = Len(t) /\ u = Append(t, l)
    BY <2>1, LenProperties DEF Strip
  <2>3. /\ u \in Strip /\ Len(u) = n + 1 /\ u[n + 1] = l /\ u # <<>>
        /\ \A i \in 1..n : u[i] = t[i]
    BY <2>1, <2>2, AppendFacts
  <2>4. \A i \in 1..(n + 1) : i \in 1..n \/ i = n + 1
    BY <2>2
  <2>5. \A i \in 1..Len(u) : u[i] \notin Marks
    BY <2>1, <2>2, <2>3, <2>4
  <2> QED BY <2>2, <2>3, <2>5 DEF WordsOf
<1> QED BY <1>1, <1>2

LEMMA WordedStep == RInv /\ Worded /\ [Next]_vars => Worded'
<1> SUFFICES ASSUME RInv, Worded, [Next]_vars PROVE Worded'
  OBVIOUS
<1>0. TypeOK /\ IInv /\ FileIsWhole /\ ReadInv
  BY DEF RInv, TInv
<1>1. ASSUME NEW type, NEW tok, Parse(type, tok), outcome = "parsing",
             type = "NORMAL" => tok \in Lexeme /\ tok \notin Marks
      PROVE  Worded'
  <2>1. type = "NORMAL" => <<tok>> \in WordsOf /\ \A t \in WordsOf : Append(t, tok) \in WordsOf
    BY <1>1, WordsGrow
  <2>2. PICK L : L = WordsOf
    OBVIOUS
  <2>3. blocks' \in Seq(Seq(StatementsOf(L)))
    BY <1>0, <1>1, <2>1, <2>2, BlocksStay DEF Worded
  <2> QED BY <2>2, <2>3 DEF Worded
<1>2. CASE ParseToken
  <2>1. outcome = "parsing"
    BY <1>2 DEF ParseToken
  <2>2. CASE last_token_type = "EOF"
    <3>1. text = <<>>
      BY <1>0, <2>1, <2>2 DEF ReadInv
    <3> QED BY <1>2, <3>1 DEF ParseToken
  <2>3. CASE last_token_type # "EOF"
    <3>1. PICK k \in Nat, R \in Strip : Reading(k) /\ R = TokensTo(k) /\ ParsedAs(R)
      BY <1>0, <2>1, <2>3 DEF ReadInv
    <3>2. CASE UNCHANGED blocks
      BY <3>2 DEF Worded
    <3>3. CASE Ended(k)
      <4>1. PICK n, l : n \in Nat /\ n = Len(file) /\ l = file[k + 1]
        BY <1>0, LenProperties DEF TypeOK
      <4>2. l \in Lexeme /\ k + 1 <= n
        BY <1>0, <3>3, <4>1, FileFacts DEF Ended
      <4>3. CASE IsComment(l)
        <5>1. PICK tok : Parse("COMMENT", tok)
          BY <3>3, <4>1, <4>3 DEF Ended
        <5> QED BY <1>1, <2>1, <5>1
      <4>4. CASE ~IsComment(l)
        <5>1. PICK tok : Parse(TypeOf(l), tok) /\ (TypeOf(l) = "NORMAL" => tok = l)
          BY <3>3, <4>1, <4>4 DEF Ended
        <5>2. TypeOf(l) = "NORMAL" => l \notin Marks
          BY TypeOfIs
        <5> QED BY <1>1, <2>1, <4>2, <5>1, <5>2
      <4> QED BY <4>3, <4>4
    <3> QED BY <1>0, <1>2, <3>1, <3>2, <3>3, Turn
  <2> QED BY <2>2, <2>3
<1>3. CASE ParseTokenEnds
  <2>1. CASE UNCHANGED blocks
    BY <2>1 DEF Worded
  <2>2. CASE Parse("EOF", <<>>)
    BY <1>1, <1>3, <2>2 DEF ParseTokenEnds
  <2> QED BY <1>3, <2>1, <2>2 DEF ParseTokenEnds
<1>4. CASE (\E p \in Phrases : Write(p)) \/ End \/ main \/ UNCHANGED vars
  <2>1. UNCHANGED blocks
    BY <1>4 DEF Write, End, main, vars
  <2> QED BY <2>1 DEF Worded
<1> QED BY <1>2, <1>3, <1>4 DEF Next

\* What main has taken from the blocks.
MainServes ==
    /\ started # "no" => outcome \in {"true", "false"}
    /\ started = "serving" =>
          /\ outcome = "true"
          /\ ports = get_port[1].ports /\ threads = get_threads[1]
          /\ (\E i \in DOMAIN ports : ports[i].type = <<"http">>) => get_hostname # "none"

\* What the getters find in the blocks B.
PortsOfAll(B)   == CHOOSE g : g = [b \in 1..Len(B) |-> PortsIn(g, B[b])]
ThreadsOfAll(B) == CHOOSE g : g = [b \in 1..Len(B) |-> ThreadsIn(g, B[b])]

FirstHost(p) == SelectInSeq(p, LAMBDA s : Keyword(s, "hostname"))

HostOfAll(B) ==
    IF FirstHost(B[1]) = 0 THEN "none"
    ELSE IF B[1][FirstHost(B[1])].tokens[
              SelectInSeq(B[1][FirstHost(B[1])].tokens, LAMBDA t : t = <<"hostname">>) + 1][1] = "\""
    THEN "quoted" ELSE "unquoted"

LEMMA GettersAre ==
    /\ get_port = PortsOfAll(blocks) /\ get_port' = PortsOfAll(blocks')
    /\ get_threads = ThreadsOfAll(blocks) /\ get_threads' = ThreadsOfAll(blocks')
    /\ get_hostname = HostOfAll(blocks) /\ get_hostname' = HostOfAll(blocks')
<1>1. get_port = PortsOfAll(blocks)
  BY Zenon DEF PortsOfAll, get_port, PortsIn, PortsTable, PortsWith, NoPorts, FoldLeft, MapThenFoldSet
<1>2. get_port' = PortsOfAll(blocks')
  BY Zenon DEF PortsOfAll, get_port, PortsIn, PortsTable, PortsWith, NoPorts, FoldLeft, MapThenFoldSet
<1>3. get_threads = ThreadsOfAll(blocks)
  BY Zenon DEF ThreadsOfAll, get_threads, ThreadsIn, ThreadsOf, FirstDeciding, KeywordAt, SelectInSeq
<1>4. get_threads' = ThreadsOfAll(blocks')
  BY Zenon DEF ThreadsOfAll, get_threads, ThreadsIn, ThreadsOf, FirstDeciding, KeywordAt, SelectInSeq
<1>5. get_hostname = HostOfAll(blocks)
  BY Zenon DEF HostOfAll, get_hostname, FirstHost, SelectInSeq
<1>6. get_hostname' = HostOfAll(blocks')
  BY Zenon DEF HostOfAll, get_hostname, FirstHost, SelectInSeq
<1> QED BY <1>1, <1>2, <1>3, <1>4, <1>5, <1>6

LEMMA GettersSame ==
    ASSUME blocks' = blocks
    PROVE  get_port' = get_port /\ get_threads' = get_threads /\ get_hostname' = get_hostname
BY GettersAre

LEMMA MainServesStep == TypeOK /\ MainServes /\ [Next]_vars => MainServes'
<1> SUFFICES ASSUME TypeOK, MainServes, [Next]_vars PROVE MainServes'
  OBVIOUS
<1>1. CASE main
  <2>1. /\ outcome \in {"true", "false"} /\ UNCHANGED <<outcome, blocks>>
        /\ ports' = get_port[1].ports /\ threads' = get_threads[1]
    BY <1>1 DEF main
  <2>2. /\ get_port' = get_port /\ get_threads' = get_threads /\ get_hostname' = get_hostname
    BY <2>1, GettersSame
  <2>3. started' = "serving" => /\ outcome # "false"
                                /\ (\E i \in DOMAIN ports' : ports'[i].type = <<"http">>) => get_hostname # "none"
    BY <1>1 DEF main
  <2> QED BY <2>1, <2>2, <2>3 DEF MainServes
<1>2. CASE started = "no" /\ UNCHANGED server
  BY <1>2 DEF server, MainServes
<1>3. CASE started # "no" /\ ~main
  <2>1. outcome # "parsing"
    BY <1>3 DEF MainServes
  <2>2. UNCHANGED <<outcome, blocks, started, ports, threads>>
    BY <1>3, <2>1 DEF Next, vars, Write, End, ParseToken, ParseTokenEnds, server
  <2> QED BY <2>2, GettersSame DEF MainServes
<1>4. main \/ UNCHANGED server
  BY DEF Next, vars, Write, End, ParseToken, ParseTokenEnds, input
<1> QED BY <1>1, <1>2, <1>3, <1>4

SInv == RInv /\ Worded /\ MainServes

LEMMA SInvInit == Init => SInv
<1> SUFFICES ASSUME Init PROVE SInv
  OBVIOUS
<1>1. RInv
  BY ReadsAtFirst
<1>2. Worded
  <2>1. PICK T : T = Seq(StatementsOf(WordsOf))
    OBVIOUS
  <2>2. <<>> \in T
    BY <2>1, EmptySeq
  <2>3. << <<>> >> \in Seq(T)
    BY <2>2, SingletonSeq
  <2> QED BY <2>1, <2>3 DEF Init, Worded
<1>3. MainServes
  BY DEF Init, MainServes
<1> QED BY <1>1, <1>2, <1>3 DEF SInv

LEMMA SInvStep == SInv /\ [Next]_vars => SInv'
BY ReadsOn, WordedStep, MainServesStep DEF SInv, RInv, TInv

-----------------------------------------------------------------------------
(* Where what is printed stands                                            *)

\* x stands in ts behind the first o tokens.
At(ts, o, x) ==
    /\ ts \in Strip /\ x \in Strip /\ o \in Nat /\ o + Len(x) <= Len(ts)
    /\ \A i \in 1..Len(x) : ts[o + i] = x[i]

\* A statement can begin behind the first o tokens.
Fresh(ts, o) == o = 0 \/ ts[o] \in Marks

Parts(ts, o, x, y, z, m, n, o1) ==
    At(ts, o, x) /\ At(ts, o1, y) /\ Len(z) = m + n /\ m \in Nat /\ n \in Nat

LEMMA AtThen ==
    ASSUME NEW ts, NEW o, NEW x \in Strip, NEW y \in Strip, NEW z, z = Then(x, y), At(ts, o, z),
           NEW m, m = Len(x), NEW n, n = Len(y), NEW o1, o1 = o + m
    PROVE  Parts(ts, o, x, y, z, m, n, o1)
<1>1. m \in Nat /\ n \in Nat
  BY LenProperties DEF Strip
<1>3. Len(z) = m + n /\ \A i \in 1..(m + n) : z[i] = IF i <= m THEN x[i] ELSE y[i - m]
  BY <1>1, ConcatProperties DEF Strip, Then
<1>4. /\ ts \in Strip /\ o \in Nat /\ Len(ts) \in Nat /\ o + (m + n) <= Len(ts)
      /\ \A i \in 1..(m + n) : ts[o + i] = z[i]
  BY <1>3, LenProperties DEF At, Strip
<1>5. At(ts, o, x)
  <2>1. o + m <= Len(ts)
    BY <1>1, <1>4
  <2>2. \A i \in 1..m : ts[o + i] = x[i]
    <3>1. \A i \in 1..m : i \in 1..(m + n) /\ i <= m
      BY <1>1
    <3> QED BY <1>3, <1>4, <3>1
  <2> QED BY <1>1, <1>4, <2>1, <2>2 DEF At
<1>6. At(ts, o1, y)
  <2>1. o1 + n <= Len(ts) /\ o1 \in Nat
    BY <1>1, <1>4
  <2>2. ASSUME NEW i \in 1..n PROVE ts[o1 + i] = y[i]
    <3>1. m + i \in 1..(m + n) /\ ~(m + i <= m) /\ (m + i) - m = i /\ o + (m + i) = o1 + i
      BY <1>1, <1>4
    <3>2. ts[o + (m + i)] = z[m + i] /\ z[m + i] = y[(m + i) - m]
      BY <1>3, <1>4, <3>1
    <3> QED BY <3>1, <3>2
  <2> QED BY <1>1, <1>4, <2>1, <2>2 DEF At
<1> QED BY <1>1, <1>3, <1>5, <1>6 DEF Parts

LEMMA AtOne ==
    ASSUME NEW ts, NEW o, NEW x, At(ts, o, x), Len(x) = 1
    PROVE  ts[o + 1] = x[1]
<1>1. 1 \in 1..Len(x)
  OBVIOUS
<1> QED BY <1>1 DEF At

\* The end of a statement stands behind r.
Closes(B, ts, s, r, e) ==
    IF s.child = 0 THEN ts[r + 1] = <<";">> /\ e = r + 1
    ELSE /\ ts[r + 1] = <<"{">> /\ At(ts, r + 1, Printed(B)[s.child])
         /\ e = r + 1 + Len(Printed(B)[s.child]) + 1 /\ ts[e] = <<"}">>

\* A statement stands from q to e.
StandsAt(B, ts, s, q, e) ==
    /\ q \in Nat /\ e \in Nat /\ Fresh(ts, q)
    /\ Len(s.tokens) \in Nat /\ Len(s.tokens) >= 1
    /\ q + Len(s.tokens) + 1 <= e /\ e <= Len(ts)
    /\ \A j \in 1..Len(s.tokens) : ts[q + j] = s.tokens[j] /\ ts[q + j] \notin Marks
    /\ Closes(B, ts, s, q + Len(s.tokens), e)

\* The statements of the block b stand one behind the other, from o to e.
Placed(B, ts, b, o, e, w) ==
    /\ w \in [0..Len(B[b]) -> Nat]
    /\ w[0] = o /\ w[Len(B[b])] = e
    /\ \A k \in 0..(Len(B[b]) - 1) : StandsAt(B, ts, B[b][k + 1], w[k], w[k + 1])

Words(B) == B \in Seq(Seq(StatementsOf(WordsOf)))

LEMMA StatementStands ==
    ASSUME NEW B, NEW D, Printed(B) \in [D -> Strip], NEW s, s.child = 0 \/ s.child \in D,
           s.tokens \in WordsOf, NEW ts, NEW q, Fresh(ts, q), At(ts, q, Body(Printed(B), s)),
           NEW e, e = q + Len(Body(Printed(B), s))
    PROVE  StandsAt(B, ts, s, q, e) /\ Fresh(ts, e)
<1>1. PICK x : x = s.tokens
  OBVIOUS
<1>2. x \in Strip /\ x # <<>> /\ \A i \in 1..Len(x) : x[i] \notin Marks
  BY <1>1 DEF WordsOf
<1>3. PICK m \in Nat : m = Len(x) /\ m >= 1
  <2>1. Len(x) \in Nat /\ Len(x) # 0
    BY <1>2, EmptySeq DEF Strip
  <2> QED BY <2>1
<1>4. q \in Nat /\ Len(ts) \in Nat
  BY LenProperties DEF At, Strip
<1>5. Semi \in Strip /\ Open \in Strip /\ Shut \in Strip
  BY MarksType DEF Strip
<1>6. /\ Len(Semi) = 1 /\ Semi[1] = <<";">> /\ Len(Open) = 1 /\ Open[1] = <<"{">>
      /\ Len(Shut) = 1 /\ Shut[1] = <<"}">>
  BY DEF Semi, Open, Shut
<1>0. PICK r \in Nat : r = q + m
  BY <1>3, <1>4
<1>7. ASSUME NEW z, At(ts, q, x), At(ts, r, z), Len(z) \in Nat, e = r + Len(z), Len(z) >= 1,
             Closes(B, ts, s, r, e)
      PROVE  StandsAt(B, ts, s, q, e)
  <2>1. \A j \in 1..m : ts[q + j] = x[j]
    BY <1>3, <1>7 DEF At
  <2>2. q + m + 1 <= e /\ e <= Len(ts) /\ e \in Nat
    <3>1. r + Len(z) <= Len(ts)
      BY <1>7 DEF At
    <3> QED BY <1>0, <1>3, <1>4, <1>7, <3>1
  <2>3. Closes(B, ts, s, q + Len(s.tokens), e)
    BY <1>0, <1>1, <1>3, <1>7
  <2>4. \A j \in 1..Len(s.tokens) : ts[q + j] = s.tokens[j] /\ ts[q + j] \notin Marks
    BY <1>1, <1>2, <1>3, <2>1
  <2>5. Len(s.tokens) = m
    BY <1>1, <1>3
  <2> QED BY <1>3, <1>4, <2>2, <2>3, <2>4, <2>5 DEF StandsAt
<1>8. CASE s.child = 0
  <2>1. Body(Printed(B), s) = Then(x, Semi)
    BY <1>1, <1>8 DEF Body, Then
  <2>2. At(ts, q, Then(x, Semi)) /\ e = q + Len(Then(x, Semi))
    BY <2>1
  <2>3. At(ts, q, x) /\ At(ts, r, Semi) /\ Len(Then(x, Semi)) = m + 1
    <3>1. Parts(ts, q, x, Semi, Then(x, Semi), m, 1, r)
      BY <1>0, <1>2, <1>3, <1>5, <1>6, <2>2, AtThen
    <3> QED BY <3>1 DEF Parts
  <2>4. ts[r + 1] = <<";">>
    BY <1>6, <2>3, AtOne
  <2>5. e = r + 1
    <3>1. e = q + (m + 1)
      BY <2>2, <2>3
    <3> QED BY <1>0, <1>3, <1>4, <3>1
  <2>6. Closes(B, ts, s, r, e)
    BY <1>8, <2>4, <2>5 DEF Closes
  <2>7. Fresh(ts, e)
    BY <2>4, <2>5, MarksDiffer DEF Fresh
  <2>8. PICK z : z = Semi
    OBVIOUS
  <2>9. At(ts, r, z) /\ Len(z) \in Nat /\ Len(z) >= 1 /\ e = r + Len(z)
    <3>1. Len(z) = 1
      BY <1>6, <2>8
    <3> QED BY <2>3, <2>5, <2>8, <3>1
  <2> QED BY <1>7, <2>3, <2>6, <2>7, <2>9
<1>9. CASE s.child # 0
  <2>1. PICK y : y = Printed(B)[s.child]
    OBVIOUS
  <2>2. y \in Strip
    BY <1>9, <2>1
  <2>3. PICK n \in Nat : n = Len(y)
    BY <2>2, LenProperties DEF Strip
  <2>4. PICK v, z : v = Then(y, Shut) /\ z = Then(Open, v)
    OBVIOUS
  <2>5. v \in Strip /\ z \in Strip /\ Then(Then(Open, y), Shut) = z
    BY <1>5, <2>2, <2>4, Joining
  <2>6. Body(Printed(B), s) = Then(x, z)
    BY <1>1, <1>9, <2>1, <2>5 DEF Body, Then
  <2>7. At(ts, q, Then(x, z)) /\ e = q + Len(Then(x, z))
    BY <2>6
  <2>8. At(ts, q, x) /\ At(ts, r, z) /\ Len(Then(x, z)) = m + Len(z) /\ Len(z) \in Nat
    <3>1. Parts(ts, q, x, z, Then(x, z), m, Len(z), r)
      BY <1>0, <1>2, <1>3, <2>5, <2>7, AtThen
    <3> QED BY <3>1 DEF Parts
  <2>9. PICK r1 \in Nat : r1 = r + 1
    OBVIOUS
  <2>10. At(ts, r, Open) /\ At(ts, r1, v) /\ Len(z) = 1 + Len(v)
    <3>1. Parts(ts, r, Open, v, z, 1, Len(v), r1)
      BY <1>5, <1>6, <2>4, <2>5, <2>8, <2>9, AtThen
    <3> QED BY <3>1 DEF Parts
  <2>11. PICK r2 \in Nat : r2 = r1 + n
    OBVIOUS
  <2>12. At(ts, r1, y) /\ At(ts, r2, Shut) /\ Len(v) = n + 1
    <3>1. Parts(ts, r1, y, Shut, v, n, 1, r2)
      BY <1>5, <1>6, <2>2, <2>3, <2>4, <2>10, <2>11, AtThen
    <3> QED BY <3>1 DEF Parts
  <2>13. ts[r + 1] = <<"{">> /\ ts[r2 + 1] = <<"}">>
    BY <1>6, <2>10, <2>12, AtOne
  <2>14. Len(z) = n + 2
    <3>1. Len(z) = 1 + (n + 1)
      BY <2>10, <2>12
    <3> QED BY <3>1
  <2>15. e = r + Len(z) /\ e = r2 + 1
    <3>1. e = q + (m + (n + 2))
      BY <2>7, <2>8, <2>14
    <3> QED BY <1>0, <1>3, <1>4, <2>9, <2>11, <2>14, <3>1
  <2>16. Closes(B, ts, s, r, e)
    <3>1. At(ts, r + 1, Printed(B)[s.child]) /\ Len(Printed(B)[s.child]) = n
      BY <2>1, <2>3, <2>9, <2>12
    <3>2. e = r + 1 + n + 1 /\ ts[e] = <<"}">>
      BY <2>9, <2>11, <2>13, <2>15
    <3> QED BY <1>9, <2>13, <3>1, <3>2 DEF Closes
  <2>17. Fresh(ts, e)
    <3>1. ts[e] = <<"}">>
      BY <2>13, <2>15
    <3> QED BY <3>1, MarksDiffer DEF Fresh
  <2>18. Len(z) >= 1
    BY <2>14
  <2> QED BY <1>7, <2>8, <2>15, <2>16, <2>17, <2>18
<1> QED BY <1>8, <1>9

\* The statements of a block that is printed in ts.
LEMMA BlockStands ==
    ASSUME NEW B, Tree(B), Words(B), NEW b \in 1..Len(B), NEW ts, NEW o, Fresh(ts, o),
           At(ts, o, Printed(B)[b]), NEW e, e = o + Len(Printed(B)[b])
    PROVE  \E w : Placed(B, ts, b, o, e, w)
<1>1. PICK D, S, g, p : D = 1..Len(B) /\ S = StatementsWith(D) /\ g = Printed(B) /\ p = B[b]
  OBVIOUS
<1>2. g \in [D -> Strip] /\ g[b] = PrintsIn(g, p)
  <2>1. g \in [1..Len(B) -> Seq(Lexeme)] /\ g = [c \in 1..Len(B) |-> PrintsIn(g, B[c])]
    BY <1>1, PrintedIs
  <2> QED BY <1>1, <2>1, Zenon DEF Strip
<1>3. p \in Seq(S) /\ \A k \in 1..Len(p) : p[k].tokens \in WordsOf
  <2>1. p \in Seq(S)
    BY <1>1, TreeStatements
  <2>2. PICK T : T = StatementsOf(WordsOf)
    OBVIOUS
  <2>3. B \in Seq(Seq(T))
    BY <2>2 DEF Words
  <2>4. p \in Seq(T)
    BY <1>1, <2>3, ElementOfSeq
  <2>5. \A k \in 1..Len(p) : p[k] \in T
    BY <2>4, ElementOfSeq
  <2> QED BY <2>1, <2>2, <2>5 DEF StatementsOf
<1>4. PICK n \in Nat : n = Len(p)
  BY <1>3, LenProperties
<1>5. PICK st : st = [x \in Seq(Lexeme) \X S |-> x[1] \o Body(g, x[2])]
  OBVIOUS
<1>6. FoldsTo(Strip, st, <<>>, p, g[b])
  <2>1. g \in [D -> Seq(Lexeme)] /\ p \in Seq(StatementsWith(D)) /\ st = [x \in Seq(Lexeme) \X StatementsWith(D) |-> x[1] \o Body(g, x[2])]
    BY <1>1, <1>2, <1>3, <1>5 DEF Strip
  <2>2. FoldsTo(Seq(Lexeme), st, <<>>, p, PrintsIn(g, p))
    BY <2>1, PrintSteps
  <2> QED BY <1>2, <2>2 DEF Strip
<1>7. PICK a : Accumulates(Strip, st, <<>>, p, a) /\ g[b] = a[n]
  BY <1>4, <1>6 DEF FoldsTo
<1>8. /\ a[0] = <<>> /\ \A k \in 0..n : a[k] \in Strip
      /\ \A k \in 0..(n - 1) : a[k + 1] = st[<<a[k], p[k + 1]>>]
  BY <1>4, <1>7 DEF Accumulates
<1>9. ASSUME NEW k \in 0..(n - 1)
      PROVE  /\ a[k] \in Strip /\ a[k + 1] \in Strip /\ p[k + 1] \in S /\ k + 1 \in 1..Len(p)
             /\ Body(g, p[k + 1]) \in Strip /\ a[k + 1] = Then(a[k], Body(g, p[k + 1]))
  <2>1. k \in 0..n /\ k + 1 \in 0..n /\ k + 1 \in 1..Len(p)
    BY <1>4
  <2>2. a[k] \in Strip /\ a[k + 1] \in Strip /\ p[k + 1] \in S
    BY <1>3, <1>8, <2>1, ElementOfSeq
  <2>3. Body(g, p[k + 1]) \in Seq(Lexeme)
    <3>1. g \in [D -> Seq(Lexeme)] /\ p[k + 1] \in StatementsWith(D)
      BY <1>1, <1>2, <2>2 DEF Strip
    <3> QED BY <3>1, BodyType
  <2>4. st[<<a[k], p[k + 1]>>] = a[k] \o Body(g, p[k + 1])
    <3>1. <<a[k], p[k + 1]>> \in Seq(Lexeme) \X S
      BY <2>2 DEF Strip
    <3> QED BY <1>5, <3>1
  <2> QED BY <1>8, <2>1, <2>2, <2>3, <2>4 DEF Strip, Then
<1>10. PICK L : L = [k \in 0..n |-> Len(a[k])]
  OBVIOUS
<1>11. L \in [0..n -> Nat] /\ \A k \in 0..n : L[k] = Len(a[k])
  BY <1>8, <1>10, LenProperties DEF Strip
<1>12. o \in Nat
  BY DEF At
\* What is printed of the first statements stands there.
<1>13. \A k \in 0..n : At(ts, o, a[k])
  <2> DEFINE A == {j \in Nat : j <= n => At(ts, o, a[n - j])}
  <2>1. 0 \in A
    BY <1>1, <1>7
  <2>2. ASSUME NEW j \in Nat, j \in A PROVE j + 1 \in A
    <3> SUFFICES ASSUME j + 1 <= n PROVE At(ts, o, a[n - (j + 1)])
      OBVIOUS
    <3>1. PICK k \in 0..(n - 1) : k = n - (j + 1) /\ k + 1 = n - j /\ j <= n
      OBVIOUS
    <3>2. At(ts, o, a[k + 1])
      BY <2>2, <3>1
    <3>3. At(ts, o, Then(a[k], Body(g, p[k + 1])))
      BY <1>9, <3>2
    <3>4. At(ts, o, a[k])
      <4>1. PICK x, y, z, m, n1, o1 : x = a[k] /\ y = Body(g, p[k + 1]) /\ z = Then(x, y)
                                     /\ m = Len(x) /\ n1 = Len(y) /\ o1 = o + m
        OBVIOUS
      <4>2. Parts(ts, o, x, y, z, m, n1, o1)
        BY <1>9, <3>3, <4>1, AtThen
      <4> QED BY <4>1, <4>2 DEF Parts
    <3> QED BY <3>1, <3>4
  <2> HIDE DEF A
  <2>3. Nat \subseteq A
    BY <2>1, <2>2, Induction
  <2>4. \A k \in 0..n : n - k \in Nat /\ n - k <= n /\ n - (n - k) = k
    OBVIOUS
  <2> QED BY <2>3, <2>4 DEF A
<1>14. PICK w : w = [k \in 0..n |-> o + L[k]]
  OBVIOUS
<1>15. w \in [0..n -> Nat] /\ \A k \in 0..n : w[k] = o + L[k]
  BY <1>11, <1>12, <1>14
<1>16. ASSUME NEW k \in 0..(n - 1)
       PROVE  Fresh(ts, w[k]) => StandsAt(B, ts, p[k + 1], w[k], w[k + 1]) /\ Fresh(ts, w[k + 1])
  <2> SUFFICES ASSUME Fresh(ts, w[k])
               PROVE  StandsAt(B, ts, p[k + 1], w[k], w[k + 1]) /\ Fresh(ts, w[k + 1])
    OBVIOUS
  <2>1. k \in 0..n /\ k + 1 \in 0..n
    OBVIOUS
  <2>2. PICK s, y, x, q, f : s = p[k + 1] /\ y = Body(g, s) /\ x = a[k] /\ q = w[k] /\ f = w[k + 1]
    OBVIOUS
  <2>3. x \in Strip /\ y \in Strip /\ s \in S /\ a[k + 1] = Then(x, y) /\ s.tokens \in WordsOf
    BY <1>3, <1>9, <2>2
  <2>4. q = o + Len(x) /\ f = o + Len(Then(x, y))
    BY <1>11, <1>15, <2>1, <2>2, <2>3
  <2>5. At(ts, o, Then(x, y))
    BY <1>13, <2>1, <2>3
  <2>6. At(ts, q, y) /\ Len(Then(x, y)) = Len(x) + Len(y) /\ Len(x) \in Nat /\ Len(y) \in Nat
    <3>1. Parts(ts, o, x, y, Then(x, y), Len(x), Len(y), q)
      BY <2>3, <2>4, <2>5, AtThen
    <3> QED BY <3>1 DEF Parts
  <2>7. f = q + Len(y)
    BY <1>12, <2>4, <2>6
  <2>8. s.child = 0 \/ s.child \in D
    BY <1>1, <2>3 DEF StatementsWith
  <2>9. StandsAt(B, ts, s, q, f) /\ Fresh(ts, f)
    BY <1>1, <1>2, <2>2, <2>3, <2>6, <2>7, <2>8, StatementStands
  <2> QED BY <2>2, <2>9
<1>17. w[0] = o /\ w[n] = e
  <2>1. 0 \in 0..n /\ n \in 0..n /\ Len(<<>>) = 0
    OBVIOUS
  <2>2. L[0] = 0 /\ L[n] = Len(g[b])
    BY <1>7, <1>8, <1>11, <2>1
  <2>3. w[0] = o + 0 /\ w[n] = o + Len(g[b])
    BY <1>15, <2>1, <2>2
  <2> QED BY <1>1, <1>12, <2>3
<1>18. \A k \in 0..n : Fresh(ts, w[k])
  <2> DEFINE A == {k \in Nat : k <= n => Fresh(ts, w[k])}
  <2>1. 0 \in A
    BY <1>17
  <2>2. ASSUME NEW k \in Nat, k \in A PROVE k + 1 \in A
    <3> SUFFICES ASSUME k + 1 <= n PROVE Fresh(ts, w[k + 1])
      OBVIOUS
    <3>1. k \in 0..(n - 1) /\ k <= n
      OBVIOUS
    <3> QED BY <1>16, <2>2, <3>1
  <2> HIDE DEF A
  <2>3. Nat \subseteq A
    BY <2>1, <2>2, Induction
  <2> QED BY <2>3 DEF A
<1>19. \A k \in 0..(n - 1) : StandsAt(B, ts, p[k + 1], w[k], w[k + 1])
  <2>1. \A k \in 0..(n - 1) : k \in 0..n
    OBVIOUS
  <2> QED BY <1>16, <1>18, <2>1
<1> QED BY <1>1, <1>4, <1>15, <1>17, <1>19 DEF Placed

-----------------------------------------------------------------------------
(* The ports that are listed                                               *)

PortIn(ts, i) == [port |-> ts[i + 2], type |-> ts[i + 1]]

Ls(ts, r, i) == IF ListenAt(ts, i) THEN Append(r, PortIn(ts, i)) ELSE r

Places(ts) == [i \in DOMAIN ts |-> i]

LsTable(ts, f) ==
    f = [s \in SUBSET DOMAIN Places(ts) |->
           IF s = {} THEN <<>> ELSE Ls(ts, f[s \ {Max(s)}], Places(ts)[Max(s)])]

LEMMA ListedIs ==
    ASSUME NEW ts PROVE Listed(ts) = (CHOOSE f : LsTable(ts, f))[DOMAIN Places(ts)]
BY Zenon DEF Listed, LsTable, Ls, PortIn, Places, FoldLeft, MapThenFoldSet

\* L[i] are the ports listed among the first i tokens.
Lists(ts, L) ==
    /\ L \in [0..Len(ts) -> Seq(Port)] /\ L[0] = <<>>
    /\ \A i \in 0..(Len(ts) - 1) : L[i + 1] = Ls(ts, L[i], i + 1)

LEMMA ListedSteps ==
    ASSUME NEW ts \in Strip
    PROVE  \E L : Lists(ts, L) /\ Listed(ts) = L[Len(ts)]
<1>1. PICK n \in Nat : n = Len(ts)
  BY LenProperties DEF Strip
<1>2. DOMAIN ts = 1..n /\ \A i \in 1..n : ts[i] \in Lexeme
  BY <1>1, LenProperties, ElementOfSeq DEF Strip
<1>3. PICK p, D : p = Places(ts) /\ D = 1..n
  OBVIOUS
<1>4. p \in Seq(D) /\ Len(p) = n /\ DOMAIN p = D /\ \A i \in D : p[i] = i
  <2>1. p = [i \in 1..n |-> i]
    BY <1>2, <1>3 DEF Places
  <2> QED BY <1>1, <1>3, <2>1
<1>5. PICK V, st : V = Seq(Port) /\ st = [x \in V \X D |-> Ls(ts, x[1], x[2])]
  OBVIOUS
<1>6. ASSUME NEW r \in V, NEW i \in D PROVE Ls(ts, r, i) \in V
  <2>1. CASE ListenAt(ts, i)
    <3>1. i + 3 \in 1..n
      BY <1>2, <2>1 DEF ListenAt
    <3>2. i + 1 \in 1..n /\ i + 2 \in 1..n
      BY <1>3, <3>1
    <3>3. PortIn(ts, i) \in Port
      BY <1>2, <3>2 DEF PortIn, Port
    <3> QED BY <1>5, <2>1, <3>3, AppendProperties DEF Ls
  <2>2. CASE ~ListenAt(ts, i)
    BY <2>2 DEF Ls
  <2> QED BY <2>1, <2>2
<1>7. /\ st \in [V \X D -> V] /\ <<>> \in V
      /\ \A r \in V, i \in D : st[<<r, i>>] = Ls(ts, r, i)
  <2>1. <<>> \in V
    BY <1>5, EmptySeq
  <2> QED BY <1>5, <1>6, <2>1
<1>8. \A s \in SUBSET DOMAIN p : s # {} => p[Max(s)] \in D
  BY <1>4, <1>3, SomeMax
<1>9. PICK f : Folds(V, D, st, <<>>, p, f)
  BY <1>4, <1>7, FoldExists, Zenon
<1>10. LsTable(ts, f)
  <2>1. \A s \in SUBSET DOMAIN p :
           f[s] = IF s = {} THEN <<>> ELSE Ls(ts, f[s \ {Max(s)}], p[Max(s)])
    BY <1>7, <1>9 DEF Folds
  <2>2. f = [s \in SUBSET DOMAIN p |-> f[s]]
    BY <1>9 DEF Folds
  <2>3. [s \in SUBSET DOMAIN p |-> f[s]]
          = [s \in SUBSET DOMAIN p |-> IF s = {} THEN <<>> ELSE Ls(ts, f[s \ {Max(s)}], p[Max(s)])]
    BY <2>1, Zenon
  <2> QED BY <1>3, <2>2, <2>3, Zenon DEF LsTable
<1>11. PICK g : LsTable(ts, g) /\ Listed(ts) = g[DOMAIN p]
  BY <1>3, <1>10, ListedIs
<1>12. \A s \in SUBSET DOMAIN p : g[s] = IF s = {} THEN <<>> ELSE Ls(ts, g[s \ {Max(s)}], p[Max(s)])
  BY <1>3, <1>11, Zenon DEF LsTable
<1>13. TableOf(V, st, <<>>, p, g)
  BY <1>7, <1>8, <1>12 DEF TableOf
<1>14. FoldsTo(V, st, <<>>, p, g[DOMAIN p])
  BY <1>4, <1>7, <1>13, FoldSteps, Zenon
<1>15. PICK L : Accumulates(V, st, <<>>, p, L) /\ Listed(ts) = L[n]
  BY <1>4, <1>11, <1>14 DEF FoldsTo
<1>16. L \in [0..n -> V] /\ L[0] = <<>> /\ \A i \in 0..(n - 1) : L[i + 1] = st[<<L[i], p[i + 1]>>]
  BY <1>4, <1>15 DEF Accumulates
<1>17. \A i \in 0..(n - 1) : L[i + 1] = Ls(ts, L[i], i + 1)
  <2> SUFFICES ASSUME NEW i \in 0..(n - 1) PROVE L[i + 1] = Ls(ts, L[i], i + 1)
    OBVIOUS
  <2>1. PICK j : j = i + 1
    OBVIOUS
  <2>2. i \in 0..n /\ j \in D
    BY <1>3, <2>1
  <2>3. L[i] \in V /\ p[j] = j
    BY <1>4, <1>16, <2>2
  <2>4. L[j] = st[<<L[i], p[j]>>]
    BY <1>16, <2>1
  <2>5. st[<<L[i], j>>] = Ls(ts, L[i], j)
    BY <1>7, <2>2, <2>3
  <2> QED BY <2>1, <2>3, <2>4, <2>5
<1> QED BY <1>1, <1>5, <1>15, <1>16, <1>17 DEF Lists

\* Nothing is listed where no listen statement begins.
LEMMA ListsSame ==
    ASSUME NEW ts \in Strip, NEW L, Lists(ts, L), NEW x \in Nat, NEW y \in Nat, x <= y, y <= Len(ts),
           \A i \in (x + 1)..y : ~ListenAt(ts, i)
    PROVE  L[y] = L[x]
<1>1. PICK n \in Nat : n = Len(ts)
  BY LenProperties DEF Strip
<1> DEFINE A == {k \in Nat : x + k <= y => L[x + k] = L[x]}
<1>2. 0 \in A
  OBVIOUS
<1>3. ASSUME NEW k \in Nat, k \in A PROVE k + 1 \in A
  <2> SUFFICES ASSUME x + (k + 1) <= y PROVE L[x + (k + 1)] = L[x]
    OBVIOUS
  <2>1. PICK i \in 0..(n - 1) : i = x + k /\ i + 1 = x + (k + 1) /\ i + 1 \in (x + 1)..y /\ x + k <= y
    BY <1>1
  <2>2. L[i + 1] = Ls(ts, L[i], i + 1) /\ ~ListenAt(ts, i + 1)
    BY <1>1, <2>1 DEF Lists
  <2>3. L[i + 1] = L[i] /\ L[i] = L[x]
    BY <1>3, <2>1, <2>2 DEF Ls
  <2> QED BY <2>1, <2>3
<1> HIDE DEF A
<1>4. Nat \subseteq A
  BY <1>2, <1>3, Induction
<1>5. y - x \in Nat /\ x + (y - x) = y
  OBVIOUS
<1> QED BY <1>4, <1>5 DEF A

\* No statement begins within another.
LEMMA WithinStatement ==
    ASSUME NEW B, NEW ts, NEW s, NEW q, NEW e, StandsAt(B, ts, s, q, e),
           NEW m, m = Len(s.tokens), NEW i \in (q + 2)..(q + m + 1), NEW word
    PROVE  ~Begins(ts, i, word)
<1>1. q \in Nat /\ m \in Nat /\ m >= 1 /\ \A j \in 1..m : ts[q + j] \notin Marks
  BY DEF StandsAt
<1>2. PICK j \in 1..m : i - 1 = q + j /\ i # 1
  <2>1. i - 1 - q \in 1..m /\ i - 1 = q + (i - 1 - q) /\ i # 1
    BY <1>1
  <2> QED BY <2>1
<1>3. ts[i - 1] \notin Marks
  BY <1>1, <1>2
<1> QED BY <1>2, <1>3 DEF Begins

\* A keyword stands first in its statement.
LEMMA KeywordIsFirst ==
    ASSUME NEW B, NEW ts \in Strip, KeywordsLead(ts), NEW s, NEW q, NEW e, StandsAt(B, ts, s, q, e),
           NEW word \in {"listen", "threads", "hostname"}, NEW j \in 1..Len(s.tokens), s.tokens[j] = <<word>>
    PROVE  j = 1 /\ Begins(ts, q + 1, word)
<1>1. PICK m \in Nat : m = Len(s.tokens) /\ m >= 1
  BY DEF StandsAt
<1>2. q \in Nat /\ e \in Nat /\ Len(ts) \in Nat /\ q + m + 1 <= e /\ e <= Len(ts) /\ ts[q + j] = s.tokens[j]
  BY <1>1, LenProperties DEF StandsAt, Strip
<1>3. q + j \in DOMAIN ts
  <2>1. q + j \in 1..Len(ts)
    BY <1>1, <1>2
  <2> QED BY <2>1, LenProperties DEF Strip
<1>4. Begins(ts, q + j, word)
  BY <1>2, <1>3 DEF KeywordsLead
<1>5. j = 1
  <2>1. CASE j # 1
    <3>1. q + j \in (q + 2)..(q + m + 1)
      BY <1>1, <1>2, <2>1
    <3> QED BY <1>1, <1>4, <3>1, WithinStatement
  <2> QED BY <2>1
<1> QED BY <1>4, <1>5

\* Every listen statement of the file names a port.
ListsPorts(ts) == \A i \in DOMAIN ts : ListenAt(ts, i) => ListsPort(ts, i)

\* What the statement s adds to what is listed.
StatementLists(L, s, q, f) ==
    /\ ~Misplaced(s) /\ ~Malformed(s)
    /\ Listens(s) => s.child = 0 /\ L[f] = Append(L[q], PortOf(s))
    /\ ~Listens(s) => L[f] = L[q]

LEMMA StatementListed ==
    ASSUME NEW B, NEW ts \in Strip, KeywordsLead(ts), ListsPorts(ts), NEW L, Lists(ts, L),
           NEW s, NEW q, NEW e, StandsAt(B, ts, s, q, e), NEW f, f = q + Len(s.tokens) + 1
    PROVE  StatementLists(L, s, q, f)
<1>1. PICK m \in Nat : m = Len(s.tokens) /\ m >= 1
  BY DEF StandsAt
<1>2. /\ q \in Nat /\ e \in Nat /\ Len(ts) \in Nat /\ f = q + m + 1 /\ f <= e /\ e <= Len(ts) /\ f \in Nat
      /\ \A j \in 1..m : ts[q + j] = s.tokens[j] /\ ts[q + j] \notin Marks
  BY <1>1, LenProperties DEF StandsAt, Strip
<1>3. DOMAIN ts = 1..Len(ts)
  BY LenProperties DEF Strip
<1>4. ts[f] \in Marks /\ (s.child # 0 => ts[f] = <<"{">>)
  <2>1. f = (q + m) + 1
    BY <1>2
  <2>2. Closes(B, ts, s, q + m, e)
    BY <1>1 DEF StandsAt
  <2> QED BY <2>1, <2>2, MarksDiffer DEF Closes
<1>5. L[f] = L[q + 1]
  <2>1. \A i \in (q + 2)..f : ~ListenAt(ts, i)
    <3>1. \A i \in (q + 2)..(q + m + 1) : ~Begins(ts, i, "listen")
      BY <1>1, WithinStatement
    <3> QED BY <1>2, <3>1 DEF ListenAt
  <2>2. PICK x \in Nat : x = q + 1 /\ x + 1 = q + 2 /\ x <= f /\ f <= Len(ts)
    BY <1>1, <1>2
  <2>3. \A i \in (x + 1)..f : ~ListenAt(ts, i)
    BY <2>1, <2>2
  <2>4. L[f] = L[x]
    <3>1. f \in Nat
      BY <1>2
    <3> QED BY <2>2, <2>3, <3>1, ListsSame
  <2> QED BY <2>2, <2>4
<1>6. L[q + 1] = Ls(ts, L[q], q + 1)
  <2>1. q \in 0..(Len(ts) - 1)
    BY <1>1, <1>2
  <2> QED BY <2>1 DEF Lists
<1>7. PICK i : i = q + 1
  OBVIOUS
<1>8. CASE Listens(s)
  <2>1. m = 3
    BY <1>1, <1>8 DEF Listens
  <2>2. PICK j \in 1..2 : s.tokens[j] = <<"listen">>
    BY <1>1, <1>8, <2>1 DEF Listens, Keyword
  <2>3. j = 1 /\ Begins(ts, i, "listen")
    <3>1. j \in 1..Len(s.tokens)
      BY <1>1, <2>1
    <3>2. "listen" \in {"listen", "threads", "hostname"}
      OBVIOUS
    <3>3. PICK word : word = "listen"
      OBVIOUS
    <3>4. j = 1 /\ Begins(ts, q + 1, word)
      <4>1. word \in {"listen", "threads", "hostname"} /\ s.tokens[j] = <<word>>
        BY <2>2, <3>2, <3>3
      <4> QED BY <3>1, <4>1, KeywordIsFirst
    <3> QED BY <1>7, <3>3, <3>4
  <2>4. i + 1 = q + 2 /\ i + 2 = q + 3 /\ i + 3 = f /\ i \in 1..Len(ts) /\ f \in 1..Len(ts)
    BY <1>2, <1>7, <2>1
  <2>5. /\ ts[i + 1] = s.tokens[2] /\ ts[i + 1] \notin Marks
        /\ ts[i + 2] = s.tokens[3] /\ ts[i + 2] \notin Marks
    <3>1. 2 \in 1..m /\ 3 \in 1..m
      BY <2>1
    <3>2. ts[q + 2] = s.tokens[2] /\ ts[q + 2] \notin Marks /\ ts[q + 3] = s.tokens[3] /\ ts[q + 3] \notin Marks
      BY <1>2, <3>1
    <3> QED BY <2>4, <3>2
  <2>6. ListenAt(ts, i)
    BY <1>3, <1>4, <2>3, <2>4, <2>5 DEF ListenAt
  <2>7. ListsPort(ts, i)
    BY <1>3, <2>4, <2>6 DEF ListsPorts
  <2>8. s.tokens[2] \in {<<"http">>, <<"https">>} /\ IsNumber(s.tokens[3]) /\ ts[f] = <<";">>
    BY <2>4, <2>5, <2>7 DEF ListsPort
  <2>9. ~Misplaced(s) /\ ~Malformed(s) /\ s.child = 0
    BY <1>4, <2>2, <2>3, <2>8, MarksDiffer DEF Misplaced, Malformed
  <2>10. PortIn(ts, i) = PortOf(s)
    BY <2>5 DEF PortIn, PortOf
  <2>11. L[f] = Append(L[q], PortOf(s))
    BY <1>5, <1>6, <1>7, <2>6, <2>10 DEF Ls
  <2> QED BY <1>8, <2>9, <2>11 DEF StatementLists
<1>9. CASE ~Listens(s)
  <2>1. ~ListenAt(ts, i)
    <3> SUFFICES ASSUME ListenAt(ts, i) PROVE FALSE
      OBVIOUS
    <3>1. /\ ts[i] = <<"listen">> /\ ts[i + 1] \notin Marks /\ ts[i + 2] \notin Marks /\ ts[i + 3] \in Marks
      BY DEF ListenAt, Begins
    <3>2. i + 1 = q + 2 /\ i + 2 = q + 3 /\ i + 3 = q + 4
      BY <1>2, <1>7
    <3>3. ts[q + 2] \notin Marks /\ ts[q + 3] \notin Marks /\ ts[q + 4] \in Marks
      BY <3>1, <3>2
    <3>4. m # 1 /\ m # 2
      <4>1. m = 1 => f = q + 2
        BY <1>2
      <4>2. m = 2 => f = q + 3
        BY <1>2
      <4> QED BY <1>4, <3>3, <4>1, <4>2
    <3>5. ~(m >= 4)
      <4>1. m >= 4 => 4 \in 1..m
        OBVIOUS
      <4>2. 4 \in 1..m => ts[q + 4] \notin Marks
        BY <1>2
      <4> QED BY <3>3, <4>1, <4>2
    <3>6. m = 3
      <4>1. \A k \in Nat : k >= 1 /\ k # 1 /\ k # 2 /\ ~(k >= 4) => k = 3
        OBVIOUS
      <4> QED BY <1>1, <3>4, <3>5, <4>1
    <3>7. s.tokens[1] = <<"listen">>
      <4>1. 1 \in 1..m
        BY <1>1
      <4>2. ts[q + 1] = s.tokens[1]
        BY <1>2, <4>1
      <4> QED BY <1>7, <3>1, <4>2
    <3>8. Listens(s)
      <4>1. 1 \in 1..(Len(s.tokens) - 1)
        BY <1>1, <3>6
      <4> QED BY <1>1, <3>6, <3>7, <4>1 DEF Listens, Keyword
    <3> QED BY <1>9, <3>8
  <2>2. L[f] = L[q]
    BY <1>5, <1>6, <1>7, <2>1 DEF Ls
  <2>3. ~Misplaced(s) /\ ~Malformed(s)
    BY <1>9 DEF Misplaced, Malformed
  <2> QED BY <1>9, <2>2, <2>3 DEF StatementLists
<1> QED BY <1>8, <1>9

\* Joining sequences.
LEMMA JoinMore ==
    ASSUME NEW S, NEW x \in Seq(S), NEW y \in Seq(S)
    PROVE  /\ \A l \in S : Append(Then(x, y), l) = Then(x, Append(y, l))
           /\ \A z \in Seq(S) : Then(Then(x, y), z) = Then(x, Then(y, z))
           /\ Then(x, <<>>) = x /\ Then(<<>>, x) = x
<1>0. ASSUME NEW l \in S PROVE Append(Then(x, y), l) = Then(x, Append(y, l))
  <2>1. <<l>> \in Seq(S)
    BY SingletonSeq
  <2>2. x \o y \in Seq(S)
    BY ConcatProperties
  <2>3. Append(y, l) = y \o <<l>> /\ Append(x \o y, l) = (x \o y) \o <<l>>
    BY <2>2, AppendIsConcat
  <2>4. (x \o y) \o <<l>> = x \o (y \o <<l>>)
    BY <2>1, ConcatAssociative
  <2> QED BY <2>3, <2>4 DEF Then
<1>1. ASSUME NEW z \in Seq(S) PROVE Then(Then(x, y), z) = Then(x, Then(y, z))
  BY ConcatAssociative DEF Then
<1>2. Then(x, <<>>) = x /\ Then(<<>>, x) = x
  BY ConcatEmptySeq DEF Then
<1> QED BY <1>0, <1>1, <1>2

\* Nothing has stopped the search.
Unstopped(r) == r.stop = ""

LEMMA PortsReplaced ==
    ASSUME NEW R, NEW T, NEW t, NEW r \in [ports : R, stop : T]
    PROVE  [r EXCEPT !.ports = t].ports = t /\ [r EXCEPT !.ports = t].stop = r.stop
OBVIOUS

LEMMA FieldsOf ==
    ASSUME NEW t, NEW y
    PROVE  [ports |-> t, stop |-> y].ports = t /\ [ports |-> t, stop |-> y].stop = y
OBVIOUS

LEMMA NoPortsIs == NoPorts.ports = <<>> /\ Unstopped(NoPorts)
<1>1. PICK t, y, r : t = <<>> /\ y = "" /\ r = NoPorts
  OBVIOUS
<1>2. r = [ports |-> t, stop |-> y]
  BY <1>1, Zenon DEF NoPorts
<1>3. r.ports = t /\ r.stop = y
  BY <1>2, FieldsOf, Zenon
<1> QED BY <1>1, <1>3, Zenon DEF Unstopped

\* One more statement of a block in which nothing stops the search.
LEMMA PortsAdded ==
    ASSUME NEW g, NEW r \in Found, Unstopped(r), NEW s, ~Misplaced(s), ~Malformed(s),
           NEW w, w = PortsWith(g, r, s)
    PROVE  /\ Listens(s) => Unstopped(w) /\ w.ports = Append(r.ports, PortOf(s))
           /\ ~Listens(s) /\ s.child = 0 => w = r
           /\ ~Listens(s) /\ s.child # 0 /\ Unstopped(g[s.child]) =>
                 Unstopped(w) /\ w.ports = Then(r.ports, g[s.child].ports)
<1>1. CASE Listens(s)
  <2>1. w = [r EXCEPT !.ports = Append(r.ports, PortOf(s))]
    BY <1>1, Zenon DEF PortsWith, Unstopped
  <2>2. PICK t : t = Append(r.ports, PortOf(s))
    OBVIOUS
  <2>3. PICK R, T : r \in [ports : R, stop : T]
    BY Zenon DEF Found
  <2>4. [r EXCEPT !.ports = t].ports = t /\ Unstopped([r EXCEPT !.ports = t])
    BY <2>3, PortsReplaced, Zenon DEF Unstopped
  <2> QED BY <1>1, <2>1, <2>2, <2>4, Zenon
<1>2. CASE ~Listens(s) /\ s.child = 0
  BY <1>2, Zenon DEF PortsWith, Unstopped
<1>3. CASE ~Listens(s) /\ s.child # 0 /\ Unstopped(g[s.child])
  <2>1. "undefined" # ""
    BY Zenon
  <2>2. w = [ports |-> r.ports \o g[s.child].ports, stop |-> ""]
    BY <1>3, <2>1, Zenon DEF PortsWith, Unstopped
  <2>3. PICK t, y : t = r.ports \o g[s.child].ports /\ y = ""
    OBVIOUS
  <2>4. w = [ports |-> t, stop |-> y]
    BY <2>2, <2>3, Zenon
  <2>5. w.ports = t /\ w.stop = y
    BY <2>4, FieldsOf, Zenon
  <2> QED BY <1>3, <2>3, <2>5, Zenon DEF Unstopped, Then
<1> QED BY <1>1, <1>2, <1>3, Zenon

\* The ports of the block b are those listed where it is printed.
ListsAs(ts, L, b) ==
    \A o \in Nat : At(ts, o, Printed(blocks)[b]) /\ Fresh(ts, o) =>
        /\ L[o + Len(Printed(blocks)[b])] = Then(L[o], get_port[b].ports)
        /\ Unstopped(get_port[b])

\* The statement s adds what is listed where it stands to the ports found.
StatementAdds(L, old, r, s, e) ==
    /\ Unstopped(PortsWith(get_port, r, s))
    /\ L[e] = Then(old, PortsWith(get_port, r, s).ports)

LEMMA StatementPorts ==
    ASSUME NEW D, get_port \in [D -> Found], Printed(blocks) \in [D -> Strip],
           NEW ts \in Strip, KeywordsLead(ts), ListsPorts(ts), NEW L, Lists(ts, L),
           NEW s \in StatementsWith(D), s.child # 0 => ListsAs(ts, L, s.child),
           NEW q, NEW e, StandsAt(blocks, ts, s, q, e),
           NEW r \in Found, Unstopped(r), NEW old \in Seq(Port), L[q] = Then(old, r.ports)
    PROVE  StatementAdds(L, old, r, s, e)
<1>0. PICK m \in Nat : m = Len(s.tokens) /\ q \in Nat
  BY DEF StandsAt
<1>1. PICK f \in Nat : f = q + m + 1
  BY <1>0
<1>2. /\ ~Misplaced(s) /\ ~Malformed(s)
      /\ Listens(s) => s.child = 0 /\ L[f] = Append(L[q], PortOf(s))
      /\ ~Listens(s) => L[f] = L[q]
  <2>1. PICK B : B = blocks
    OBVIOUS
  <2>2. StandsAt(B, ts, s, q, e) /\ f = q + Len(s.tokens) + 1
    BY <1>0, <1>1, <2>1
  <2>3. StatementLists(L, s, q, f)
    BY <2>2, StatementListed
  <2> QED BY <2>3 DEF StatementLists
<1>3. q \in Nat /\ e \in Nat /\ e <= Len(ts) /\ Len(ts) \in Nat /\ f \in Nat /\ Closes(blocks, ts, s, q + m, e)
  BY <1>0, LenProperties DEF StandsAt, Strip
<1>4. f = (q + m) + 1
  BY <1>0, <1>1
<1>5. r.ports \in Seq(Port) /\ s \in Statement
  BY DEF Found, StatementsWith
<1>6. CASE s.child = 0
  <2>1. e = f
    BY <1>3, <1>4, <1>6 DEF Closes
  <2>2. CASE Listens(s)
    <3>2. PICK t : t = Append(r.ports, PortOf(s))
      OBVIOUS
    <3>3. Unstopped(PortsWith(get_port, r, s)) /\ PortsWith(get_port, r, s).ports = t
      BY <1>2, <2>2, <3>2, PortsAdded
    <3>4. PortOf(s) \in Port
      <4>1. s.tokens \in Seq(Lexeme) /\ Len(s.tokens) = 3
        BY <1>5, <2>2 DEF Statement, Listens
      <4>2. s.tokens[2] \in Lexeme /\ s.tokens[3] \in Lexeme
        <5>1. PICK l : l = s.tokens
          OBVIOUS
        <5>2. PICK T : T = Lexeme
          OBVIOUS
        <5>3. l \in Seq(T) /\ Len(l) = 3
          BY <4>1, <5>1, <5>2, Zenon
        <5>4. 2 \in 1..Len(l) /\ 3 \in 1..Len(l)
          BY <5>3
        <5>5. l[2] \in T /\ l[3] \in T
          BY <5>3, <5>4, ElementOfSeq
        <5> QED BY <5>1, <5>2, <5>5, Zenon
      <4> QED BY <4>2 DEF PortOf, Port
    <3>5. Append(Then(old, r.ports), PortOf(s)) = Then(old, Append(r.ports, PortOf(s)))
      <4>1. PICK u, v, T : u = r.ports /\ v = PortOf(s) /\ T = Port
        OBVIOUS
      <4>2. u \in Seq(T) /\ v \in T /\ old \in Seq(T)
        BY <1>5, <3>4, <4>1
      <4>3. Append(Then(old, u), v) = Then(old, Append(u, v))
        BY <4>2, JoinMore
      <4> QED BY <4>1, <4>3
    <3> QED BY <1>2, <2>1, <2>2, <3>2, <3>3, <3>5 DEF StatementAdds
  <2>3. CASE ~Listens(s)
    <3>1. PortsWith(get_port, r, s) = r
      BY <1>2, <1>6, <2>3, PortsAdded
    <3> QED BY <1>2, <2>1, <2>3, <3>1 DEF StatementAdds
  <2> QED BY <2>2, <2>3
<1>7. CASE s.child # 0
  <2>0. s.child \in D
    BY <1>7 DEF StatementsWith
  <2>1. PICK c, y, n : c = s.child /\ y = Printed(blocks)[c] /\ n = Len(y) /\ c \in D /\ n \in Nat
    <3>1. Printed(blocks)[s.child] \in Strip
      BY <2>0
    <3>2. Len(Printed(blocks)[s.child]) \in Nat
      BY <3>1, LenProperties DEF Strip
    <3> QED BY <2>0, <3>2
  <2>2. ~Listens(s) /\ L[f] = L[q]
    BY <1>2, <1>7
  <2>3. /\ ts[f] = <<"{">> /\ At(ts, f, y) /\ e = f + n + 1 /\ ts[e] = <<"}">>
    BY <1>3, <1>4, <1>7, <2>1 DEF Closes
  <2>4. Fresh(ts, f)
    BY <2>3, MarksDiffer DEF Fresh
  <2>5. PICK h \in Nat : h = f + n /\ e = h + 1
    <3>1. \A i, j \in Nat : i + j \in Nat
      OBVIOUS
    <3>2. f + n \in Nat
      BY <2>1, <3>1
    <3> QED BY <2>3, <3>2
  <2>6. L[h] = Then(L[f], get_port[c].ports) /\ Unstopped(get_port[c])
    BY <1>3, <1>7, <2>1, <2>3, <2>4, <2>5 DEF ListsAs
  <2>7. L[e] = L[h]
    <3>0. PICK N \in Nat : N = Len(ts) /\ h + 1 <= N
      BY <1>3, <2>5
    <3>1. h \in 0..(Len(ts) - 1)
      BY <3>0
    <3>2. L[h + 1] = Ls(ts, L[h], h + 1)
      BY <3>1 DEF Lists
    <3>3. ~ListenAt(ts, e)
      <4>1. <<"}">>[1] = "}" /\ <<"listen">>[1] = "listen"
        OBVIOUS
      <4>2. ts[e] # <<"listen">>
        BY <2>3, <4>1
      <4> QED BY <4>2 DEF ListenAt, Begins
    <3> QED BY <2>5, <3>2, <3>3 DEF Ls
  <2>9. /\ PortsWith(get_port, r, s).ports = Then(r.ports, get_port[c].ports)
        /\ Unstopped(PortsWith(get_port, r, s))
    BY <1>2, <1>7, <2>1, <2>2, <2>6, PortsAdded
  <2>10. Then(Then(old, r.ports), get_port[c].ports) = Then(old, Then(r.ports, get_port[c].ports))
    <3>1. PICK u, v, T : u = r.ports /\ v = get_port[c].ports /\ T = Port
      OBVIOUS
    <3>0. get_port[c] \in Found
      BY <2>1
    <3>2. u \in Seq(T) /\ v \in Seq(T) /\ old \in Seq(T)
      BY <1>5, <3>0, <3>1 DEF Found
    <3>3. Then(Then(old, u), v) = Then(old, Then(u, v))
      BY <3>2, JoinMore
    <3> QED BY <3>1, <3>3
  <2> QED BY <2>2, <2>6, <2>7, <2>9, <2>10 DEF StatementAdds
<1> QED BY <1>6, <1>7

LEMMA BlockPorts ==
    ASSUME blocks \in Seq(Seq(Statement)), ChildrenAreYounger, Words(blocks),
           NEW ts \in Strip, KeywordsLead(ts), ListsPorts(ts), NEW L, Lists(ts, L),
           NEW b \in 1..Len(blocks), \A c \in (b + 1)..Len(blocks) : ListsAs(ts, L, c)
    PROVE  ListsAs(ts, L, b)
<1> SUFFICES ASSUME NEW o \in Nat, At(ts, o, Printed(blocks)[b]), Fresh(ts, o)
             PROVE  /\ L[o + Len(Printed(blocks)[b])] = Then(L[o], get_port[b].ports)
                    /\ Unstopped(get_port[b])
  BY DEF ListsAs
<1>0. Tree(blocks)
  BY DEF Tree, ChildrenAreYounger
<1>1. PICK D, S, p, n : /\ D = 1..Len(blocks) /\ S = StatementsWith(D) /\ p = blocks[b] /\ n = Len(p)
                        /\ n \in Nat
  BY StatementsAreWith
<1>2. /\ p \in Seq(S)
      /\ \A k \in 1..n : p[k] \in S /\ (p[k].child # 0 => p[k].child \in (b + 1)..Len(blocks))
  <2>1. p \in Seq(S) /\ \A k \in 1..n : p[k].child # 0 => p[k].child \in (b + 1)..Len(blocks)
    BY <1>1, StatementsAreWith
  <2> QED BY <1>1, <2>1, ElementOfSeq
<1>3. get_port \in [D -> Found] /\ get_port[b] = PortsIn(get_port, p) /\ b \in D
  <2>1. get_port \in [1..Len(blocks) -> Found] /\ get_port = [c \in 1..Len(blocks) |-> PortsIn(get_port, blocks[c])]
    BY PortsFound
  <2> QED BY <1>1, <2>1, Zenon
<1>4. Printed(blocks) \in [D -> Strip]
  BY <1>0, <1>1, PrintedIs DEF Strip
<1>5. PICK st : st = [x \in Found \X S |-> PortsWith(get_port, x[1], x[2])]
  OBVIOUS
<1>6. PICK a : Accumulates(Found, st, NoPorts, p, a) /\ get_port[b] = a[n]
  <2>1. FoldsTo(Found, st, NoPorts, p, PortsIn(get_port, p))
    BY <1>1, <1>2, <1>3, <1>5, PortsSteps
  <2> QED BY <1>1, <1>3, <2>1 DEF FoldsTo
<1>7. a[0] = NoPorts /\ \A k \in 0..(n - 1) : a[k] \in Found /\ a[k + 1] = PortsWith(get_port, a[k], p[k + 1])
  <2>1. /\ a \in [0..n -> Found] /\ a[0] = NoPorts
        /\ \A k \in 0..(n - 1) : a[k + 1] = st[<<a[k], p[k + 1]>>]
    BY <1>1, <1>6 DEF Accumulates
  <2>2. ASSUME NEW k \in 0..(n - 1) PROVE a[k] \in Found /\ a[k + 1] = PortsWith(get_port, a[k], p[k + 1])
    <3>1. k \in 0..n /\ k + 1 \in 1..n
      BY <1>1
    <3>2. a[k] \in Found /\ p[k + 1] \in S
      BY <1>2, <2>1, <3>1
    <3>3. st[<<a[k], p[k + 1]>>] = PortsWith(get_port, a[k], p[k + 1])
      BY <1>5, <3>2
    <3> QED BY <2>1, <3>2, <3>3
  <2> QED BY <2>1, <2>2
<1>8. PICK e, w : e = o + Len(Printed(blocks)[b]) /\ Placed(blocks, ts, b, o, e, w)
  BY <1>0, BlockStands
<1>9. /\ w[0] = o /\ w[n] = e /\ w \in [0..n -> Nat]
      /\ \A k \in 0..(n - 1) : StandsAt(blocks, ts, p[k + 1], w[k], w[k + 1])
  BY <1>1, <1>8 DEF Placed
<1>10. L[o] \in Seq(Port)
  <2>1. o \in 0..Len(ts)
    <3>1. Len(Printed(blocks)[b]) \in Nat /\ Len(ts) \in Nat /\ o + Len(Printed(blocks)[b]) <= Len(ts)
      BY <1>3, <1>4, LenProperties DEF At, Strip
    <3> QED BY <3>1
  <2> QED BY <2>1 DEF Lists
<1> DEFINE A == {k \in Nat : k <= n => L[w[k]] = Then(L[o], a[k].ports) /\ Unstopped(a[k])}
<1>11. 0 \in A
  <2>1. a[0].ports = <<>> /\ Unstopped(a[0])
    <3>1. a[0] = NoPorts
      BY <1>7
    <3> QED BY <3>1, NoPortsIs, Zenon
  <2>2. Then(L[o], <<>>) = L[o]
    <3>1. PICK u : u = L[o]
      OBVIOUS
    <3> QED BY <1>10, <3>1, JoinMore
  <2> QED BY <1>9, <2>1, <2>2
<1>12. ASSUME NEW k \in Nat, k \in A PROVE k + 1 \in A
  <2> SUFFICES ASSUME k + 1 <= n PROVE L[w[k + 1]] = Then(L[o], a[k + 1].ports) /\ Unstopped(a[k + 1])
    <3>1. k + 1 \in Nat
      OBVIOUS
    <3> QED BY <3>1
  <2>1. k \in 0..(n - 1) /\ k + 1 \in 1..n /\ k <= n
    BY <1>1
  <2>2. L[w[k]] = Then(L[o], a[k].ports) /\ Unstopped(a[k])
    BY <1>12, <2>1
  <2>3. PICK s, q, f, r, old : s = p[k + 1] /\ q = w[k] /\ f = w[k + 1] /\ r = a[k] /\ old = L[o]
    OBVIOUS
  <2>4. /\ s \in StatementsWith(D) /\ (s.child # 0 => ListsAs(ts, L, s.child))
        /\ StandsAt(blocks, ts, s, q, f) /\ r \in Found /\ Unstopped(r)
        /\ old \in Seq(Port) /\ L[q] = Then(old, r.ports)
    BY <1>1, <1>2, <1>7, <1>9, <1>10, <2>1, <2>2, <2>3
  <2>5. Unstopped(PortsWith(get_port, r, s)) /\ L[f] = Then(old, PortsWith(get_port, r, s).ports)
    <3>1. StatementAdds(L, old, r, s, f)
      BY <1>3, <1>4, <2>4, StatementPorts
    <3> QED BY <3>1 DEF StatementAdds
  <2> QED BY <1>7, <2>1, <2>3, <2>5
<1> HIDE DEF A
<1>13. n \in A
  <2>1. Nat \subseteq A
    BY <1>11, <1>12, Induction
  <2> QED BY <1>1, <2>1
<1>14. n <= n
  BY <1>1
<1> QED BY <1>6, <1>8, <1>9, <1>13, <1>14 DEF A

\* The ports of the file.
LEMMA PortsAreListed ==
    ASSUME blocks \in Seq(Seq(Statement)), ChildrenAreYounger, Words(blocks), 1 \in 1..Len(blocks),
           NEW ts \in Strip, KeywordsLead(ts), ListsPorts(ts), Printed(blocks)[1] = ts
    PROVE  get_port[1].ports = Listed(ts)
<1>1. PICK L : Lists(ts, L) /\ Listed(ts) = L[Len(ts)]
  BY ListedSteps
<1>2. PICK n, P : n \in Nat /\ n = Len(blocks) /\ P = {b \in 1..n : ListsAs(ts, L, b)}
  BY LenProperties
<1>3. ASSUME NEW b \in 1..n, (b + 1)..n \subseteq P PROVE b \in P
  <2>1. \A c \in (b + 1)..Len(blocks) : ListsAs(ts, L, c)
    BY <1>2, <1>3
  <2>2. ListsAs(ts, L, b)
    BY <1>1, <1>2, <2>1, BlockPorts
  <2> QED BY <1>2, <2>2
<1>4. 1..n \subseteq P
  BY <1>2, <1>3, Downwards
<1>5. ListsAs(ts, L, 1)
  BY <1>2, <1>4
<1>6. Len(ts) \in Nat /\ 0 \in Nat /\ 0 + Len(ts) = Len(ts)
  BY LenProperties DEF Strip
<1>7. At(ts, 0, ts) /\ Fresh(ts, 0)
  <2>1. \A i \in 1..Len(ts) : 0 + i = i
    OBVIOUS
  <2> QED BY <1>6, <2>1 DEF At, Fresh
<1>8. L[Len(ts)] = Then(L[0], get_port[1].ports)
  BY <1>5, <1>6, <1>7 DEF ListsAs
<1>9. get_port[1].ports \in Seq(Port)
  BY PortsFound DEF Found
<1> QED BY <1>1, <1>8, <1>9, JoinMore DEF Lists

-----------------------------------------------------------------------------
(* The threads                                                             *)

Decides(s) == Keyword(s, "threads") \/ s.child # 0

LEMMA FirstDecidingLeast ==
    ASSUME NEW p, NEW n \in Nat, Len(p) = n, NEW k, k = FirstDeciding(p)
    PROVE  /\ k = 0 => \A i \in 1..n : ~Decides(p[i])
           /\ k # 0 => k \in 1..n /\ Decides(p[k]) /\ \A i \in 1..(k - 1) : ~Decides(p[i])
<1> DEFINE I == {i \in 1..Len(p) : Keyword(p[i], "threads") \/ p[i].child # 0}
<1>1. FirstDeciding(p) = IF I # {} THEN Min(I) ELSE 0
  BY Zenon DEF FirstDeciding, SelectInSeq
<1>2. I \in SUBSET Nat
  OBVIOUS
<1>3. \A i : i \in I <=> i \in 1..n /\ Decides(p[i])
  BY DEF Decides
<1>4. 0 \notin I
  OBVIOUS
<1> HIDE DEF I
<1>5. CASE I = {}
  <2>1. k = 0
    BY <1>1, <1>5
  <2> QED BY <1>3, <1>5, <2>1
<1>6. CASE I # {}
  <2>1. k = Min(I)
    BY <1>1, <1>6
  <2>2. k \in I /\ \A y \in I : k =< y
    BY <1>2, <1>6, <2>1, LeastIsMin
  <2>3. k \in 1..n /\ k # 0 /\ Decides(p[k])
    BY <1>3, <2>2
  <2>4. ASSUME NEW i \in 1..(k - 1) PROVE ~Decides(p[i])
    <3>1. i \in 1..n /\ ~(k =< i)
      BY <2>3
    <3> QED BY <1>3, <2>2, <3>1
  <2> QED BY <2>3, <2>4
<1> QED BY <1>5, <1>6

\* The keyword is the first token, when it can be no other.
LEMMA KeywordIsAtFirst ==
    ASSUME NEW s, NEW m \in Nat, m = Len(s.tokens), Keyword(s, "threads"),
           \A j \in 1..m : s.tokens[j] = <<"threads">> => j = 1
    PROVE  KeywordAt(s) = 1 /\ s.tokens[1] = <<"threads">> /\ m >= 2
<1> DEFINE I == {i \in 1..Len(s.tokens) : s.tokens[i] = <<"threads">>}
<1>1. KeywordAt(s) = IF I # {} THEN Min(I) ELSE 0
  BY Zenon DEF KeywordAt, SelectInSeq
<1>2. PICK k \in 1..(m - 1) : s.tokens[k] = <<"threads">>
  BY DEF Keyword
<1>3. k \in 1..m /\ k \in I /\ k = 1
  BY <1>2
<1>4. I \in SUBSET Nat /\ \A i \in I : i = 1
  OBVIOUS
<1> HIDE DEF I
<1>5. Min(I) \in I
  BY <1>3, <1>4, LeastIsMin
<1>6. KeywordAt(s) = 1
  BY <1>1, <1>3, <1>4, <1>5
<1> QED BY <1>2, <1>3, <1>6

\* A threads statement with a value begins at i.
Sets(ts, i) == Begins(ts, i, "threads") /\ i + 1 \in DOMAIN ts /\ ts[i + 1] \notin Marks

\* The token at i settles the number of threads.
Settles(ts, i) == ts[i] = <<"}">> \/ Sets(ts, i)

Says(ts, i) == IF Sets(ts, i) /\ IsNumber(ts[i + 1]) THEN ts[i + 1] ELSE DefaultThreads

Unsettled(ts, x, y) == \A i \in (x + 1)..y : ~Settles(ts, i)

\* v is what the first token that settles it says, from x to y.
SettledAt(ts, x, y, v) ==
    \E i \in (x + 1)..y :
        Settles(ts, i) /\ v = Says(ts, i) /\ \A j \in (x + 1)..(i - 1) : ~Settles(ts, j)

Settled(ts, x, y, v) == (Unsettled(ts, x, y) /\ v = DefaultThreads) \/ SettledAt(ts, x, y, v)

LEMMA SettledLater ==
    ASSUME NEW ts, NEW x \in Nat, NEW z \in Nat, NEW y \in Nat, NEW u \in Nat, x <= z, y <= u,
           Unsettled(ts, x, z), NEW v, SettledAt(ts, z, y, v)
    PROVE  SettledAt(ts, x, u, v)
<1>1. PICK i \in (z + 1)..y :
         Settles(ts, i) /\ v = Says(ts, i) /\ \A j \in (z + 1)..(i - 1) : ~Settles(ts, j)
  BY DEF SettledAt
<1>2. i \in (x + 1)..u
  OBVIOUS
<1>3. ASSUME NEW j \in (x + 1)..(i - 1) PROVE ~Settles(ts, j)
  <2>1. j \in (x + 1)..z \/ j \in (z + 1)..(i - 1)
    OBVIOUS
  <2> QED BY <1>1, <2>1 DEF Unsettled
<1> QED BY <1>1, <1>2, <1>3 DEF SettledAt

LEMMA UnsettledOn ==
    ASSUME NEW ts, NEW x \in Nat, NEW z \in Nat, NEW y \in Nat, x <= z, z <= y,
           Unsettled(ts, x, z), Unsettled(ts, z, y)
    PROVE  Unsettled(ts, x, y)
<1> SUFFICES ASSUME NEW j \in (x + 1)..y PROVE ~Settles(ts, j)
  BY DEF Unsettled
<1>1. j \in (x + 1)..z \/ j \in (z + 1)..y
  OBVIOUS
<1> QED BY <1>1 DEF Unsettled

ShutSays(ts, i) == Settles(ts, i) /\ Says(ts, i) = DefaultThreads

LEMMA ShutSettles ==
    ASSUME NEW ts, NEW i, ts[i] = <<"}">>
    PROVE  ShutSays(ts, i)
<1>1. <<"}">>[1] = "}" /\ <<"threads">>[1] = "threads"
  OBVIOUS
<1>2. ts[i] # <<"threads">>
  BY <1>1
<1>3. ~Sets(ts, i)
  BY <1>2 DEF Sets, Begins
<1> QED BY <1>3 DEF ShutSays, Settles, Says

\* The threads of the block b are settled where it is printed.
SettlesAs(ts, b) ==
    \A o \in Nat : At(ts, o, Printed(blocks)[b]) /\ Fresh(ts, o) =>
        Settled(ts, o, o + Len(Printed(blocks)[b]), get_threads[b])

StatementSettles(g, ts, s, q, e) ==
    IF Decides(s) THEN SettledAt(ts, q, e, ThreadsOf(g, s)) ELSE Unsettled(ts, q, e)

\* The words of a statement that is not of threads settle nothing.
LEMMA WordsSettleNothing ==
    ASSUME NEW B, NEW ts \in Strip, NEW s, NEW q, NEW e, StandsAt(B, ts, s, q, e),
           ~Keyword(s, "threads"), NEW m, m = Len(s.tokens), NEW f, f = q + m + 1
    PROVE  Unsettled(ts, q, f)
<1> SUFFICES ASSUME NEW i \in (q + 1)..f PROVE ~Settles(ts, i)
  BY DEF Unsettled
<1>1. /\ m \in Nat /\ m >= 1 /\ q \in Nat
      /\ \A j \in 1..m : ts[q + j] = s.tokens[j] /\ ts[q + j] \notin Marks
  BY DEF StandsAt
<1>3. ts[f] \in Marks /\ ts[f] # <<"}">>
  <2>1. PICK r : r = q + m /\ f = r + 1
    BY <1>1
  <2>2. Closes(B, ts, s, r, e)
    BY <1>1, <2>1 DEF StandsAt
  <2> QED BY <2>1, <2>2, MarksDiffer DEF Closes
<1>4. ts[i] # <<"}">>
  <2>1. CASE i = f
    BY <1>3, <2>1
  <2>2. CASE i # f
    <3>1. PICK j \in 1..m : i = q + j
      <4>1. i - q \in 1..m /\ i = q + (i - q)
        BY <1>1, <2>2
      <4> QED BY <4>1
    <3> QED BY <1>1, <3>1, MarksDiffer
  <2> QED BY <2>1, <2>2
<1>5. ~Sets(ts, i)
  <2> SUFFICES ASSUME Sets(ts, i) PROVE FALSE
    OBVIOUS
  <2>1. Begins(ts, i, "threads") /\ ts[i] = <<"threads">> /\ ts[i + 1] \notin Marks
    BY DEF Sets, Begins
  <2>2. i = q + 1
    <3>1. CASE i \in (q + 2)..(q + m + 1)
      BY <2>1, <3>1, WithinStatement
    <3>2. CASE i \notin (q + 2)..(q + m + 1)
      BY <1>1, <3>2
    <3> QED BY <3>1, <3>2
  <2>3. m # 1
    <3>1. m = 1 => i + 1 = f
      BY <1>1, <2>2
    <3> QED BY <1>3, <2>1, <3>1
  <2>4. 1 \in 1..m /\ 1 \in 1..(m - 1)
    <3>1. \A k \in Nat : k >= 1 /\ k # 1 => 1 \in 1..k /\ 1 \in 1..(k - 1)
      OBVIOUS
    <3> QED BY <1>1, <2>3, <3>1
  <2>5. s.tokens[1] = <<"threads">>
    BY <1>1, <2>1, <2>2, <2>4
  <2>6. Keyword(s, "threads")
    BY <2>4, <2>5 DEF Keyword
  <2> QED BY <2>6
<1> QED BY <1>4, <1>5 DEF Settles

LEMMA StatementSettled ==
    ASSUME NEW D, NEW ts \in Strip, KeywordsLead(ts), NEW s \in StatementsWith(D),
           Printed(blocks) \in [D -> Strip], s.child # 0 => SettlesAs(ts, s.child),
           NEW q, NEW e, StandsAt(blocks, ts, s, q, e)
    PROVE  StatementSettles(get_threads, ts, s, q, e)
<1>1. PICK B : B = blocks /\ StandsAt(B, ts, s, q, e)
  OBVIOUS
<1>2. PICK m \in Nat : m = Len(s.tokens) /\ m >= 1
  BY DEF StandsAt
<1>3. /\ q \in Nat /\ e \in Nat /\ q + m + 1 <= e /\ e <= Len(ts) /\ Len(ts) \in Nat
      /\ \A j \in 1..m : ts[q + j] = s.tokens[j] /\ ts[q + j] \notin Marks
      /\ Closes(blocks, ts, s, q + m, e)
  BY <1>2, LenProperties DEF StandsAt, Strip
<1>4. PICK f \in Nat : f = q + m + 1 /\ f = (q + m) + 1
  BY <1>3
<1>5. DOMAIN ts = 1..Len(ts)
  BY LenProperties DEF Strip
<1>6. CASE Keyword(s, "threads")
  <2>1. \A j \in 1..m : s.tokens[j] = <<"threads">> => j = 1 /\ Begins(ts, q + 1, "threads")
    <3>1. PICK word : word = "threads"
      OBVIOUS
    <3>2. word \in {"listen", "threads", "hostname"}
      BY <3>1
    <3>3. ASSUME NEW j \in 1..m, s.tokens[j] = <<word>> PROVE j = 1 /\ Begins(ts, q + 1, word)
      <4>1. j \in 1..Len(s.tokens)
        BY <1>2
      <4> QED BY <1>1, <3>2, <3>3, <4>1, KeywordIsFirst
    <3> QED BY <3>1, <3>3
  <2>2. KeywordAt(s) = 1 /\ s.tokens[1] = <<"threads">> /\ m >= 2
    BY <1>2, <1>6, <2>1, KeywordIsAtFirst
  <2>3. PICK i \in Nat : i = q + 1 /\ i + 1 = q + 2
    BY <1>3
  <2>4. Begins(ts, i, "threads") /\ ts[i + 1] = s.tokens[2] /\ ts[i + 1] \notin Marks
    <3>1. 1 \in 1..m /\ 2 \in 1..m
      BY <2>2
    <3> QED BY <1>3, <2>1, <2>2, <2>3, <3>1
  <2>5. i + 1 \in DOMAIN ts /\ i \in (q + 1)..e
    BY <1>3, <1>5, <2>2, <2>3
  <2>6. Sets(ts, i)
    BY <2>4, <2>5 DEF Sets
  <2>7. ThreadsOf(get_threads, s) = Says(ts, i)
    <3>1. PICK v : v = s.tokens[2] /\ v = ts[i + 1]
      BY <2>4
    <3>2. s.tokens[KeywordAt(s) + 1] = v
      <4>1. KeywordAt(s) + 1 = 2
        BY <2>2
      <4> QED BY <3>1, <4>1
    <3>3. ThreadsOf(get_threads, s) = IF IsNumber(v) THEN v ELSE DefaultThreads
      BY <1>6, <3>2, Zenon DEF ThreadsOf
    <3>4. Says(ts, i) = IF IsNumber(v) THEN v ELSE DefaultThreads
      BY <2>6, <3>1, Zenon DEF Says
    <3> QED BY <3>3, <3>4
  <2>8. \A j \in (q + 1)..(i - 1) : FALSE
    BY <2>3, <1>3
  <2>9. SettledAt(ts, q, e, ThreadsOf(get_threads, s))
    BY <2>5, <2>6, <2>7, <2>8 DEF SettledAt, Settles
  <2> QED BY <1>6, <2>9 DEF StatementSettles, Decides
<1>7. CASE ~Keyword(s, "threads")
  <2>1. Unsettled(ts, q, f)
    BY <1>1, <1>2, <1>4, <1>7, WordsSettleNothing
  <2>2. CASE s.child = 0
    <3>1. e = f
      BY <1>3, <1>4, <2>2 DEF Closes
    <3> QED BY <1>7, <2>1, <2>2, <3>1 DEF StatementSettles, Decides
  <2>3. CASE s.child # 0
    <3>0. s.child \in D
      BY <2>3 DEF StatementsWith
    <3>1. PICK c, y, n : c = s.child /\ y = Printed(blocks)[c] /\ n = Len(y) /\ n \in Nat
      <4>1. Printed(blocks)[s.child] \in Strip
        BY <3>0
      <4> QED BY <4>1, LenProperties DEF Strip
    <3>2. ts[f] = <<"{">> /\ At(ts, f, y) /\ e = f + n + 1 /\ ts[e] = <<"}">>
      BY <1>3, <1>4, <2>3, <3>1 DEF Closes
    <3>3. Fresh(ts, f)
      BY <3>2, MarksDiffer DEF Fresh
    <3>4. PICK h \in Nat : h = f + n /\ e = h + 1 /\ f <= h
      <4>1. \A i, j \in Nat : i + j \in Nat /\ i <= i + j
        OBVIOUS
      <4>2. f + n \in Nat /\ f <= f + n
        BY <3>1, <4>1
      <4> QED BY <3>2, <4>2
    <3>5. PICK v : v = get_threads[c] /\ Settled(ts, f, h, v)
      BY <2>3, <3>1, <3>2, <3>3, <3>4 DEF SettlesAs
    <3>6. q <= f /\ f <= h /\ h <= e /\ h \in Nat /\ e \in Nat
      <4>1. q <= f
        BY <1>3, <1>4
      <4>2. h <= e
        BY <3>4
      <4> QED BY <1>3, <3>4, <4>1, <4>2
    <3>7. ThreadsOf(get_threads, s) = v
      BY <1>7, <3>1, <3>5 DEF ThreadsOf
    <3>8. SettledAt(ts, q, e, v)
      <4>1. CASE SettledAt(ts, f, h, v)
        BY <1>3, <2>1, <3>6, <4>1, SettledLater
      <4>2. CASE Unsettled(ts, f, h) /\ v = DefaultThreads
        <5>1. Unsettled(ts, q, h)
          BY <1>3, <2>1, <3>6, <4>2, UnsettledOn
        <5>2. Settles(ts, e) /\ Says(ts, e) = v
          BY <3>2, <4>2, ShutSettles DEF ShutSays
        <5>3. e \in (q + 1)..e /\ \A j \in (q + 1)..(e - 1) : j \in (q + 1)..h
          BY <1>3, <3>4, <3>6
        <5> QED BY <5>1, <5>2, <5>3 DEF SettledAt, Unsettled
      <4> QED BY <3>5, <4>1, <4>2 DEF Settled
    <3> QED BY <2>3, <3>7, <3>8 DEF StatementSettles, Decides
  <2> QED BY <2>2, <2>3
<1> QED BY <1>6, <1>7

LEMMA PlacedGrows ==
    ASSUME NEW B, NEW ts, NEW b, NEW o, NEW e, NEW w, Placed(B, ts, b, o, e, w),
           NEW n \in Nat, n = Len(B[b])
    PROVE  \A i, k \in 0..n : i <= k => w[i] <= w[k]
<1>1. w \in [0..n -> Nat]
  BY DEF Placed
<1>2. ASSUME NEW k \in 0..(n - 1) PROVE w[k] <= w[k + 1]
  <2>1. PICK s : StandsAt(B, ts, s, w[k], w[k + 1])
    BY DEF Placed
  <2>2. PICK m \in Nat : m = Len(s.tokens)
    BY <2>1 DEF StandsAt
  <2>3. PICK x, y : x = w[k] /\ y = w[k + 1]
    OBVIOUS
  <2>4. x \in Nat /\ y \in Nat /\ x + m + 1 <= y
    BY <2>1, <2>2, <2>3 DEF StandsAt
  <2> QED BY <2>3, <2>4
<1> SUFFICES ASSUME NEW i \in 0..n PROVE \A k \in 0..n : i <= k => w[i] <= w[k]
  OBVIOUS
<1> DEFINE A == {k \in Nat : i <= k /\ k <= n => w[i] <= w[k]}
<1>3. 0 \in A
  BY <1>1
<1>4. ASSUME NEW k \in Nat, k \in A PROVE k + 1 \in A
  <2> SUFFICES ASSUME i <= k + 1, k + 1 <= n PROVE w[i] <= w[k + 1]
    OBVIOUS
  <2>1. i = k + 1 \/ i <= k
    OBVIOUS
  <2>2. k \in 0..(n - 1) /\ k \in 0..n /\ k + 1 \in 0..n /\ k <= n
    OBVIOUS
  <2>3. w[i] \in Nat /\ w[k] \in Nat /\ w[k + 1] \in Nat
    BY <1>1, <2>2
  <2>4. CASE i = k + 1
    BY <2>3, <2>4
  <2>5. CASE i <= k
    <3>1. w[i] <= w[k] /\ w[k] <= w[k + 1]
      BY <1>2, <1>4, <2>2, <2>5
    <3>2. PICK x, y, z : x = w[i] /\ y = w[k] /\ z = w[k + 1]
      OBVIOUS
    <3>3. x \in Nat /\ y \in Nat /\ z \in Nat /\ x <= y /\ y <= z
      BY <2>3, <3>1, <3>2
    <3>4. x <= z
      BY <3>3
    <3> QED BY <3>2, <3>4
  <2> QED BY <2>1, <2>4, <2>5
<1> HIDE DEF A
<1>5. Nat \subseteq A
  BY <1>3, <1>4, Induction
<1> QED BY <1>5 DEF A

LEMMA BlockSettles ==
    ASSUME blocks \in Seq(Seq(Statement)), ChildrenAreYounger, Words(blocks),
           NEW ts \in Strip, KeywordsLead(ts),
           NEW b \in 1..Len(blocks), \A c \in (b + 1)..Len(blocks) : SettlesAs(ts, c)
    PROVE  SettlesAs(ts, b)
<1> SUFFICES ASSUME NEW o \in Nat, At(ts, o, Printed(blocks)[b]), Fresh(ts, o)
             PROVE  Settled(ts, o, o + Len(Printed(blocks)[b]), get_threads[b])
  BY DEF SettlesAs
<1>0. Tree(blocks)
  BY DEF Tree, ChildrenAreYounger
<1>1. PICK D, S, p, n : /\ D = 1..Len(blocks) /\ S = StatementsWith(D) /\ p = blocks[b] /\ n = Len(p)
                        /\ n \in Nat
  BY StatementsAreWith
<1>2. /\ p \in Seq(S)
      /\ \A k \in 1..n : p[k] \in S /\ (p[k].child # 0 => p[k].child \in (b + 1)..Len(blocks))
  <2>1. p \in Seq(S) /\ \A k \in 1..n : p[k].child # 0 => p[k].child \in (b + 1)..Len(blocks)
    BY <1>1, StatementsAreWith
  <2> QED BY <1>1, <2>1, ElementOfSeq
<1>3. PICK v : v = get_threads[b] /\ v = ThreadsIn(get_threads, p)
  <2>1. get_threads = [c \in 1..Len(blocks) |-> ThreadsIn(get_threads, blocks[c])]
    BY ThreadsFound
  <2> QED BY <1>1, <2>1, Zenon
<1>4. Printed(blocks) \in [D -> Strip]
  BY <1>0, <1>1, PrintedIs DEF Strip
<1>5. PICK e, w : e = o + Len(Printed(blocks)[b]) /\ Placed(blocks, ts, b, o, e, w)
  BY <1>0, BlockStands
<1>6. /\ w[0] = o /\ w[n] = e /\ w \in [0..n -> Nat]
      /\ \A k \in 0..(n - 1) : StandsAt(blocks, ts, p[k + 1], w[k], w[k + 1])
  BY <1>1, <1>5 DEF Placed
<1>7. \A i, k \in 0..n : i <= k => w[i] <= w[k]
  BY <1>1, <1>5, PlacedGrows
<1>8. ASSUME NEW k \in 1..n, NEW s, s = p[k], NEW q, q = w[k - 1], NEW f, f = w[k]
      PROVE  StatementSettles(get_threads, ts, s, q, f) /\ q \in Nat /\ f \in Nat /\ o <= q /\ q <= f /\ f <= e
  <2>1. k - 1 \in 0..(n - 1) /\ (k - 1) + 1 = k /\ k - 1 \in 0..n /\ k \in 0..n /\ 0 \in 0..n /\ n \in 0..n
    BY <1>1
  <2>2. 0 <= k - 1 /\ k - 1 <= k /\ k <= n
    BY <1>1
  <2>3. s \in StatementsWith(D) /\ StandsAt(blocks, ts, s, q, f) /\ (s.child # 0 => SettlesAs(ts, s.child))
    BY <1>1, <1>2, <1>6, <1>8, <2>1
  <2>4. StatementSettles(get_threads, ts, s, q, f)
    BY <1>4, <2>3, StatementSettled
  <2>5. q \in Nat /\ f \in Nat /\ o <= q /\ q <= f /\ f <= e
    BY <1>6, <1>7, <1>8, <2>1, <2>2
  <2> QED BY <2>4, <2>5
<1>9. o \in Nat /\ e \in Nat
  <2>1. n \in 0..n
    BY <1>1
  <2> QED BY <1>6, <2>1
<1>10. ASSUME NEW m \in 0..n, \A i \in 1..m : ~Decides(p[i])
       PROVE  Unsettled(ts, o, w[m])
  <2> DEFINE A == {k \in Nat : k <= m => Unsettled(ts, o, w[k])}
  <2>1. 0 \in A
    <3>1. \A j \in (o + 1)..o : FALSE
      OBVIOUS
    <3> QED BY <1>6, <3>1 DEF Unsettled
  <2>2. ASSUME NEW k \in Nat, k \in A PROVE k + 1 \in A
    <3> SUFFICES ASSUME k + 1 <= m PROVE Unsettled(ts, o, w[k + 1])
      <4>1. k + 1 \in Nat
        OBVIOUS
      <4> QED BY <4>1
    <3>1. k + 1 \in 1..n /\ k + 1 \in 1..m /\ (k + 1) - 1 = k /\ k <= m
      BY <1>1
    <3>2. PICK s, q, f : s = p[k + 1] /\ q = w[k] /\ f = w[k + 1]
      OBVIOUS
    <3>3. q = w[(k + 1) - 1]
      BY <3>1, <3>2
    <3>4. StatementSettles(get_threads, ts, s, q, f) /\ q \in Nat /\ f \in Nat /\ o <= q /\ q <= f
      BY <1>8, <3>1, <3>2, <3>3
    <3>5. ~Decides(s)
      BY <1>10, <3>1, <3>2
    <3>6. Unsettled(ts, q, f) /\ Unsettled(ts, o, q)
      BY <2>2, <3>1, <3>2, <3>4, <3>5 DEF StatementSettles
    <3>7. Unsettled(ts, o, f)
      BY <1>9, <3>4, <3>6, UnsettledOn
    <3> QED BY <3>2, <3>7
  <2> HIDE DEF A
  <2>3. Nat \subseteq A
    BY <2>1, <2>2, Induction
  <2>4. m \in Nat /\ m <= m
    BY <1>1
  <2> QED BY <2>3, <2>4 DEF A
<1>11. PICK k : k = FirstDeciding(p)
  OBVIOUS
<1>12. /\ k = 0 => \A i \in 1..n : ~Decides(p[i])
       /\ k # 0 => k \in 1..n /\ Decides(p[k]) /\ \A i \in 1..(k - 1) : ~Decides(p[i])
  BY <1>1, <1>11, FirstDecidingLeast
<1>13. CASE k = 0
  <2>1. v = DefaultThreads
    BY <1>3, <1>11, <1>13 DEF ThreadsIn
  <2>2. n \in 0..n
    BY <1>1
  <2>3. Unsettled(ts, o, e)
    BY <1>6, <1>10, <1>12, <1>13, <2>2
  <2> QED BY <1>3, <1>5, <2>1, <2>3 DEF Settled
<1>14. CASE k # 0
  <2>1. k \in 1..n /\ k - 1 \in 0..n
    BY <1>1, <1>12, <1>14
  <2>2. PICK s, q, f : s = p[k] /\ q = w[k - 1] /\ f = w[k]
    OBVIOUS
  <2>3. /\ StatementSettles(get_threads, ts, s, q, f)
        /\ q \in Nat /\ f \in Nat /\ o <= q /\ q <= f /\ f <= e
    BY <1>8, <2>1, <2>2
  <2>4. Decides(s) /\ v = ThreadsOf(get_threads, s)
    BY <1>3, <1>11, <1>12, <1>14, <2>2 DEF ThreadsIn
  <2>5. SettledAt(ts, q, f, v)
    BY <2>3, <2>4 DEF StatementSettles
  <2>6. Unsettled(ts, o, q)
    BY <1>10, <1>12, <1>14, <2>1, <2>2
  <2>7. SettledAt(ts, o, e, v)
    BY <1>9, <2>3, <2>5, <2>6, SettledLater
  <2> QED BY <1>3, <1>5, <2>7 DEF Settled
<1> QED BY <1>13, <1>14

\* The threads of the file.
LEMMA ThreadsAreSettled ==
    ASSUME blocks \in Seq(Seq(Statement)), ChildrenAreYounger, Words(blocks), 1 \in 1..Len(blocks),
           NEW ts \in Strip, KeywordsLead(ts), Printed(blocks)[1] = ts
    PROVE  Settled(ts, 0, Len(ts), get_threads[1])
<1>1. PICK n, P : n \in Nat /\ n = Len(blocks) /\ P = {b \in 1..n : SettlesAs(ts, b)}
  BY LenProperties
<1>2. ASSUME NEW b \in 1..n, (b + 1)..n \subseteq P PROVE b \in P
  <2>1. \A c \in (b + 1)..Len(blocks) : SettlesAs(ts, c)
    BY <1>1, <1>2
  <2>2. SettlesAs(ts, b)
    BY <1>1, <2>1, BlockSettles
  <2> QED BY <1>1, <2>2
<1>3. 1..n \subseteq P
  BY <1>1, <1>2, Downwards
<1>4. SettlesAs(ts, 1)
  BY <1>1, <1>3
<1>5. Len(ts) \in Nat /\ 0 \in Nat /\ 0 + Len(ts) = Len(ts)
  BY LenProperties DEF Strip
<1>6. At(ts, 0, ts) /\ Fresh(ts, 0)
  <2>1. \A i \in 1..Len(ts) : 0 + i = i
    OBVIOUS
  <2> QED BY <1>5, <2>1 DEF At, Fresh
<1> QED BY <1>4, <1>5, <1>6 DEF SettlesAs

-----------------------------------------------------------------------------
(* What the file says is what is served                                    *)

FirstSet(ts, i) == i \in DOMAIN ts /\ ThreadsAt(ts, i) /\ \A j \in DOMAIN ts : ThreadsAt(ts, j) => i <= j

\* The threads statements that count are the first that settle the threads.
LEMMA ThreadsSaid ==
    ASSUME NEW ts \in Strip, NEW n \in Nat, n = Len(ts), NEW v, Settled(ts, 0, n, v)
    PROVE  \/ v = DefaultThreads /\ \A i \in DOMAIN ts : ~ThreadsAt(ts, i)
           \/ \E i : FirstSet(ts, i) /\ v = IF IsNumber(ts[i + 1]) THEN ts[i + 1] ELSE DefaultThreads
<1>1. DOMAIN ts = 1..n
  BY LenProperties DEF Strip
<1>2. \A i \in DOMAIN ts : ThreadsAt(ts, i) => Settles(ts, i) /\ Sets(ts, i) /\ \A j \in 1..i : ts[j] # <<"}">>
  BY DEF ThreadsAt, Settles, Sets
<1>3. CASE Unsettled(ts, 0, n) /\ v = DefaultThreads
  <2>1. \A i \in 1..n : i \in (0 + 1)..n
    OBVIOUS
  <2> QED BY <1>1, <1>2, <1>3, <2>1 DEF Unsettled
<1>4. CASE SettledAt(ts, 0, n, v)
  <2>1. PICK i \in (0 + 1)..n :
           Settles(ts, i) /\ v = Says(ts, i) /\ \A j \in (0 + 1)..(i - 1) : ~Settles(ts, j)
    BY <1>4 DEF SettledAt
  <2>2. i \in 1..n
    OBVIOUS
  <2>3. \A j \in 1..(i - 1) : ~Settles(ts, j)
    BY <2>1
  <2>4. ASSUME NEW j \in DOMAIN ts, ThreadsAt(ts, j) PROVE i <= j /\ i \in 1..j
    <3>1. Settles(ts, j) /\ j \in 1..n
      BY <1>1, <1>2, <2>4
    <3>2. j \notin 1..(i - 1)
      BY <2>3, <3>1
    <3> QED BY <2>2, <3>1, <3>2
  <2>5. CASE ts[i] = <<"}">>
    <3>1. v = DefaultThreads
      BY <2>1, <2>5, ShutSettles DEF ShutSays
    <3>2. \A j \in DOMAIN ts : ~ThreadsAt(ts, j)
      BY <1>2, <2>4, <2>5
    <3> QED BY <3>1, <3>2
  <2>6. CASE ts[i] # <<"}">>
    <3>1. Sets(ts, i)
      BY <2>1, <2>6 DEF Settles
    <3>2. \A j \in 1..i : ts[j] # <<"}">>
      <4>1. \A j \in 1..i : j = i \/ j \in 1..(i - 1)
        BY <2>2
      <4> QED BY <2>3, <2>6, <4>1 DEF Settles
    <3>3. ThreadsAt(ts, i)
      BY <3>1, <3>2 DEF ThreadsAt, Sets
    <3>4. FirstSet(ts, i)
      BY <1>1, <2>2, <2>4, <3>3 DEF FirstSet
    <3>5. v = IF IsNumber(ts[i + 1]) THEN ts[i + 1] ELSE DefaultThreads
      BY <2>1, <3>1 DEF Says
    <3> QED BY <3>4, <3>5
  <2> QED BY <2>5, <2>6
<1> QED BY <1>3, <1>4 DEF Settled

LEMMA FirstHostIs ==
    ASSUME NEW p, NEW n \in Nat, Len(p) = n, FirstHost(p) # 0
    PROVE  \E i \in 1..n : Keyword(p[i], "hostname")
<1> DEFINE I == {i \in 1..Len(p) : Keyword(p[i], "hostname")}
<1>1. FirstHost(p) = IF I # {} THEN Min(I) ELSE 0
  BY Zenon DEF FirstHost, SelectInSeq
<1> QED BY <1>1

\* A statement with the keyword begins with it.
LEMMA KeywordBegins ==
    ASSUME NEW B, NEW ts \in Strip, KeywordsLead(ts), NEW s, NEW q, NEW e, StandsAt(B, ts, s, q, e),
           Keyword(s, "hostname")
    PROVE  \E i \in DOMAIN ts : Begins(ts, i, "hostname")
<1>1. PICK m \in Nat : m = Len(s.tokens) /\ m >= 1
  BY DEF StandsAt
<1>2. PICK word : word = "hostname" /\ word \in {"listen", "threads", "hostname"}
  OBVIOUS
<1>3. PICK j \in 1..Len(s.tokens) : s.tokens[j] = <<word>>
  <2>1. PICK j \in 1..(m - 1) : s.tokens[j] = <<"hostname">>
    BY <1>1 DEF Keyword
  <2>2. j \in 1..m
    OBVIOUS
  <2> QED BY <1>1, <1>2, <2>1, <2>2
<1>4. j = 1 /\ Begins(ts, q + 1, word)
  BY <1>2, <1>3, KeywordIsFirst
<1>5. q + 1 \in DOMAIN ts
  <2>1. q \in Nat /\ e \in Nat /\ q + m + 1 <= e /\ e <= Len(ts) /\ Len(ts) \in Nat
    BY <1>1, LenProperties DEF StandsAt, Strip
  <2> QED BY <2>1, LenProperties DEF Strip
<1> QED BY <1>2, <1>4, <1>5

\* A file with a host name has a statement of it.
LEMMA HostIsNamed ==
    ASSUME blocks \in Seq(Seq(Statement)), ChildrenAreYounger, Words(blocks), 1 \in 1..Len(blocks),
           NEW ts \in Strip, KeywordsLead(ts), Printed(blocks)[1] = ts, get_hostname # "none"
    PROVE  \E i \in DOMAIN ts : Begins(ts, i, "hostname")
<1>0. Tree(blocks)
  BY DEF Tree, ChildrenAreYounger
<1>1. PICK B, p, n : B = blocks /\ p = B[1] /\ n = Len(p) /\ n \in Nat
  BY StatementsAreWith
<1>2. FirstHost(p) # 0
  <2>1. get_hostname = HostOfAll(B)
    BY <1>1, GettersAre, Zenon
  <2> QED BY <1>1, <2>1, Zenon DEF HostOfAll
<1>3. PICK k \in 1..n : Keyword(p[k], "hostname")
  BY <1>1, <1>2, FirstHostIs
<1>4. Len(ts) \in Nat /\ 0 \in Nat /\ 0 + Len(ts) = Len(ts) /\ DOMAIN ts = 1..Len(ts)
  BY LenProperties DEF Strip
<1>5. At(ts, 0, ts) /\ Fresh(ts, 0)
  <2>1. \A i \in 1..Len(ts) : 0 + i = i
    OBVIOUS
  <2> QED BY <1>4, <2>1 DEF At, Fresh
<1>6. PICK w : Placed(blocks, ts, 1, 0, Len(ts), w)
  BY <1>0, <1>4, <1>5, BlockStands
<1>7. PICK s, q, e : s = p[k] /\ StandsAt(B, ts, s, q, e)
  <2>1. k - 1 \in 0..(n - 1) /\ (k - 1) + 1 = k
    BY <1>1
  <2>2. StandsAt(B, ts, p[(k - 1) + 1], w[k - 1], w[(k - 1) + 1])
    BY <1>1, <1>6, <2>1 DEF Placed
  <2> QED BY <2>1, <2>2
<1>8. \E i \in DOMAIN ts : Begins(ts, i, "hostname")
  <2>1. Keyword(s, "hostname")
    BY <1>3, <1>7
  <2> QED BY <1>7, <2>1, KeywordBegins
<1> QED BY <1>8

LEMMA ServedAsListed == SInv => ServesWhatIsListed
<1> SUFFICES ASSUME SInv, started = "serving", KeywordsLead(Tokens)
             PROVE  LET ts    == Tokens
                        set   == {i \in DOMAIN ts : ThreadsAt(ts, i)}
                        first == CHOOSE i \in set : \A j \in set : i <= j
                    IN  /\ (\A i \in DOMAIN ts : ListenAt(ts, i) => ListsPort(ts, i)) => ports = Listed(ts)
                        /\ threads = IF set # {} /\ IsNumber(ts[first + 1]) THEN ts[first + 1]
                                     ELSE DefaultThreads
                        /\ (\E i \in DOMAIN ports : ports[i].type = <<"http">>) =>
                              \E i \in DOMAIN ts : Begins(ts, i, "hostname")
  BY DEF ServesWhatIsListed
<1>1. /\ TypeOK /\ ChildrenAreYounger /\ Len(blocks) >= 1 /\ ReadsFiles /\ Worded /\ MainServes
  BY DEF SInv, RInv, TInv
<1>2. blocks \in Seq(Seq(Statement)) /\ 1 \in 1..Len(blocks) /\ Words(blocks)
  <2>1. blocks \in Seq(Seq(Statement))
    BY <1>1 DEF TypeOK
  <2>2. Len(blocks) \in Nat
    BY <2>1, LenProperties
  <2> QED BY <1>1, <2>1, <2>2 DEF Worded, Words
<1>3. PICK ts : ts = Tokens
  OBVIOUS
<1>4. ts \in Strip /\ KeywordsLead(ts)
  <2>1. Len(file) \in Nat
    BY <1>1, LenProperties DEF TypeOK
  <2> QED BY <1>1, <1>3, <2>1, TokensAre
<1>5. Printed(blocks)[1] = ts
  <2>1. Serialized[1] = Tokens
    BY <1>1 DEF MainServes, ReadsFiles
  <2> QED BY <1>3, <2>1, SerializedIs
<1>6. ports = get_port[1].ports /\ threads = get_threads[1]
  BY <1>1 DEF MainServes
<1>7. (\A i \in DOMAIN ts : ListenAt(ts, i) => ListsPort(ts, i)) => ports = Listed(ts)
  BY <1>1, <1>2, <1>4, <1>5, <1>6, PortsAreListed DEF ListsPorts
<1>8. (\E i \in DOMAIN ports : ports[i].type = <<"http">>) => \E i \in DOMAIN ts : Begins(ts, i, "hostname")
  <2>1. (\E i \in DOMAIN ports : ports[i].type = <<"http">>) => get_hostname # "none"
    BY <1>1 DEF MainServes
  <2> QED BY <1>1, <1>2, <1>4, <1>5, <2>1, HostIsNamed
<1> DEFINE set   == {i \in DOMAIN ts : ThreadsAt(ts, i)}
           first == CHOOSE i \in set : \A j \in set : i <= j
<1>9. threads = IF set # {} /\ IsNumber(ts[first + 1]) THEN ts[first + 1] ELSE DefaultThreads
  <2>1. Settled(ts, 0, Len(ts), threads) /\ Len(ts) \in Nat /\ DOMAIN ts = 1..Len(ts)
    BY <1>1, <1>2, <1>4, <1>5, <1>6, ThreadsAreSettled, LenProperties DEF Strip
  <2>2. CASE threads = DefaultThreads /\ \A i \in DOMAIN ts : ~ThreadsAt(ts, i)
    BY <2>2
  <2>3. ASSUME NEW i, FirstSet(ts, i), threads = IF IsNumber(ts[i + 1]) THEN ts[i + 1] ELSE DefaultThreads
        PROVE  threads = IF set # {} /\ IsNumber(ts[first + 1]) THEN ts[first + 1] ELSE DefaultThreads
    <3>1. i \in set /\ \A j \in set : i <= j
      BY <2>3 DEF FirstSet
    <3>2. \A j \in set : j \in Nat
      BY <2>1
    <3> HIDE DEF set
    <3>3. first \in set /\ \A j \in set : first <= j
      BY <3>1
    <3>4. first <= i /\ i <= first /\ first \in Nat /\ i \in Nat
      BY <3>1, <3>2, <3>3
    <3> HIDE DEF first
    <3>5. first = i
      BY <3>4
    <3> QED BY <2>3, <3>1, <3>5
  <2>4. PICK n, v : n \in Nat /\ n = Len(ts) /\ v = threads
    BY <2>1
  <2>5. \/ v = DefaultThreads /\ \A i \in DOMAIN ts : ~ThreadsAt(ts, i)
        \/ \E i : FirstSet(ts, i) /\ v = IF IsNumber(ts[i + 1]) THEN ts[i + 1] ELSE DefaultThreads
    BY <1>4, <2>1, <2>4, ThreadsSaid
  <2>6. CASE v = DefaultThreads /\ \A i \in DOMAIN ts : ~ThreadsAt(ts, i)
    BY <2>2, <2>4, <2>6
  <2>7. CASE \E i : FirstSet(ts, i) /\ v = IF IsNumber(ts[i + 1]) THEN ts[i + 1] ELSE DefaultThreads
    BY <2>3, <2>4, <2>7
  <2> QED BY <2>5, <2>6, <2>7
<1> QED BY <1>3, <1>7, <1>8, <1>9

\* When main serves, with keywords only at the beginning of statements: it listens on
\* the ports that the file lists, in their order and at any depth, with the threads
\* its first threads statement gives, and has a host name for an HTTP server.
THEOREM ServersAreListed == Spec => []ServesWhatIsListed
BY SInvInit, SInvStep, ServedAsListed, PTL DEF Spec
=============================================================================
