------------------------------ MODULE CallProofs ------------------------------
(***************************************************************************)
(* Proofs about calls of a provider.  withRetry, for every budget, every   *)
(* set of errors and every width of a duration; EmbedMany, whose chunks    *)
(* are such calls, for every number of values, every size of a chunk and   *)
(* every parallelism, over the token source that the calls share.          *)
(***************************************************************************)
EXTENDS Retry, EmbedMany, WellFoundedInduction, TLAPS

RetryTypes ==
    /\ pc \in {"call", "check", "sleep", "returned"}
    /\ attempt \in 0..maxRetries
    /\ err \in Errors \cup {NoError}
    /\ ctx \in {"live", "done"}
    /\ ret \in {"pending", "result", "error", "exhausted", "cancelled"}

\* What retrying means at each place: sleep is reached only with budget left, and the
\* verdict is given at the end.
Budget ==
    /\ CallsMatchAttempts
    /\ pc = "sleep" => attempt < maxRetries
    /\ pc \in {"sleep", "call"} /\ calls > 0 => retryable(err)
    /\ pc # "returned" => ret = "pending"
    /\ ExhaustedIsEarned

RetryInv == RetryTypes /\ Budget /\ DelayBounded

-----------------------------------------------------------------------------
\* A jittered exponential delay is positive and at most a minute and a half.
LEMMA BackoffBounds ==
    ASSUME NEW n \in Nat, NEW jitter \in 5..15
    PROVE  /\ backoffDuration(n, jitter) \in Int
           /\ 0 < backoffDuration(n, jitter)
           /\ backoffDuration(n, jitter) <= 90 * Second
<1>1. Second \in Nat /\ Second >= 1000
  BY TicksAssumption DEF Second
<1>2. backoffBase(n) \in 2..60
  BY DEF backoffBase
<1>3. backoffBase(n) * jitter \in 10..900
  BY <1>2
<1>4. backoffBase(n) * jitter * Second >= 10
  BY <1>1, <1>3
<1>5. backoffBase(n) * jitter * Second <= 900 * Second
  BY <1>1, <1>3
<1>6. backoffBase(n) * jitter * Second \in Int
  BY <1>1, <1>3
<1> QED
  BY <1>1, <1>4, <1>5, <1>6 DEF backoffDuration

\* A hint is an integer, whatever the width made of it.
LEMMA HintType ==
    ASSUME NEW e \in Errors
    PROVE  retryAfterDuration(e) \in Int
<1>1. e.ms \in Nat /\ e.secs \in Nat /\ e.date \in Nat /\ e.body \in Nat
  BY ErrorsAssumption
<1>2. ASSUME NEW n \in Nat PROVE Wrap(n) \in Int
  <2>1. n % Modulus \in Int
    BY TicksAssumption
  <2> QED
    BY <2>1, TicksAssumption DEF Wrap
<1>3. e.ms * Millisecond \in Nat /\ e.secs * Second \in Nat /\ e.body * Second \in Nat
  BY <1>1, TicksAssumption DEF Second
<1> QED
  BY <1>1, <1>2, <1>3 DEF retryAfterDuration

\* Whatever the server asks for, the delay keeps the bounds of the exponential one.
LEMMA DelayBounds ==
    ASSUME NEW e \in Errors, NEW n \in Nat, NEW jitter \in 5..15
    PROVE  0 < retryDelay(e, n, jitter) /\ retryDelay(e, n, jitter) <= 90 * Second
<1>1. retryAfterDuration(e) \in Int /\ Second \in Nat
  BY HintType, TicksAssumption DEF Second
<1>2. /\ backoffDuration(n, jitter) \in Int
      /\ 0 < backoffDuration(n, jitter) /\ backoffDuration(n, jitter) <= 90 * Second
  BY BackoffBounds
<1> QED
  BY <1>1, <1>2 DEF retryDelay

LEMMA TransientIsError ==
    ASSUME NEW e \in Errors \cup {NoError}, retryable(e)
    PROVE  e \in Errors
BY DEF retryable, NoError

LEMMA RetryInvariance == RetrySpec => []RetryInv
<1> USE RetryAssumption
<1>1. RetryInit => RetryInv
  BY DEF RetryInit, RetryInv, RetryTypes, Budget, CallsMatchAttempts, ExhaustedIsEarned, DelayBounded
<1>2. RetryInv /\ [RetryNext]_retryVars => RetryInv'
  <2> SUFFICES ASSUME RetryInv, [RetryNext]_retryVars PROVE RetryInv'
    OBVIOUS
  <2> USE DEF RetryInv, RetryTypes, Budget, CallsMatchAttempts, ExhaustedIsEarned, DelayBounded
  <2>1. CASE Call
    BY <2>1 DEF Call
  <2>2. CASE Retry
    <3>1. PICK jitter \in 5..15 : delay' = retryDelay(err, attempt, jitter)
      BY <2>2 DEF Retry
    <3>2. 0 < delay' /\ delay' <= 90 * Second
      BY <2>2, <3>1, DelayBounds, TransientIsError DEF Retry
    <3> QED
      BY <2>2, <3>2 DEF Retry
  <2>3. CASE GiveUp
    BY <2>3 DEF GiveUp
  <2>4. CASE sleep
    BY <2>4 DEF sleep
  <2>5. CASE Cancel
    BY <2>5 DEF Cancel
  <2>6. CASE UNCHANGED retryVars
    BY <2>6 DEF retryVars
  <2> QED
    BY <2>1, <2>2, <2>3, <2>4, <2>5, <2>6 DEF RetryNext, Steps
<1> QED
  BY <1>1, <1>2, PTL DEF RetrySpec

-----------------------------------------------------------------------------
\* fn is called exactly once more than there were retries, within the budget.
THEOREM BudgetKept == RetrySpec => []CallsMatchAttempts
<1>1. RetryInv => CallsMatchAttempts
  BY DEF RetryInv, Budget
<1> QED
  BY RetryInvariance, <1>1, PTL

\* No hint of a server and no attempt number makes a delay longer than 90 seconds.
THEOREM DelayAlwaysBounded == RetrySpec => []DelayBounded
<1>1. RetryInv => DelayBounded
  BY DEF RetryInv
<1> QED
  BY RetryInvariance, <1>1, PTL

\* "retries exhausted" is said of a transient error that used up the budget, only.
THEOREM ExhaustionEarned == RetrySpec => []ExhaustedIsEarned
<1>1. RetryInv => ExhaustedIsEarned
  BY DEF RetryInv, Budget
<1> QED
  BY RetryInvariance, <1>1, PTL

\* An error that is not transient ends the loop.
THEOREM TransientOnly == RetrySpec => OnlyTransientRetried
<1>1. RetryInv /\ [RetryNext]_retryVars => [(calls' > calls /\ calls > 0) => retryable(err)]_retryVars
  BY DEF RetryInv, RetryTypes, Budget, CallsMatchAttempts, RetryNext, Steps, Call, Retry, GiveUp,
         sleep, Cancel, retryVars
<1> QED
  BY RetryInvariance, <1>1, PTL DEF RetrySpec, OnlyTransientRetried

-----------------------------------------------------------------------------
\* Induction over the chunks: the library's theorem takes an operator, here what
\* holds is a set.
LEMMA LeastNatural ==
    ASSUME NEW T, T \subseteq Nat, T # {}
    PROVE  \E x \in T : \A y \in T : x <= y
<1> DEFINE R == {p \in Nat \X Nat : p[1] < p[2]}
<1>1. IsWellFoundedOn(R, Nat)
  BY NatLessThanWellFounded DEF OpToRel
<1>2. \A x, y \in Nat : <<y, x>> \in R <=> y < x
  OBVIOUS
<1> HIDE DEF R
<1>3. PICK x \in T : \A y \in T : ~ (<<y, x>> \in R)
  BY <1>1, WFMin
<1>4. \A y \in T : ~(y < x)
  BY <1>2, <1>3
<1> QED
  BY <1>4

\* Induction without an operator as its parameter: what holds is a set.
LEMMA Induction ==
    ASSUME NEW S, 0 \in S, \A n \in Nat : n \in S => n + 1 \in S
    PROVE  \A n \in Nat : n \in S
<1> DEFINE T == Nat \ S
<1>1. SUFFICES ASSUME T # {} PROVE FALSE
  OBVIOUS
<1>2. PICK x \in T : \A y \in T : x <= y
  BY <1>1, LeastNatural
<1>3. x # 0 /\ x - 1 \in Nat
  OBVIOUS
<1>4. x - 1 \in S
  BY <1>2, <1>3
<1> QED
  BY <1>3, <1>4

\* The chunks, their number and where they end.
LEMMA Dividing ==
    ASSUME NEW M \in Nat \ {0}, NEW C \in Nat \ {0}
    PROVE  LET N == (C + M - 1) \div M
           IN  N \in Nat \ {0} /\ N <= C /\ C <= N * M /\ (N - 1) * M < C
<1> DEFINE N == (C + M - 1) \div M
           r == (C + M - 1) % M
<1>1. N \in Int /\ r \in 0..(M - 1) /\ C + M - 1 = M * N + r
  OBVIOUS
<1> HIDE DEF N, r
<1>2. C <= M * N /\ M * N <= C + M - 1
  BY <1>1
<1>3. N > 0
  <2>1. N <= 0 => M * N <= 0
    BY <1>1
  <2> QED
    BY <1>1, <1>2, <2>1
<1>4. M * N = N * M /\ (N - 1) * M = N * M - M
  BY <1>1
<1>5. N <= C
  BY <1>1, <1>2, <1>3
<1> QED
  BY <1>1, <1>2, <1>3, <1>4, <1>5 DEF N

Size == MaxValuesPerCall(model)
EndOf(i) == IF i * Size <= Count THEN i * Size ELSE Count   \* values up to and with chunk i

LEMMA MinOfTwo ==
    ASSUME NEW a \in Nat, NEW b \in Nat
    PROVE  Min({a, b}) = IF a <= b THEN a ELSE b
BY DEF Min

LEMMA PerCall == Size \in Nat \ {0} /\ (model \in SingleInput => Size = 1)
BY EmbedAssumption DEF Size, MaxValuesPerCall

LEMMA ChunkBounds ==
    ASSUME NEW i \in Chunks
    PROVE  /\ Chunks \subseteq Callers
           /\ i \in Nat \ {0} /\ EndOf(i) \in Nat /\ EndOf(i - 1) \in Nat /\ (i - 1) * Size < Count
           /\ EndOf(i - 1) = (i - 1) * Size /\ EndOf(i - 1) < EndOf(i)
           /\ ChunkValues(i) = [j \in 1..(EndOf(i) - EndOf(i - 1)) |-> EndOf(i - 1) + j]
           /\ model \in SingleInput => EndOf(i) = EndOf(i - 1) + 1
<1> DEFINE N == (Count + Size - 1) \div Size
<1>1. /\ Size \in Nat \ {0} /\ Count \in Nat \ {0}
      /\ N \in Nat \ {0} /\ N <= Count /\ Count <= N * Size /\ (N - 1) * Size < Count
  BY PerCall, Dividing, EmbedAssumption
<1>2. Chunks = 1..N
  BY DEF Chunks, Size
<1> HIDE DEF N
<1>3. i \in 1..N /\ Chunks \subseteq Callers
  BY <1>1, <1>2, CallersAssumption
<1>4. /\ (i - 1) * Size <= (N - 1) * Size /\ (i - 1) * Size \in Nat
      /\ i * Size = (i - 1) * Size + Size /\ i * Size \in Nat
  BY <1>1, <1>3
<1>5. (i - 1) * Size < Count
  BY <1>1, <1>4
<1>6. EndOf(i - 1) = (i - 1) * Size /\ EndOf(i) \in Nat /\ EndOf(i - 1) < EndOf(i)
  BY <1>1, <1>4, <1>5 DEF EndOf
<1>7. Min({Size, Count - (i - 1) * Size}) = EndOf(i) - EndOf(i - 1)
  BY <1>1, <1>4, <1>5, <1>6, MinOfTwo DEF EndOf
<1>8. ChunkValues(i) = [j \in 1..(EndOf(i) - EndOf(i - 1)) |-> EndOf(i - 1) + j]
  BY <1>6, <1>7 DEF ChunkValues, Size
<1>9. model \in SingleInput => EndOf(i) = EndOf(i - 1) + 1
  BY <1>1, <1>4, <1>5, <1>6, PerCall DEF EndOf
<1> QED
  BY <1>3, <1>4, <1>5, <1>6, <1>8, <1>9

LEMMA LastChunk == \E N \in Nat \ {0} : Chunks = 1..N /\ EndOf(N) = Count
<1> DEFINE N == (Count + Size - 1) \div Size
<1>1. /\ Size \in Nat \ {0} /\ Count \in Nat \ {0}
      /\ N \in Nat \ {0} /\ N <= Count /\ Count <= N * Size /\ (N - 1) * Size < Count
  BY PerCall, Dividing, EmbedAssumption
<1>2. Chunks = 1..N
  BY DEF Chunks, Size
<1> HIDE DEF N
<1>3. EndOf(N) = Count
  BY <1>1 DEF EndOf
<1> QED
  BY <1>1, <1>2, <1>3

-----------------------------------------------------------------------------
\* Rows that came back complete are placed as their values stand; where they
\* are missing the result is seen to be wrong, or a lenient model's.
Complete(i, r) ==
    \/ r = Failed \/ Len(r) # Len(ChunkValues(i)) \/ r = ChunkValues(i)
    \/ model = "lenient" /\ r = <<NoVector>>

LEMMA RowPlaces ==
    ASSUME NEW i \in Chunks, NEW n, n = EndOf(i) - EndOf(i - 1), model \notin SingleInput,
           NEW rows, rows = [j \in DOMAIN Posted(i) |-> Row(i, Posted(i)[j])]
    PROVE  /\ n \in Nat \ {0} /\ Len(ChunkValues(i)) = n
           /\ rows = [j \in 1..n |-> [index |-> j, values |-> EndOf(i - 1) + j]]
<1>1. /\ i \in Nat \ {0} /\ EndOf(i) \in Nat /\ EndOf(i - 1) \in Nat /\ EndOf(i - 1) < EndOf(i)
      /\ ChunkValues(i) = [j \in 1..n |-> EndOf(i - 1) + j]
  BY ChunkBounds, PerCall
<1>2. n \in Nat \ {0}
  BY <1>1
<1>3. Posted(i) = ChunkValues(i)
  BY DEF Posted
<1>4. ChunkValues(i)[1] = EndOf(i - 1) + 1
  BY <1>1, <1>2
<1>5. ASSUME NEW j \in 1..n PROVE Row(i, Posted(i)[j]) = [index |-> j, values |-> EndOf(i - 1) + j]
  <2>1. Posted(i)[j] = EndOf(i - 1) + j
    BY <1>1, <1>3
  <2>2. EndOf(i - 1) + j - (EndOf(i - 1) + 1) + 1 = j
    BY <1>1, <1>2
  <2>3. \A v : Row(i, v) = [index |-> v - ChunkValues(i)[1] + 1, values |-> v]
    BY DEF Row
  <2>4. Posted(i)[j] - ChunkValues(i)[1] + 1 = j
    BY <1>1, <1>2, <1>4, <2>1
  <2> QED
    BY <2>1, <2>3, <2>4
<1>6. DOMAIN Posted(i) = 1..n
  BY <1>1, <1>3
<1> QED
  BY <1>1, <1>2, <1>5, <1>6

RowType == [index : Int, values : Int]

LEMMA FrontOf ==
    ASSUME NEW X, NEW s \in Seq(X), s # <<>>
    PROVE  Front(s) \in Seq(X) /\ Len(Front(s)) = Len(s) - 1
<1>1. Len(s) \in Nat /\ Len(s) >= 1
  OBVIOUS
<1>2. \A j \in 1..(Len(s) - 1) : s[j] \in X
  OBVIOUS
<1>3. Front(s) = [j \in 1..(Len(s) - 1) |-> s[j]]
  BY <1>1 DEF Front
<1> QED
  BY <1>1, <1>2, <1>3

\* As many places as rows, whichever way they are placed.
LEMMA PlacesCount ==
    ASSUME NEW rows \in Seq(RowType)
    PROVE  Len(PlaceByIndex(rows)) = Len(rows) /\ Len(PlaceInOrder(rows)) = Len(rows)
<1>1. DOMAIN rows = 1..Len(rows) /\ Len(rows) \in Nat
  OBVIOUS
<1> QED
  BY <1>1 DEF PlaceByIndex, PlaceInOrder

Run(b, n) == [j \in 1..n |-> b + j]    \* n values from b + 1 on

\* Every index occurs once: each value goes to its place.
LEMMA Indexed ==
    ASSUME NEW n \in Nat, NEW b \in Nat, NEW rows, DOMAIN rows = 1..n,
           \A j \in 1..n : /\ rows[j].index \in 1..n /\ rows[rows[j].index].index = j
                           /\ rows[j].values = b + rows[j].index
    PROVE  PlaceByIndex(rows) = Run(b, n)
<1>1. ASSUME NEW p \in 1..n
      PROVE  (IF \E j \in DOMAIN rows : rows[j].index = p
              THEN rows[Max({j \in DOMAIN rows : rows[j].index = p})].values ELSE NoVector) = b + p
  <2> DEFINE q == rows[p].index
  <2>1. q \in 1..n /\ rows[q].index = p /\ rows[q].values = b + p
    OBVIOUS
  <2>2. \A j \in 1..n : rows[j].index = p => j = q
    OBVIOUS
  <2> HIDE DEF q
  <2>3. {j \in DOMAIN rows : rows[j].index = p} = {q}
    BY <2>1, <2>2
  <2>4. Max({q}) = q
    BY <2>1 DEF Max
  <2> QED
    BY <2>1, <2>3, <2>4
<1> QED
  BY <1>1 DEF PlaceByIndex, Run

\* A complete reply, in order or reversed, gives the values in order.
LEMMA AllRowsPlaced ==
    ASSUME NEW b \in Nat, NEW n \in Nat \ {0},
           NEW all, all = [j \in 1..n |-> [index |-> j, values |-> b + j]]
    PROVE  /\ PlaceInOrder(all) = Run(b, n)
           /\ PlaceByIndex(all) = Run(b, n)
           /\ PlaceByIndex(Reverse(all)) = Run(b, n)
<1>1. DOMAIN all = 1..n /\ Len(all) = n /\ \A j \in 1..n : all[j].index = j /\ all[j].values = b + j
  OBVIOUS
<1>2. PlaceInOrder(all) = Run(b, n)
  BY <1>1 DEF PlaceInOrder, Run
<1>3. PlaceByIndex(all) = Run(b, n)
  BY <1>1, Indexed
<1>4. PlaceByIndex(Reverse(all)) = Run(b, n)
  <2> DEFINE back == Reverse(all)
  <2>1. back = [j \in 1..n |-> all[n - j + 1]]
    BY <1>1 DEF Reverse
  <2>2. \A j \in 1..n : n - j + 1 \in 1..n /\ n - (n - j + 1) + 1 = j
    OBVIOUS
  <2> HIDE DEF back
  <2>3. DOMAIN back = 1..n
        /\ \A j \in 1..n : back[j].index = n - j + 1 /\ back[j].values = b + (n - j + 1)
    <3>1. ASSUME NEW j \in 1..n PROVE back[j].index = n - j + 1 /\ back[j].values = b + (n - j + 1)
      <4>1. back[j] = all[n - j + 1] /\ n - j + 1 \in 1..n
        BY <2>1, <2>2
      <4> QED
        BY <1>1, <4>1
    <3> QED
      BY <2>1, <3>1
  <2>4. \A j \in 1..n : /\ back[j].index \in 1..n /\ back[back[j].index].index = j
                        /\ back[j].values = b + back[j].index
    BY <2>2, <2>3
  <2>5. PlaceByIndex(back) = Run(b, n)
    BY <2>3, <2>4, Indexed
  <2> QED
    BY <2>5 DEF back
<1> QED
  BY <1>2, <1>3, <1>4

\* One row too few, or one too many.
LEMMA OtherCounts ==
    ASSUME NEW n \in Nat \ {0}, NEW all \in Seq(RowType), Len(all) = n, NEW extra \in RowType
    PROVE  \A rows \in {Front(all), Append(all, extra)} :
              Len(PlaceInOrder(rows)) # n /\ Len(PlaceByIndex(rows)) # n
<1>1. Front(all) \in Seq(RowType) /\ Len(Front(all)) = n - 1
  BY FrontOf
<1>2. Append(all, extra) \in Seq(RowType) /\ Len(Append(all, extra)) = n + 1
  OBVIOUS
<1> QED
  BY <1>1, <1>2, PlacesCount

LEMMA BatchPlaced ==
    ASSUME NEW i \in Chunks, NEW rows \in Replies(i), model \in {"indexed", "listed"}
    PROVE  Complete(i, DoEmbed(rows))
<1> DEFINE n == EndOf(i) - EndOf(i - 1)
           b == EndOf(i - 1)
           all == [j \in DOMAIN Posted(i) |-> Row(i, Posted(i)[j])]
           extra == [index |-> Len(all) + 1, values |-> Count + 1]
<1>1. \/ rows = all \/ rows \in {Front(all), Append(all, extra)}
      \/ model = "indexed" /\ rows = Reverse(all)
  BY DEF Replies
<1>2. model \notin SingleInput /\ b \in Nat /\ ChunkValues(i) = [j \in 1..n |-> b + j]
  BY ChunkBounds, PerCall DEF SingleInput
<1>3. n \in Nat \ {0} /\ all = [j \in 1..n |-> [index |-> j, values |-> b + j]] /\ Len(ChunkValues(i)) = n
  BY <1>2, RowPlaces
<1> HIDE DEF all, n, b
<1>4. all \in Seq(RowType) /\ Len(all) = n /\ extra \in RowType
  <2>1. \A j \in 1..n : [index |-> j, values |-> b + j] \in RowType
    BY <1>2, <1>3 DEF RowType
  <2>2. all \in Seq(RowType) /\ Len(all) = n
    BY <1>3, <2>1
  <2> QED
    BY <1>3, <2>2, EmbedAssumption DEF RowType
<1> HIDE DEF extra
<1>5. CASE rows \in {Front(all), Append(all, extra)}
  <2>1. Len(PlaceInOrder(rows)) # n /\ Len(PlaceByIndex(rows)) # n
    BY <1>3, <1>4, <1>5, OtherCounts
  <2> QED
    BY <1>3, <2>1 DEF DoEmbed, Complete
<1>6. CASE rows = all
  BY <1>2, <1>3, <1>6, AllRowsPlaced DEF DoEmbed, Complete, Run
<1>7. CASE model = "indexed" /\ rows = Reverse(all)
  BY <1>2, <1>3, <1>7, AllRowsPlaced DEF DoEmbed, Complete, Run
<1> QED
  BY <1>1, <1>5, <1>6, <1>7

\* A model that takes one value answers with its embedding or with none.
LEMMA SinglePlaced ==
    ASSUME NEW i \in Chunks, NEW rows \in Replies(i), model \in SingleInput
    PROVE  Complete(i, DoEmbed(rows))
<1> DEFINE b == EndOf(i - 1)
           all == [j \in DOMAIN Posted(i) |-> Row(i, Posted(i)[j])]
           extra == [index |-> Len(all) + 1, values |-> Count + 1]
<1>1. rows \in {all, Front(all), Append(all, extra)}
  BY DEF Replies, SingleInput
<1>2. ChunkValues(i) = <<b + 1>>
  <2>1. b \in Nat /\ EndOf(i) = b + 1 /\ ChunkValues(i) = [j \in 1..(EndOf(i) - b) |-> b + j]
    BY ChunkBounds
  <2> HIDE DEF b
  <2>2. EndOf(i) - b = 1
    BY <2>1
  <2>3. ChunkValues(i) = [j \in 1..1 |-> b + j]
    BY <2>1, <2>2
  <2> QED
    BY <2>1, <2>3
<1>3. Posted(i) = <<b + 1>>
  BY <1>2 DEF Posted
<1> DEFINE x == Row(i, b + 1)
<1>4. all = <<x>>
  BY <1>3
<1>5. x.values = b + 1
  BY DEF Row
<1> HIDE DEF x, all, b, extra
<1>6. CASE rows = all
  BY <1>2, <1>4, <1>5, <1>6 DEF DoEmbed, PlaceSingle, PlaceLenient, Complete, SingleInput
<1>7. CASE rows = Front(all)
  <2>1. rows = <<>>
    BY <1>4, <1>7 DEF Front
  <2> QED
    BY <2>1 DEF DoEmbed, PlaceSingle, PlaceLenient, Complete, SingleInput
<1>8. CASE rows = Append(all, extra)
  <2>1. rows # <<>> /\ Head(rows) = x
    BY <1>4, <1>8
  <2> QED
    BY <1>2, <1>5, <2>1 DEF DoEmbed, PlaceSingle, PlaceLenient, Complete, SingleInput
<1> QED
  BY <1>1, <1>6, <1>7, <1>8

LEMMA ReplyPlaced ==
    ASSUME NEW i \in Chunks, NEW rows \in Replies(i), model \in Models
    PROVE  Complete(i, DoEmbed(rows))
BY ModelsAssumption, BatchPlaced, SinglePlaced DEF SingleInput

-----------------------------------------------------------------------------
\* Chunks that are whole are joined to all the values.
LEMMA RunsJoin ==
    ASSUME NEW b \in Nat, NEW n \in Nat
    PROVE  Run(0, b) \o Run(b, n) = Run(0, b + n)
<1>1. /\ Run(0, b) \in Seq(Nat) /\ Len(Run(0, b)) = b
      /\ Run(b, n) \in Seq(Nat) /\ Len(Run(b, n)) = n
      /\ Run(0, b + n) \in Seq(Nat) /\ Len(Run(0, b + n)) = b + n
  BY DEF Run
<1> DEFINE s == Run(0, b) \o Run(b, n)
<1>2. s \in Seq(Nat) /\ Len(s) = b + n
  BY <1>1
<1>3. ASSUME NEW u \in Seq(Nat), NEW w \in Seq(Nat), Len(u) = b, Len(w) = n, NEW j \in 1..(b + n)
      PROVE  (u \o w)[j] = IF j <= b THEN u[j] ELSE w[j - b]
  BY <1>3
<1> HIDE DEF s
<1>4. ASSUME NEW j \in 1..(b + n) PROVE s[j] = Run(0, b + n)[j]
  <2>1. s[j] = IF j <= b THEN Run(0, b)[j] ELSE Run(b, n)[j - b]
    BY <1>1, <1>3 DEF s
  <2>2. j \in Int /\ (j <= b \/ j > b)
    OBVIOUS
  <2>3. j <= b => Run(0, b)[j] = 0 + j
    BY DEF Run
  <2>4. j > b => Run(b, n)[j - b] = b + (j - b)
    BY DEF Run
  <2>5. Run(0, b + n)[j] = 0 + j
    BY DEF Run
  <2> QED
    BY <2>1, <2>2, <2>3, <2>4, <2>5
<1>5. s = Run(0, b + n)
  BY <1>1, <1>2, <1>4
<1> QED
  BY <1>5 DEF s

IsFlattened(f, s) == f = [i \in 1..Len(s) |-> IF i = 1 THEN s[i] ELSE f[i - 1] \o s[i]]

\* FlattenSeq is determined by its equation.
LEMMA FlattenIs ==
    ASSUME NEW s, Len(s) \in Nat \ {0}, NEW g, IsFlattened(g, s)
    PROVE  FlattenSeq(s) = g[Len(s)]
<1> DEFINE h == CHOOSE f : IsFlattened(f, s)
           S == {i \in Nat : i \in 1..Len(s) => h[i] = g[i]}
<1>1. FlattenSeq(s) = h[Len(s)]
  BY DEF FlattenSeq, IsFlattened
<1>2. IsFlattened(h, s)
  BY Zenon
<1> HIDE DEF h
<1>3. \A i \in 1..Len(s) : /\ g[i] = IF i = 1 THEN s[i] ELSE g[i - 1] \o s[i]
                           /\ h[i] = IF i = 1 THEN s[i] ELSE h[i - 1] \o s[i]
  BY <1>2 DEF IsFlattened
<1>4. 0 \in S
  OBVIOUS
<1>5. ASSUME NEW i \in Nat, i \in S
      PROVE  i + 1 \in S
  <2>1. SUFFICES ASSUME i + 1 \in 1..Len(s) PROVE h[i + 1] = g[i + 1]
    OBVIOUS
  <2>2. CASE i = 0
    BY <1>3, <2>1, <2>2
  <2>3. CASE i # 0
    <3>1. h[i] = g[i]
      BY <1>5, <2>1, <2>3
    <3> QED
      BY <1>3, <2>1, <2>3, <3>1
  <2> QED
    BY <2>2, <2>3
<1> HIDE DEF S
<1>6. \A i \in Nat : i \in S
  BY <1>4, <1>5, Induction
<1> QED
  BY <1>1, <1>6 DEF S

LEMMA WholeChunksJoin ==
    ASSUME NEW r, \A i \in Chunks : r[i] = ChunkValues(i)
    PROVE  FlattenSeq([i \in Chunks |-> r[i]]) = [v \in 1..Count |-> v]
<1>1. PICK N \in Nat \ {0} : Chunks = 1..N /\ EndOf(N) = Count
  BY LastChunk
<1> DEFINE s == [i \in Chunks |-> r[i]]
           g == [i \in 1..N |-> Run(0, EndOf(i))]
<1>2. Len(s) = N
  BY <1>1
<1>3. ASSUME NEW i \in 1..N
      PROVE  Run(0, EndOf(i)) = IF i = 1 THEN s[i] ELSE Run(0, EndOf(i - 1)) \o s[i]
  <2> DEFINE b == EndOf(i - 1)
             n == EndOf(i) - EndOf(i - 1)
  <2>1. /\ b \in Nat /\ EndOf(i) \in Nat /\ b < EndOf(i)
        /\ b = (i - 1) * Size /\ s[i] = Run(b, n)
    BY <1>1, ChunkBounds DEF Run
  <2>2. n \in Nat /\ b + n = EndOf(i)
    BY <2>1
  <2>3. i = 1 => b = 0
    BY <2>1, PerCall
  <2> HIDE DEF b, n, s
  <2>4. Run(0, b) \o Run(b, n) = Run(0, EndOf(i))
    BY <2>1, <2>2, RunsJoin
  <2>5. i = 1 => s[i] = Run(0, EndOf(i))
    BY <2>1, <2>2, <2>3
  <2>6. Run(0, EndOf(i - 1)) \o s[i] = Run(0, EndOf(i))
    BY <2>1, <2>4 DEF b
  <2> QED
    BY <2>5, <2>6
<1> HIDE DEF s
<1>4. IsFlattened(g, s)
  <2>1. \A i \in 1..N : i # 1 => i - 1 \in 1..N
    OBVIOUS
  <2>2. g = [i \in 1..N |-> IF i = 1 THEN s[i] ELSE g[i - 1] \o s[i]]
    BY <1>3, <2>1
  <2> QED
    BY <1>2, <2>2 DEF IsFlattened
<1>5. FlattenSeq(s) = g[N]
  BY <1>2, <1>4, FlattenIs
<1>6. g[N] = [v \in 1..Count |-> v]
  <2>1. g[N] = Run(0, Count)
    BY <1>1
  <2>2. \A v \in 1..Count : 0 + v = v
    BY EmbedAssumption
  <2> QED
    BY <2>1, <2>2 DEF Run
<1> QED
  BY <1>5, <1>6 DEF s

LEMMA Joined ==
    ASSUME NEW a \in Seq(Nat), NEW b \in Seq(Nat)
    PROVE  /\ Len(a) \in Nat /\ a \o b \in Seq(Nat) /\ Len(a \o b) = Len(a) + Len(b)
           /\ \A j \in 1..(Len(a) + Len(b)) : (a \o b)[j] = IF j <= Len(a) THEN a[j] ELSE b[j - Len(a)]
OBVIOUS

LEMMA OneMore ==
    ASSUME NEW u \in Seq(Nat), NEW x \in Seq(Nat), NEW w \in Seq(Nat), NEW m \in Nat,
           Len(u) = m, Len(x) = 1, Len(w) = m + 1, \A j \in 1..m : w[j] = u[j], w[m + 1] = x[1]
    PROVE  u \o x = w
<1> DEFINE s == u \o x
<1>1. s \in Seq(Nat) /\ Len(s) = m + 1 /\ \A j \in 1..(m + 1) : s[j] = IF j <= m THEN u[j] ELSE x[j - m]
  <2>1. /\ u \o x \in Seq(Nat) /\ Len(u \o x) = Len(u) + Len(x)
        /\ \A j \in 1..(Len(u) + Len(x)) : (u \o x)[j] = IF j <= Len(u) THEN u[j] ELSE x[j - Len(u)]
    BY Joined, Zenon
  <2>2. Len(u) = m /\ Len(x) = 1
    OBVIOUS
  <2>3. Len(u) + Len(x) = m + 1
    BY <2>2
  <2> HIDE DEF s
  <2>4. s \in Seq(Nat) /\ Len(s) = Len(u) + Len(x)
        /\ \A j \in 1..(Len(u) + Len(x)) : s[j] = IF j <= Len(u) THEN u[j] ELSE x[j - Len(u)]
    BY <2>1 DEF s
  <2> QED
    BY <2>2, <2>3, <2>4, Zenon
<1> HIDE DEF s
<1>2. ASSUME NEW j \in 1..(m + 1) PROVE s[j] = w[j]
  <2>1. CASE j <= m
    BY <1>1, <2>1
  <2>2. CASE j = m + 1
    <3>1. j - m = 1 /\ ~(j <= m)
      BY <2>2
    <3> QED
      BY <1>1, <2>2, <3>1
  <2> QED
    BY <2>1, <2>2
<1>3. s = w
  BY <1>1, <1>2
<1> QED
  BY <1>3 DEF s

\* Chunks of one place each are joined place by place.
LEMMA SinglesJoin ==
    ASSUME NEW r, NEW e \in [1..Count -> Nat], model \in SingleInput,
           \A i \in Chunks : r[i] = <<e[i]>>
    PROVE  FlattenSeq([i \in Chunks |-> r[i]]) = e
<1>1. Chunks = 1..Count /\ Count \in Nat \ {0}
  <2>1. Size = 1 /\ Count \in Nat \ {0}
    BY PerCall, EmbedAssumption
  <2> QED
    BY <2>1 DEF Chunks, Size
<1> DEFINE s == [i \in Chunks |-> r[i]]
           prefix(n) == [v \in 1..n |-> e[v]]
           g == [i \in 1..Count |-> prefix(i)]
<1>2. Len(s) = Count
  BY <1>1
<1>3. \A i \in 1..Count : s[i] = <<e[i]>> /\ e[i] \in Nat
  BY <1>1
<1> HIDE DEF s
<1>8. ASSUME NEW n \in Nat, n <= Count
      PROVE  prefix(n) \in Seq(Nat) /\ Len(prefix(n)) = n /\ \A v \in 1..n : prefix(n)[v] = e[v]
  <2>1. \A v \in 1..n : e[v] \in Nat
    BY <1>1, <1>8
  <2> QED
    BY <1>8, <2>1
<1> HIDE DEF prefix
<1>4. ASSUME NEW i \in 1..Count
      PROVE  prefix(i) = IF i = 1 THEN s[i] ELSE prefix(i - 1) \o s[i]
  <2> DEFINE u == prefix(i - 1)
             w == prefix(i)
             x == s[i]
  <2>1. /\ i - 1 \in Nat /\ u \in Seq(Nat) /\ Len(u) = i - 1 /\ \A j \in 1..(i - 1) : u[j] = e[j]
        /\ w \in Seq(Nat) /\ Len(w) = i /\ \A j \in 1..i : w[j] = e[j]
    <3>1. i \in Nat /\ i - 1 \in Nat /\ i <= Count /\ i - 1 <= Count
      BY <1>1
    <3> QED
      BY <1>8, <3>1
  <2>2. x \in Seq(Nat) /\ Len(x) = 1 /\ x[1] = e[i]
    <3>1. x = <<e[i]>> /\ e[i] \in Nat
      BY <1>3
    <3> QED
      BY <3>1
  <2> HIDE DEF u, w, x
  <2>3. i = 1 => w = x
    BY <2>1, <2>2
  <2>4. u \o x = w
    <3>1. /\ i - 1 \in Nat /\ Len(u) = i - 1 /\ Len(x) = 1 /\ Len(w) = (i - 1) + 1
          /\ (\A j \in 1..(i - 1) : w[j] = u[j]) /\ w[(i - 1) + 1] = x[1]
      BY <2>1, <2>2
    <3> QED
      BY <2>1, <2>2, <3>1, OneMore
  <2>5. w = IF i = 1 THEN x ELSE u \o x
    BY <2>3, <2>4
  <2> QED
    BY <2>5 DEF u, w, x
<1>5. IsFlattened(g, s)
  <2>1. \A i \in 1..Count : i # 1 => i - 1 \in 1..Count
    BY <1>1
  <2>2. g = [i \in 1..Count |-> IF i = 1 THEN s[i] ELSE g[i - 1] \o s[i]]
    BY <1>4, <2>1
  <2> QED
    BY <1>2, <2>2 DEF IsFlattened
<1>6. FlattenSeq(s) = g[Count]
  BY <1>1, <1>2, <1>5, FlattenIs
<1>7. g[Count] = e
  BY <1>1 DEF prefix
<1> QED
  BY <1>6, <1>7 DEF s

\* A lenient model's chunks have the value or nothing in their one place.
LEMMA LenientJoin ==
    ASSUME NEW r, model = "lenient",
           \A i \in Chunks : r[i] = ChunkValues(i) \/ r[i] = <<NoVector>>
    PROVE  LET all == FlattenSeq([i \in Chunks |-> r[i]])
           IN  DOMAIN all = 1..Count /\ \A v \in 1..Count : all[v] \in {v, NoVector}
<1>1. model \in SingleInput /\ Count \in Nat \ {0}
  BY EmbedAssumption DEF SingleInput
<1>2. Size = 1 /\ Chunks = 1..Count
  BY <1>1, PerCall DEF Chunks, Size
<1>3. ASSUME NEW i \in Chunks PROVE ChunkValues(i) = <<i>>
  <2>1. /\ i \in Nat \ {0} /\ EndOf(i - 1) = i - 1 /\ EndOf(i) = EndOf(i - 1) + 1
        /\ ChunkValues(i) = [j \in 1..(EndOf(i) - EndOf(i - 1)) |-> EndOf(i - 1) + j]
    <3>1. /\ i \in Nat \ {0} /\ EndOf(i - 1) = (i - 1) * Size /\ EndOf(i) = EndOf(i - 1) + 1
          /\ ChunkValues(i) = [j \in 1..(EndOf(i) - EndOf(i - 1)) |-> EndOf(i - 1) + j]
      BY <1>1, ChunkBounds
    <3>2. (i - 1) * Size = i - 1
      BY <1>2, <3>1
    <3> QED
      BY <3>1, <3>2
  <2>2. EndOf(i) - EndOf(i - 1) = 1
    BY <2>1
  <2>3. ChunkValues(i) = [j \in 1..1 |-> i - 1 + j]
    BY <2>1, <2>2
  <2> QED
    BY <2>1, <2>3
<1> DEFINE e == [v \in 1..Count |-> IF r[v] = <<v>> THEN v ELSE NoVector]
<1>4. e \in [1..Count -> Nat] /\ \A i \in Chunks : r[i] = <<e[i]>>
  BY <1>2, <1>3 DEF NoVector
<1>5. \A v \in 1..Count : e[v] \in {v, NoVector}
  OBVIOUS
<1> HIDE DEF e
<1>6. FlattenSeq([i \in Chunks |-> r[i]]) = e
  BY <1>1, <1>4, SinglesJoin
<1> QED
  BY <1>4, <1>5, <1>6

-----------------------------------------------------------------------------
\* What the goroutines of EmbedMany keep.
ChunkTypes ==
    /\ model \in Models
    /\ chunk \in [Callers -> {"new", "calling", "token", "posted", "finished"}]
    /\ tpc \in [Callers -> {"idle", "asked", "forced", "fetching", "storing", "has", "failed"}]
    /\ held \in [Callers -> Nat] /\ refused \in [Callers -> Nat]
    /\ forced \in [Callers -> BOOLEAN] /\ second \in [Callers -> BOOLEAN]
    /\ force \in BOOLEAN /\ stored \in Nat /\ issued \in Nat
    /\ DOMAIN result = Callers /\ DOMAIN tries = Callers

\* A chunk that is over has its values, or a result that is seen to be wrong.
Placed == \A i \in Chunks : chunk[i] = "finished" => Complete(i, result[i])

\* With one call at a time the chunks before a chunk that began are over.
Alone == parallel = 1 => \A i, j \in Chunks : chunk[i] # "new" /\ j < i => chunk[j] = "finished"

\* No token is from the future, and Token runs only for a chunk that waits for it.
Dated ==
    /\ stored <= issued
    /\ \A i \in Chunks : /\ held[i] <= issued /\ refused[i] <= issued
                         /\ tpc[i] # "idle" => chunk[i] = "token"

\* The retry after a 401: the flag is up until its own Token takes it, which then
\* fetches; what was fetched is later than what was refused.
Retrying ==
    \A i \in Chunks : second[i] =>
        /\ source = "oauth" /\ chunk[i] \in {"token", "posted"}
        /\ parallel = 1 =>
             /\ tpc[i] = "asked" => force
             /\ tpc[i] = "forced" => forced[i]
             /\ tpc[i] \in {"storing", "has"} \/ chunk[i] = "posted" => held[i] # refused[i]

EmbedInv == ChunkTypes /\ Placed /\ Alone /\ Dated /\ Retrying /\ OrderKept

\* model does not change, nor do the chunks.
LEMMA SameChunks ==
    ASSUME model' = model
    PROVE  Chunks' = Chunks /\ \A i, r : Complete(i, r)' <=> Complete(i, r)
BY DEF Chunks, Complete, ChunkValues, MaxValuesPerCall

LEMMA ModelFixed == Next => model' = model /\ source' = source /\ parallel' = parallel
BY DEF Next, ChunkStep, Enter, Skipped, AskToken, HasToken, TokenRetried, NoToken, Token, embedVars, Replied,
       Unauthorized, Retried, Fails, Combine, CtxEnds, Expires, AppInvalidates, Lapse, tokenVars,
       TokenStep, CachedToken, CachedWrite, OAuthToken, OAuthGet, OAuthStore, Issue, FetchFails

LEMMA EmbedInit == Init => EmbedInv
<1> SUFFICES ASSUME Init PROVE EmbedInv
  OBVIOUS
<1>1. Chunks \subseteq Callers
  BY ChunkBounds
<1>2. stored \in {0, 1} /\ issued = stored
  BY DEF Init, TokenInit
<1>3. ChunkTypes
  <2>1. stored \in Nat /\ issued \in Nat
    BY ONLY <1>2
  <2>2. model \in Models /\ force \in BOOLEAN
    BY DEF Init, TokenInit
  <2>3. /\ chunk = [i \in Callers |-> "new"] /\ tpc = [i \in Callers |-> "idle"]
        /\ held = [i \in Callers |-> 0] /\ refused = [i \in Callers |-> 0]
        /\ forced = [i \in Callers |-> FALSE] /\ second = [i \in Callers |-> FALSE]
        /\ DOMAIN result = Callers /\ DOMAIN tries = Callers
    BY DEF Init, TokenInit
  <2> QED
    BY <2>1, <2>2, <2>3 DEF ChunkTypes
<1>4. \A i \in Chunks : chunk[i] = "new" /\ held[i] = 0 /\ refused[i] = 0 /\ tpc[i] = "idle" /\ ~second[i]
  BY <1>1 DEF Init, TokenInit
<1>5. Placed /\ Alone /\ Retrying
  BY <1>4 DEF Placed, Alone, Retrying
<1>6. Dated
  BY <1>2, <1>4 DEF Dated
<1>7. OrderKept
  BY DEF Init, OrderKept
<1> QED
  BY <1>3, <1>5, <1>6, <1>7 DEF EmbedInv

-----------------------------------------------------------------------------
\* A goroutine that is over leaves what the others rely on.
LEMMA FinishKeeps ==
    ASSUME EmbedInv, NEW i \in Chunks, NEW r, Complete(i, r), Finish(i, r), Turn(i),
           UNCHANGED <<source, stored, force, issued, parallel, model, answer>>
    PROVE  EmbedInv'
<1>1. Chunks' = Chunks /\ \A j \in Chunks : \A q : Complete(j, q)' <=> Complete(j, q)
  BY SameChunks
<1>2. Chunks \subseteq Callers
  BY ChunkBounds
<1>3. ChunkTypes'
  BY DEF EmbedInv, ChunkTypes, Finish, Step, At
<1>4. \A j \in Chunks : IF j = i THEN /\ chunk'[j] = "finished" /\ tpc'[j] = "idle" /\ ~second'[j]
                                      /\ held'[j] = 0 /\ refused'[j] = 0 /\ result'[j] = r
                        ELSE /\ chunk'[j] = chunk[j] /\ tpc'[j] = tpc[j] /\ second'[j] = second[j]
                             /\ held'[j] = held[j] /\ refused'[j] = refused[j]
                             /\ forced'[j] = forced[j] /\ result'[j] = result[j]
  BY <1>2 DEF EmbedInv, ChunkTypes, Finish, Step, At
<1>5. Placed'
  BY <1>1, <1>4 DEF EmbedInv, Placed
<1>6. Alone'
  BY <1>1, <1>4 DEF EmbedInv, Alone, Turn
<1>7. Dated'
  <2>1. issued \in Nat
    BY DEF EmbedInv, ChunkTypes
  <2> QED
    BY <1>1, <1>4, <2>1 DEF EmbedInv, Dated
<1>8. Retrying'
  BY <1>1, <1>4 DEF EmbedInv, Retrying
<1>9. OrderKept'
  BY DEF EmbedInv, OrderKept
<1> QED
  BY <1>3, <1>5, <1>6, <1>7, <1>8, <1>9 DEF EmbedInv

\* A chunk that began has the turn.
LEMMA HasTurn ==
    ASSUME EmbedInv, NEW i \in Chunks, chunk[i] # "new"
    PROVE  Turn(i)
BY DEF EmbedInv, Alone, Turn

\* What only the environment or the context changes.
LEMMA Elsewhere ==
    ASSUME EmbedInv, Next,
           UNCHANGED <<chunk, tpc, held, forced, second, refused, result, tries, issued>>,
           stored' \in {0, stored}, force' \in BOOLEAN, force => force', OrderKept'
    PROVE  EmbedInv'
<1>1. Chunks' = Chunks /\ \A i \in Chunks : \A q : Complete(i, q)' <=> Complete(i, q)
  BY SameChunks, ModelFixed
<1>2. ChunkTypes' /\ Dated'
  BY <1>1, ModelFixed DEF EmbedInv, ChunkTypes, Dated
<1>3. Placed' /\ Alone'
  BY <1>1, ModelFixed DEF EmbedInv, Placed, Alone
<1>4. Retrying'
  BY <1>1, ModelFixed DEF EmbedInv, Retrying
<1> QED
  BY <1>2, <1>3, <1>4 DEF EmbedInv

\* Chunk i moves on; the others, the results and the answer stay as they are.
OnlyMoves(i) ==
    /\ chunk'[i] \in {"calling", "token", "posted"}
    /\ \A j \in Chunks : j # i =>
          /\ chunk'[j] = chunk[j] /\ tpc'[j] = tpc[j] /\ second'[j] = second[j]
          /\ held'[j] = held[j] /\ refused'[j] = refused[j] /\ forced'[j] = forced[j]
    /\ result' = result /\ answer' = answer

LEMMA MovesOn ==
    ASSUME EmbedInv, Next, ChunkTypes', NEW i \in Chunks,
           chunk[i] \in {"calling", "token", "posted"} \/ (chunk[i] = "new" /\ Turn(i)),
           OnlyMoves(i), issued <= issued', stored' <= issued'
    PROVE  /\ Placed' /\ Alone' /\ OrderKept'
           /\ \A j \in Chunks : j # i => held'[j] <= issued' /\ refused'[j] <= issued'
<1>1. Chunks' = Chunks /\ \A j \in Chunks : \A q : Complete(j, q)' <=> Complete(j, q)
  BY SameChunks, ModelFixed
<1>2. Placed'
  BY <1>1 DEF EmbedInv, Placed, OnlyMoves
<1>3. Alone'
  BY <1>1, ModelFixed DEF EmbedInv, Alone, Turn, OnlyMoves
<1>4. OrderKept'
  BY ModelFixed DEF EmbedInv, OrderKept, OnlyMoves
<1>5. ASSUME NEW j \in Chunks, j # i PROVE held'[j] <= issued' /\ refused'[j] <= issued'
  <2>1. held[j] \in Nat /\ refused[j] \in Nat /\ issued \in Nat /\ issued' \in Nat
    BY ChunkBounds DEF EmbedInv, ChunkTypes
  <2> QED
    BY <1>5, <2>1 DEF EmbedInv, Dated, OnlyMoves
<1> QED
  BY <1>2, <1>3, <1>4, <1>5

\* The part of Dated and Retrying that is about one chunk.
One(i) ==
    /\ held[i] <= issued /\ refused[i] <= issued /\ (tpc[i] # "idle" => chunk[i] = "token")
    /\ second[i] =>
        /\ source = "oauth" /\ chunk[i] \in {"token", "posted"}
        /\ parallel = 1 =>
             /\ tpc[i] = "asked" => force
             /\ tpc[i] = "forced" => forced[i]
             /\ tpc[i] \in {"storing", "has"} \/ chunk[i] = "posted" => held[i] # refused[i]

LEMMA EachOne == Dated /\ Retrying <=> stored <= issued /\ \A i \in Chunks : One(i)
BY DEF Dated, Retrying, One

\* A step of chunk i that keeps One(i), and takes the flag down from no other.
LEMMA MovesKeep ==
    ASSUME EmbedInv, Next, ChunkTypes', NEW i \in Chunks,
           chunk[i] \in {"calling", "token", "posted"} \/ (chunk[i] = "new" /\ Turn(i)),
           OnlyMoves(i), issued <= issued', stored' <= issued',
           One(i)', force' \/ force' = force \/ tpc[i] = "asked"
    PROVE  EmbedInv'
<1>1. Chunks' = Chunks
  BY SameChunks, ModelFixed
<1>2. /\ Placed' /\ Alone' /\ OrderKept'
      /\ \A j \in Chunks : j # i => held'[j] <= issued' /\ refused'[j] <= issued'
  BY MovesOn
<1>3. stored <= issued /\ \A j \in Chunks : One(j)
  BY EachOne DEF EmbedInv
<1>4. ASSUME NEW j \in Chunks, j # i PROVE One(j)'
  <2>1. One(j) /\ (tpc[j] # "idle" => chunk[j] = "token")
    BY <1>3 DEF One
  <2>2. parallel = 1 /\ tpc[i] = "asked" => tpc[j] = "idle"
    <3>1. Chunks \subseteq Int
      BY DEF Chunks
    <3>2. i < j \/ j < i
      BY <1>4, <3>1
    <3>3. tpc[i] = "asked" => chunk[i] = "token"
      BY <1>3 DEF One
    <3> QED
      BY <2>1, <3>2, <3>3 DEF EmbedInv, Alone
  <2>3. held'[j] <= issued' /\ refused'[j] <= issued'
    BY <1>2, <1>4
  <2> QED
    BY <1>3, <1>4, <2>1, <2>2, <2>3, ModelFixed DEF One, OnlyMoves
<1>5. Dated' /\ Retrying'
  <2>1. \A j \in Chunks : One(j)'
    BY <1>4
  <2> QED
    BY <1>1, <2>1 DEF Dated, Retrying, One
<1> QED
  BY <1>2, <1>5 DEF EmbedInv

\* Token's own steps, of the goroutine of chunk i.
LEMMA TokenMoves ==
    ASSUME EmbedInv, Next, NEW i \in Chunks, TokenStep(i), UNCHANGED embedVars
    PROVE  EmbedInv'
<1>1. i \in Callers /\ Chunks \subseteq Callers
  BY ChunkBounds
<1>2. /\ stored <= issued /\ One(i)
      /\ chunk' = chunk /\ second' = second /\ refused' = refused /\ result' = result
      /\ answer' = answer /\ source' = source /\ parallel' = parallel
  BY EachOne, ModelFixed DEF EmbedInv, embedVars
<1>3. /\ ChunkTypes /\ model' = model /\ tries' = tries
      /\ held[i] \in Nat /\ refused[i] \in Nat /\ issued \in Nat /\ stored \in Nat
  BY <1>1 DEF EmbedInv, ChunkTypes, embedVars
<1>4. \A j \in Chunks : j # i => tpc'[j] = tpc[j] /\ held'[j] = held[j] /\ forced'[j] = forced[j]
  BY <1>1, <1>3 DEF TokenStep, CachedToken, CachedWrite, OAuthToken, OAuthGet, OAuthStore, Issue,
                    FetchFails, At, ChunkTypes
<1>5. tpc[i] # "idle" /\ chunk[i] = "token"
  <2>1. tpc[i] # "idle"
    BY DEF TokenStep, CachedToken, CachedWrite, OAuthToken, OAuthGet, OAuthStore, Issue, FetchFails
  <2> QED
    BY <1>2, <2>1 DEF One
<1>6. SUFFICES /\ ChunkTypes' /\ One(i)' /\ issued <= issued' /\ stored' <= issued'
               /\ (force' \/ force' = force \/ tpc[i] = "asked")
  <2>1. OnlyMoves(i) /\ chunk[i] \in {"calling", "token", "posted"}
    BY <1>2, <1>4, <1>5 DEF OnlyMoves
  <2> QED
    BY <2>1, MovesKeep
<1>7. CASE CachedToken(i)
  <2>1. ChunkTypes'
    BY <1>1, <1>2, <1>3, <1>7 DEF CachedToken, At, ChunkTypes
  <2>2. One(i)'
    BY <1>1, <1>2, <1>3, <1>5, <1>7 DEF CachedToken, At, ChunkTypes, One
  <2> QED
    BY <1>2, <1>3, <2>1, <2>2, <1>7 DEF CachedToken
<1>8. CASE CachedWrite(i)
  <2>1. ChunkTypes'
    BY <1>1, <1>2, <1>3, <1>8 DEF CachedWrite, At, ChunkTypes
  <2>2. One(i)'
    BY <1>1, <1>2, <1>3, <1>5, <1>8 DEF CachedWrite, At, ChunkTypes, One
  <2> QED
    BY <1>2, <1>3, <2>1, <2>2, <1>8 DEF CachedWrite, One
<1>9. CASE OAuthToken(i)
  <2>1. ChunkTypes'
    BY <1>1, <1>2, <1>3, <1>9 DEF OAuthToken, At, ChunkTypes
  <2>2. One(i)'
    BY <1>1, <1>2, <1>3, <1>5, <1>9 DEF OAuthToken, At, ChunkTypes, One
  <2> QED
    BY <1>2, <1>3, <2>1, <2>2, <1>9 DEF OAuthToken
<1>10. CASE OAuthGet(i)
  <2>1. ChunkTypes'
    BY <1>1, <1>2, <1>3, <1>10 DEF OAuthGet, At, ChunkTypes
  <2>2. One(i)'
    BY <1>1, <1>2, <1>3, <1>5, <1>10 DEF OAuthGet, At, ChunkTypes, One
  <2> QED
    BY <1>2, <1>3, <2>1, <2>2, <1>10 DEF OAuthGet
<1>11. CASE OAuthStore(i)
  <2>1. ChunkTypes'
    BY <1>1, <1>2, <1>3, <1>11 DEF OAuthStore, At, ChunkTypes
  <2>2. One(i)'
    BY <1>1, <1>2, <1>3, <1>5, <1>11 DEF OAuthStore, At, ChunkTypes, One
  <2> QED
    BY <1>2, <1>3, <2>1, <2>2, <1>11 DEF OAuthStore, One
<1>12. CASE Issue(i)
  <2>1. ChunkTypes'
    BY <1>1, <1>2, <1>3, <1>12 DEF Issue, At, ChunkTypes
  <2>2. One(i)'
    <3>1. held'[i] = issued + 1 /\ issued' = issued + 1 /\ tpc'[i] = "storing"
      BY <1>1, <1>3, <1>12 DEF Issue, At, ChunkTypes
    <3> QED
      BY <1>1, <1>2, <1>3, <1>5, <3>1 DEF One
  <2> QED
    BY <1>2, <1>3, <2>1, <2>2, <1>12 DEF Issue
<1>13. CASE FetchFails(i)
  <2>1. ChunkTypes'
    BY <1>1, <1>2, <1>3, <1>13 DEF FetchFails, At, ChunkTypes
  <2>2. One(i)'
    BY <1>1, <1>2, <1>3, <1>5, <1>13 DEF FetchFails, At, ChunkTypes, One
  <2> QED
    BY <1>2, <1>3, <2>1, <2>2, <1>13 DEF FetchFails
<1> QED
  BY <1>7, <1>8, <1>9, <1>10, <1>11, <1>12, <1>13 DEF TokenStep

\* The steps of a chunk's goroutine.
LEMMA ChunkMoves ==
    ASSUME EmbedInv, Next, NEW i \in Chunks, ChunkStep(i)
    PROVE  EmbedInv'
<1>1. i \in Callers /\ Chunks \subseteq Callers
  BY ChunkBounds
<1>2. stored <= issued /\ One(i)
  BY EachOne DEF EmbedInv
<1>3. ChunkTypes /\ held[i] \in Nat /\ refused[i] \in Nat /\ issued \in Nat /\ stored \in Nat
  BY <1>1 DEF EmbedInv, ChunkTypes
<1>4. CASE Enter(i)
  <2>1. ChunkTypes'
    BY <1>1, <1>3, <1>4 DEF Enter, Step, ChunkTypes, tokenVars
  <2>2. \A j \in Chunks : j # i => chunk'[j] = chunk[j]
    BY <1>1, <1>3, <1>4 DEF Enter, Step, ChunkTypes
  <2>3. chunk[i] = "new" /\ Turn(i) /\ chunk'[i] = "calling"
    BY <1>1, <1>3, <1>4 DEF Enter, Step, ChunkTypes
  <2>4. One(i)'
    BY <1>2, <1>4, <2>3 DEF One, Enter, tokenVars
  <2>5. OnlyMoves(i)
    BY <1>1, <1>4, <2>2, <2>3 DEF OnlyMoves, Enter, tokenVars
  <2>6. issued <= issued' /\ stored' <= issued' /\ (force' \/ force' = force \/ tpc[i] = "asked")
    BY <1>2, <1>3, <1>4, <2>3 DEF Enter, tokenVars
  <2> QED
    BY <2>1, <2>3, <2>4, <2>5, <2>6, MovesKeep
<1>5. CASE Skipped(i)
  <2>1. Complete(i, Failed)
    BY DEF Complete
  <2> QED
    BY <1>5, <2>1, FinishKeeps DEF Skipped
<1>6. CASE AskToken(i)
  <2>1. ChunkTypes'
    BY <1>1, <1>3, <1>6 DEF AskToken, Step, At, ChunkTypes
  <2>2. \A j \in Chunks : j # i => chunk'[j] = chunk[j] /\ tpc'[j] = tpc[j]
    BY <1>1, <1>3, <1>6 DEF AskToken, Step, At, ChunkTypes
  <2>3. /\ chunk[i] = "calling" /\ tpc[i] = "idle" /\ ~second[i]
        /\ chunk'[i] \in {"token", "posted"} /\ (chunk'[i] = "posted" => tpc'[i] = tpc[i])
    BY <1>1, <1>2, <1>3, <1>6 DEF AskToken, Step, At, ChunkTypes, One
  <2>4. One(i)'
    BY <1>2, <1>6, <2>3 DEF One, AskToken
  <2>5. OnlyMoves(i)
    BY <1>1, <1>6, <2>2, <2>3 DEF OnlyMoves, AskToken
  <2>6. issued <= issued' /\ stored' <= issued' /\ (force' \/ force' = force \/ tpc[i] = "asked")
    BY <1>2, <1>3, <1>6, <2>3 DEF AskToken
  <2> QED
    BY <2>1, <2>3, <2>4, <2>5, <2>6, MovesKeep
<1>7. CASE HasToken(i)
  <2>1. ChunkTypes'
    BY <1>1, <1>3, <1>7 DEF HasToken, Step, At, ChunkTypes
  <2>2. \A j \in Chunks : j # i => chunk'[j] = chunk[j] /\ tpc'[j] = tpc[j]
    BY <1>1, <1>3, <1>7 DEF HasToken, Step, At, ChunkTypes
  <2>3. chunk[i] = "token" /\ tpc[i] = "has" /\ chunk'[i] = "posted" /\ tpc'[i] = "idle"
    BY <1>1, <1>3, <1>7 DEF HasToken, Step, At, ChunkTypes
  <2>4. One(i)'
    BY <1>2, <1>7, <2>3 DEF One, HasToken
  <2>5. OnlyMoves(i)
    BY <1>1, <1>7, <2>2, <2>3 DEF OnlyMoves, HasToken
  <2>6. issued <= issued' /\ stored' <= issued' /\ (force' \/ force' = force \/ tpc[i] = "asked")
    BY <1>2, <1>3, <1>7, <2>3 DEF HasToken
  <2> QED
    BY <2>1, <2>3, <2>4, <2>5, <2>6, MovesKeep
<1>15. CASE TokenRetried(i)
  <2>1. ChunkTypes'
    BY <1>1, <1>3, <1>15 DEF TokenRetried, Step, At, ChunkTypes
  <2>2. \A j \in Chunks : j # i => /\ chunk'[j] = chunk[j] /\ second'[j] = second[j]
                                   /\ refused'[j] = refused[j] /\ tpc'[j] = tpc[j]
    BY <1>1, <1>3, <1>15 DEF TokenRetried, Step, At, ChunkTypes
  <2>3. /\ chunk[i] = "token" /\ tpc[i] = "failed" /\ chunk'[i] = "calling" /\ tpc'[i] = "idle"
        /\ ~second'[i] /\ refused'[i] = 0
    BY <1>1, <1>3, <1>15 DEF TokenRetried, Step, At, ChunkTypes
  <2>4. One(i)'
    BY <1>2, <1>3, <1>15, <2>3 DEF One, TokenRetried
  <2>5. OnlyMoves(i)
    BY <1>1, <1>15, <2>2, <2>3 DEF OnlyMoves, TokenRetried
  <2>6. issued <= issued' /\ stored' <= issued' /\ (force' \/ force' = force \/ tpc[i] = "asked")
    BY <1>2, <1>3, <1>15, <2>3 DEF TokenRetried
  <2> QED
    BY <2>1, <2>3, <2>4, <2>5, <2>6, MovesKeep
<1>8. CASE NoToken(i)
  <2>1. Complete(i, Failed) /\ Turn(i)
    BY <1>8, HasTurn DEF Complete, NoToken
  <2> QED
    BY <1>8, <2>1, FinishKeeps DEF NoToken
<1>9. CASE Token(i)
  BY <1>9, TokenMoves DEF Token
<1>10. CASE Replied(i)
  <2>1. PICK rows \in Replies(i) : Finish(i, DoEmbed(rows))
    BY <1>10 DEF Replied
  <2>2. Complete(i, DoEmbed(rows)) /\ Turn(i)
    BY <1>3, <1>10, ReplyPlaced, HasTurn DEF Replied, ChunkTypes
  <2> QED
    BY <1>10, <2>1, <2>2, FinishKeeps DEF Replied
<1>11. CASE Unauthorized(i) /\ source = "oauth" /\ ~second[i]
  <2>1. ChunkTypes'
    BY <1>1, <1>3, <1>11 DEF Unauthorized, Invalidate, Step, At, ChunkTypes
  <2>2. \A j \in Chunks : j # i => /\ chunk'[j] = chunk[j] /\ tpc'[j] = tpc[j]
                                   /\ second'[j] = second[j] /\ refused'[j] = refused[j]
    BY <1>1, <1>3, <1>11 DEF Unauthorized, Step, At, ChunkTypes
  <2>3. /\ chunk[i] = "posted" /\ chunk'[i] = "token" /\ tpc'[i] = "asked"
        /\ second'[i] /\ refused'[i] = held[i] /\ force' /\ stored' = stored
    BY <1>1, <1>3, <1>11 DEF Unauthorized, Invalidate, Step, At, ChunkTypes
  <2>4. One(i)'
    BY <1>2, <1>11, <2>3 DEF One, Unauthorized
  <2>5. OnlyMoves(i)
    BY <1>1, <1>11, <2>2, <2>3 DEF OnlyMoves, Unauthorized
  <2>6. issued <= issued' /\ stored' <= issued' /\ (force' \/ force' = force \/ tpc[i] = "asked")
    BY <1>2, <1>3, <1>11, <2>3 DEF Unauthorized
  <2> QED
    BY <2>1, <2>3, <2>4, <2>5, <2>6, MovesKeep
<1>12. CASE Unauthorized(i) /\ ~(source = "oauth" /\ ~second[i])
  <2>1. Complete(i, Failed) /\ Turn(i)
    BY <1>12, HasTurn DEF Complete, Unauthorized
  <2> QED
    BY <1>12, <2>1, FinishKeeps DEF Unauthorized
<1>13. CASE Retried(i)
  <2>1. ChunkTypes'
    BY <1>1, <1>3, <1>13 DEF Retried, Step, ChunkTypes, tokenVars
  <2>2. \A j \in Chunks : j # i => /\ chunk'[j] = chunk[j] /\ second'[j] = second[j]
                                   /\ refused'[j] = refused[j]
    BY <1>1, <1>3, <1>13 DEF Retried, Step, ChunkTypes
  <2>3. chunk[i] = "posted" /\ chunk'[i] = "calling" /\ ~second'[i] /\ refused'[i] = 0
    BY <1>1, <1>3, <1>13 DEF Retried, Step, ChunkTypes
  <2>4. One(i)'
    BY <1>2, <1>3, <1>13, <2>3 DEF One, Retried, tokenVars
  <2>5. OnlyMoves(i)
    BY <1>1, <1>13, <2>2, <2>3 DEF OnlyMoves, Retried, tokenVars
  <2>6. issued <= issued' /\ stored' <= issued' /\ (force' \/ force' = force \/ tpc[i] = "asked")
    BY <1>2, <1>3, <1>13, <2>3 DEF Retried, tokenVars
  <2> QED
    BY <2>1, <2>3, <2>4, <2>5, <2>6, MovesKeep
<1>14. CASE Fails(i)
  <2>1. Complete(i, Failed) /\ Turn(i)
    BY <1>14, HasTurn DEF Complete, Fails
  <2> QED
    BY <1>14, <2>1, FinishKeeps DEF Fails
<1> QED
  BY <1>4, <1>5, <1>6, <1>7, <1>8, <1>9, <1>10, <1>11, <1>12, <1>13, <1>14, <1>15 DEF ChunkStep

LEMMA EmbedInvariance == Spec => []EmbedInv
<1>1. EmbedInv /\ [Next]_vars => EmbedInv'
  <2>1. SUFFICES ASSUME EmbedInv, [Next]_vars PROVE EmbedInv'
    OBVIOUS
  <2>2. CASE \E i \in Chunks : ChunkStep(i)
    BY <2>1, <2>2, ChunkMoves DEF Next
  <2>3. CASE Combine
    <3>1. OrderKept'
      <4>1. CASE \E i \in Chunks : result[i] = Failed \/ Len(result[i]) # Len(ChunkValues(i))
        BY <2>3, <4>1 DEF Combine, OrderKept
      <4>2. CASE ~\E i \in Chunks : result[i] = Failed \/ Len(result[i]) # Len(ChunkValues(i))
        <5>1. answer' = FlattenSeq([i \in Chunks |-> result[i]]) /\ model' = model
          BY <2>3, <4>2 DEF Combine
        <5>2. \A i \in Chunks : \/ result[i] = ChunkValues(i)
                                \/ model = "lenient" /\ result[i] = <<NoVector>>
          BY <2>1, <2>3, <4>2 DEF Combine, EmbedInv, Placed, Complete
        <5>3. CASE model = "lenient"
          BY <5>1, <5>2, <5>3, LenientJoin DEF OrderKept
        <5>4. CASE model # "lenient"
          BY <5>1, <5>2, <5>4, WholeChunksJoin DEF OrderKept
        <5> QED
          BY <5>3, <5>4
      <4> QED
        BY <4>1, <4>2
    <3> QED
      BY <2>1, <2>3, <3>1, Elsewhere DEF Next, Combine, tokenVars, EmbedInv, ChunkTypes
  <2>4. CASE CtxEnds
    BY <2>1, <2>4, Elsewhere DEF Next, CtxEnds, tokenVars, EmbedInv, ChunkTypes, OrderKept
  <2>5. CASE Expires
    BY <2>1, <2>5, Elsewhere DEF Next, Expires, Lapse, embedVars, EmbedInv, ChunkTypes, OrderKept
  <2>6. CASE AppInvalidates
    BY <2>1, <2>6, Elsewhere
       DEF Next, AppInvalidates, Invalidate, embedVars, EmbedInv, ChunkTypes, OrderKept
  <2>7. CASE UNCHANGED vars
    BY <2>1, <2>7, SameChunks
       DEF vars, EmbedInv, ChunkTypes, Placed, Alone, Dated, Retrying, OrderKept
  <2> QED
    BY <2>1, <2>2, <2>3, <2>4, <2>5, <2>6, <2>7 DEF Next
<1> QED
  BY EmbedInit, <1>1, PTL DEF Spec

-----------------------------------------------------------------------------
\* What EmbedMany returns without an error has one place for each value, in order,
\* with its own embedding in it, or none behind a model that takes none for an answer.
THEOREM EmbeddedInOrder == Spec => []OrderKept
<1>1. EmbedInv => OrderKept
  BY DEF EmbedInv
<1> QED
  BY EmbedInvariance, <1>1, PTL

\* With one call at a time, the retry after a 401 carries another token.
THEOREM RetriedWithAnother == Spec => []RetryIsFresh
<1>1. EmbedInv => RetryIsFresh
  BY DEF EmbedInv, Retrying, RetryIsFresh
<1> QED
  BY EmbedInvariance, <1>1, PTL

\* A cached token that is usable is not replaced by what another caller fetched.
THEOREM CacheNotOverwritten == Spec => FresherKept
<1>1. [Next]_vars => [source = "cached" /\ Usable(stored) => stored' \in {stored, 0}]_tokenVars
  BY DEF Next, ChunkStep, Enter, Skipped, AskToken, HasToken, TokenRetried, NoToken, Token, embedVars, Replied,
         Unauthorized, Retried, Fails, Combine, CtxEnds, Expires, AppInvalidates, Invalidate, Lapse,
         tokenVars, TokenStep, CachedToken, CachedWrite, OAuthToken, OAuthGet, OAuthStore, Issue,
         FetchFails, vars
<1> QED
  BY <1>1, PTL DEF Spec, FresherKept
=============================================================================
