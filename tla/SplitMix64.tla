------------------------------ MODULE SplitMix64 ------------------------------
(***************************************************************************)
(* src/src/rng.rs: the portable feed SplitMix64 and the closed-form        *)
(* sampling transforms, as pure operators on the state of the feed.  A u64 *)
(* is its eight bytes, least significant first (to_le_bytes), so products  *)
(* and carries stay within TLC's integers and wrap modulo 2^64 as in Rust. *)
(* src/compare/models/_feed.py is the same arithmetic, masked to 64 bits.  *)
(***************************************************************************)
EXTENDS Integers, Sequences, SequencesExt, FiniteSetsExt, Bitwise

Byte == 0..255
U64 == [1..8 -> Byte]

\* The u64 written with its most significant byte first, as in the source.
Word(bytes) == Reverse(bytes)

\* The u64 with these bytes.
Bytes(byte(_)) ==
  <<byte(1), byte(2), byte(3), byte(4), byte(5), byte(6), byte(7), byte(8)>>

\* Columns of any size carried over into bytes; what leaves the last is lost.
Carried(column(_)) ==
  LET carry[i \in 0..8] == IF i = 0 THEN 0 ELSE (column(i) + carry[i - 1]) \div 256
  IN  Bytes(LAMBDA i : (column(i) + carry[i - 1]) % 256)

WrappingAdd(a, b) == Carried(LAMBDA i : a[i] + b[i])

WrappingMul(a, b) ==
  Carried(LAMBDA i : MapThenSumSet(LAMBDA j : a[j] * b[i + 1 - j], 1..i))

Shr(a, n) ==
  LET byte(i) == IF i <= 8 THEN a[i] ELSE 0
      from(i) == i + n \div 8
  IN  Bytes(LAMBDA i : ((byte(from(i)) + 256 * byte(from(i) + 1)) \div 2^(n % 8)) % 256)

BitXor(a, b) == Bytes(LAMBDA i : a[i] ^^ b[i])

\* a < b
Less(a, b) == \E i \in 1..8 : a[i] < b[i] /\ \A j \in (i + 1)..8 : a[j] = b[j]

-----------------------------------------------------------------------------
Golden == Word(<<\h9E, \h37, \h79, \hB9, \h7F, \h4A, \h7C, \h15>>)
Mix1 == Word(<<\hBF, \h58, \h47, \h6D, \h1C, \hE4, \hE5, \hB9>>)
Mix2 == Word(<<\h94, \hD0, \h49, \hBB, \h13, \h31, \h11, \hEB>>)

XorShift(n) == [z \in U64 |-> BitXor(z, Shr(z, n))]
Times(m) == [z \in U64 |-> WrappingMul(z, m)]

\* The output of a state that was just advanced.
Output(state) ==
  XorShift(31)[Times(Mix2)[XorShift(27)[Times(Mix1)[XorShift(30)[state]]]]]

Advanced == [state \in U64 |-> WrappingAdd(state, Golden)]

States(state, n) == LET at[k \in 0..n] == IF k = 0 THEN state ELSE Advanced[at[k - 1]] IN at

\* n calls of next: the outputs, and the feed they leave behind.
Outputs(state, n) == LET at == States(state, n) IN [k \in 1..n |-> Output(at[k])]
After(state, n) == States(state, n)[n]

HighHalf(w) == SubSeq(w, 5, 8)

\* fill_bytes: full chunks of eight, and one whole word for a remainder.
WordsFor(n) == n \div 8 + IF n % 8 = 0 THEN 0 ELSE 1

\* uniform01 times 2^53, exactly: the top 53 bits.
Top53(w) == Shr(w, 11)

\* sim.rng_range_int(a, b): a + floor(uniform * span), for spans below 2^11,
\* without the rounding of the product to a double.
RangeInt(w, a, b) ==
  LET span == b - a + 1
      scale == Word(<<0, 0, 0, 0, 0, 0, span \div 256, span % 256>>)
      quotient == Shr(WrappingMul(Top53(w), scale), 53)
  IN  a + quotient[1] + 256 * quotient[2]

\* The other draws of the Python binding are a uniform and an exponential.
ClosedForms ==
  {"uniform01", "exponential", "normal", "rng_random", "rng_uniform", "rng_exponential"}
Ops ==
  ClosedForms
    \cup {"next_u64", "next_u32", "fill_bytes", "bernoulli", "rng_range_int", "reseed"}

\* A call with its argument.
Draw(op, arg) == [op |-> op, arg |-> arg]

WordsOf(d) ==
  CASE d.op = "fill_bytes" -> WordsFor(d.arg)
    [] d.op = "normal" -> 2
    [] d.op = "reseed" -> 0
    [] OTHER -> 1

\* What the call returns.  The closed forms are real functions of the uniforms
\* they consume, which stand for them; bernoulli compares with p times 2^53.
Result(state, d) ==
  LET w == Outputs(state, WordsOf(d))
  IN  CASE d.op = "next_u64" -> w[1]
        [] d.op = "next_u32" -> HighHalf(w[1])
        [] d.op = "fill_bytes" -> SubSeq(FlattenSeq(w), 1, d.arg)
        [] d.op = "bernoulli" -> Less(Top53(w[1]), d.arg)
        [] d.op = "rng_range_int" -> RangeInt(w[1], d.arg[1], d.arg[2])
        [] d.op \in ClosedForms -> [i \in DOMAIN w |-> Top53(w[i])]
        [] d.op = "reseed" -> <<>>

\* The feed the call leaves behind; new, set_seed and reseed store the seed.
Feed(state, d) == IF d.op = "reseed" THEN d.arg ELSE After(state, WordsOf(d))

=============================================================================
