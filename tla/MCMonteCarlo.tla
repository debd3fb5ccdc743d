---------------------------- MODULE MCMonteCarlo ----------------------------
(* Model-checking instance of MonteCarlo over the two seeds whose first      *)
(* outputs rng.rs and compare/models/test_feed.py record.                    *)
EXTENDS MonteCarlo, SplitMix64

Zero == Word(<<0, 0, 0, 0, 0, 0, 0, 0>>)
FortyTwo == Word(<<0, 0, 0, 0, 0, 0, 0, 42>>)
Half == Word(<<0, \h10, 0, 0, 0, 0, 0, 0>>)

MCSeed == U64
MCSeeds == <<FortyTwo, Zero, FortyTwo>>
MCScript ==
  <<Draw("next_u64", 0), Draw("fill_bytes", 12), Draw("next_u32", 0), Draw("uniform01", 0),
    Draw("reseed", FortyTwo), Draw("normal", 0), Draw("bernoulli", Half),
    Draw("rng_range_int", <<1, 6>>), Draw("fill_bytes", 16)>>

MCCall == {d \in ToSet(MCScript) : d.op \in Ops}

Table == (Zero :> <<
    Word(<<\hE2, \h20, \hA8, \h39, \h7B, \h1D, \hCD, \hAF>>),
    Word(<<\h6E, \h78, \h9E, \h6A, \hA1, \hB9, \h65, \hF4>>),
    Word(<<\h06, \hC4, \h5D, \h18, \h80, \h09, \h45, \h4F>>),
    Word(<<\hF8, \h8B, \hB8, \hA8, \h72, \h4C, \h81, \hEC>>),
    Word(<<\h1B, \h39, \h89, \h6A, \h51, \hA8, \h74, \h9B>>),
    Word(<<\h53, \hCB, \h9F, \h0C, \h74, \h7E, \hA2, \hEA>>)>>)
  @@ (FortyTwo :> <<
    Word(<<\hBD, \hD7, \h32, \h26, \h2F, \hEB, \h6E, \h95>>),
    Word(<<\h28, \hEF, \hE3, \h33, \hB2, \h66, \hF1, \h03>>),
    Word(<<\h47, \h52, \h67, \h57, \h13, \h0F, \h9F, \h52>>),
    Word(<<\h58, \h1C, \hE1, \hFF, \h0E, \h4A, \hE3, \h94>>),
    Word(<<\h09, \hBC, \h58, \h5A, \h24, \h48, \h23, \hF2>>),
    Word(<<\hDE, \h44, \h31, \hFA, \h3C, \h80, \hDB, \h06>>)>>)

\* The word that 53 bits were taken from, without the eleven that were lost.
Restored(top, low) == WrappingAdd(WrappingMul(top, Word(<<0, 0, 0, 0, 0, 0, 8, 0>>)), low)
Low11(w) == <<w[1], w[2] % 8, 0, 0, 0, 0, 0, 0>>

\* The words of the table that the k-th call of a closure started on `seed`
\* consumes: those after the words of the calls since the last reseed.
WordsAt(seed, k) ==
  LET reseeds == {j \in 1..(k - 1) : Script[j].op = "reseed"}
      start == Max(reseeds \cup {0})
      used == MapThenSumSet(LAMBDA j : WordsOf(Script[j]), (start + 1)..(k - 1))
      table == Table[IF start = 0 THEN seed ELSE Script[start].arg]
  IN  SubSeq(table, used + 1, used + WordsOf(Script[k]))

Agrees(d, out, w) ==
  CASE d.op = "next_u64" -> out = w[1]
    [] d.op = "next_u32" -> out = [i \in 1..4 |-> w[1][i + 4]]
    [] d.op = "fill_bytes" -> /\ Len(out) = d.arg
                              /\ \A i \in 0..(d.arg - 1) :
                                   out[i + 1] = w[1 + (i \div 8)][1 + (i % 8)]
    [] d.op = "bernoulli" -> out <=> w[1][8] < 128
    [] d.op = "rng_range_int" -> out = 1 + ((6 * (256 * w[1][8] + w[1][7])) \div 65536)
    [] d.op = "reseed" -> TRUE
    [] OTHER -> \A i \in DOMAIN w : out[i][8] = 0 /\ Restored(out[i], Low11(w[i])) = w[i]

\* Whatever the threads do to one another, what each closure has drawn is what
\* the known-answer table of the tests says for its seed: the arithmetic is
\* right, every call consumes the words it should, and nothing is shared.
StreamsMatchTable ==
  \A i \in Replication : \A k \in DOMAIN drawn[i] :
    Agrees(Script[k], drawn[i][k], WordsAt(Seeds[i], k))

=============================================================================
