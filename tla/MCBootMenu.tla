----------------------------- MODULE MCBootMenu -----------------------------
(***************************************************************************)
(* Files of up to two sections with lines in front of the first title,     *)
(* repeated keywords and defaults that fit one title, both or none; drives *)
(* in every order; windows of two entries.                                 *)
(***************************************************************************)
EXTENDS BootMenu

Line(k, v) == [key |-> k, val |-> v]

MCTitles   == {<<Line("title", <<1>>)>>, <<Line("title", <<1, 2>>)>>}
MCBodies   == {<<Line("kernel", "k1")>>,
               <<Line("kernel", "k1"), Line("initrd", "r1"), Line("append", <<1, 1>>)>>,
               <<Line("kernel", "k2"), Line("initrd-no", "no")>>,
               <<Line("append", <<1, 1>>), Line("kernel", "k1"), Line("kernel", "k2"),
                 Line("append", <<2>>), Line("initrd", "r2")>>}
MCDefaults == {<<>>, <<Line("default", <<1, 2>>)>>,
               <<Line("default", <<1>>), Line("default", <<3>>)>>}

MCFiles == {d1 \o t1 \o b1 \o t2 \o b2 \o d2 :
              t1 \in MCTitles, t2 \in MCTitles \cup {<<>>},
              b1, b2 \in MCBodies, d1 \in MCDefaults, d2 \in {<<>>, <<Line("default", <<1, 2>>)>>}}

\* A file in which everything matters, on media with and without its files.
Sample == <<Line("default", <<1, 2>>), Line("title", <<1>>), Line("kernel", "k1"), Line("initrd", "r1"),
            Line("title", <<1, 2>>), Line("kernel", "k2"), Line("initrd", "r1"),
            Line("title", <<1, 2, 3>>), Line("kernel", "k1")>>

Full   == {"k1", "k2", "r1", "r2"}
Hdd(mbr, fatx, parts) == [kind |-> "hdd", mbr |-> mbr, fatx |-> fatx, parts |-> parts]
Atapi  == [kind |-> "atapi"]
Absent == [kind |-> "none"]
S(files) == Medium(Sample, files)

MCConsoles ==
  {<<Hdd(TRUE, <<>>, <<Medium(f, Full)>>), Absent>> : f \in MCFiles}
  \cup {<<Hdd(TRUE, <<S(Full)>>, <<>>), Atapi>>,
        <<Hdd(TRUE, <<S({"k1"})>>, <<S(Full), S({"k2"})>>), Atapi>>,
        <<Hdd(FALSE, <<>>, <<>>), Hdd(TRUE, <<>>, <<S(Full)>>)>>,
        <<Atapi, Hdd(TRUE, <<>>, <<S(Full)>>)>>,
        <<Hdd(FALSE, <<>>, <<>>), Atapi>>}

MCDiscs == {NoDisc, S(Full), S({"k1"})}

MCMedia ==
  MCDiscs \cup UNION {Range(d.fatx) \cup Range(d.parts) :
                      d \in {x \in UNION {Range(c) : c \in MCConsoles} : x.kind = "hdd"}}
=============================================================================
