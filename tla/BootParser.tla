----------------------------- MODULE BootParser -----------------------------
(***************************************************************************)
(* linuxboot.cfg: ParseConfig (lib/misc/BootParser.c) as it goes through   *)
(* the lines, and what such a file says, read section by section.          *)
(*                                                                         *)
(* A line is its keyword and its value; titles and command lines are       *)
(* sequences of letters, because a default title is compared as a prefix   *)
(* and a command line is copied over an earlier one.  "initrd no..." has   *)
(* the keyword "initrd-no", which is skipped like an unknown one.  A       *)
(* keyword without a value is not modelled: see ConfigFile.                *)
(***************************************************************************)
EXTENDS Integers, SequencesExt

\* The lines of a file: what is compared or copied letter by letter is a
\* sequence, and a title has a letter.
ConfigFile(lines) ==
  /\ lines \in Seq({lines[i] : i \in DOMAIN lines})
  /\ \A i \in DOMAIN lines : lines[i].key \in {"title", "append"} => lines[i].val \in Seq(Nat)
  /\ \A i \in DOMAIN lines : lines[i].key = "title" => lines[i].val # <<>>

NoFile == "none"     \* an empty szKernel or szInitrd

\* CONFIGENTRY after its memset.
NewEntry == [title |-> <<>>, kernel |-> NoFile, initrd |-> NoFile, append |-> <<>>]

\* strncpy(szAppend, paramdata, strlen(paramdata)): no terminator is copied,
\* so the end of a longer, earlier value stays.
CopyOver(old, new) == new \o SubSeq(old, Len(new) + 1, Len(old))

\* Plausible bug: every title starts a new entry, the first one too.
BugHandleTitle(es, t) == Append(es, [NewEntry EXCEPT !.title = t])

\* A title goes to the current entry, or starts the next when it has one.
HandleTitle(es, t) ==
  IF Last(es).title = <<>>
  THEN [es EXCEPT ![Len(es)].title = t]
  ELSE Append(es, [NewEntry EXCEPT !.title = t])

\* One turn of the loop: es are the entries so far, the last is the current one.
HandleConfigLine(es, l) ==
  LET n == Len(es) IN
  IF      l.key = "title"                      THEN HandleTitle(es, l.val)
  ELSE IF l.key = "kernel"                     THEN [es EXCEPT ![n].kernel = l.val]
  ELSE IF l.key = "initrd"                     THEN [es EXCEPT ![n].initrd = l.val]
  ELSE IF l.key = "append" THEN [es EXCEPT ![n].append = CopyOver(@, l.val)]
  ELSE es

\* The entries after the last line; es[n] are those after the n-th.
Entries(lines) ==
  LET es[n \in 0 .. Len(lines)] ==
        IF n = 0 THEN <<NewEntry>> ELSE HandleConfigLine(es[n - 1], lines[n])
  IN es[Len(lines)]

\* The last default line, and the first entry whose title begins with it: 0 for
\* none.
Positions(lines, key) == {i \in 1 .. Len(lines) : lines[i].key = key}

DefaultIn(lines, titles) ==
  LET d    == Positions(lines, "default")
      Fits == {i \in DOMAIN titles : IsPrefix(lines[Max(d)].val, titles[i])}
  IN IF d = {} \/ Fits = {} THEN 0 ELSE Min(Fits)

\* ParseConfig: the entries and the one marked isDefault.
ParseConfig(lines) ==
  LET es == Entries(lines)
  IN [entries   |-> es,
      isDefault |-> DefaultIn(lines, [i \in DOMAIN es |-> es[i].title])]

-----------------------------------------------------------------------------
(* What a file says, without going through it line by line. *)

\* Section k runs from the k-th title up to the next; what stands before the
\* first title belongs to the first section.
SectionCount(lines) == IF Positions(lines, "title") = {} THEN 1
                       ELSE Cardinality(Positions(lines, "title"))

TitlesUpTo(lines, i) == Cardinality({j \in Positions(lines, "title") : j <= i})

Section(lines, k) ==
  {i \in 1 .. Len(lines) : TitlesUpTo(lines, i) = k \/ (k = 1 /\ TitlesUpTo(lines, i) = 0)}

\* The value of the last line with the keyword in a section, or other.
Says(lines, k, key, other) ==
  LET at == {i \in Section(lines, k) : lines[i].key = key}
  IN IF at = {} THEN other ELSE lines[Max(at)].val

SectionDefault(lines) ==
  LET d    == DefaultIn(lines, [k \in 1 .. SectionCount(lines) |-> Says(lines, k, "title", <<>>)])
  IN IF d = 0 THEN 1 ELSE d

\* Is there at most one command line in the section?
OneAppend(lines, k) == Cardinality({i \in Section(lines, k) : lines[i].key = "append"}) <= 1
=============================================================================
