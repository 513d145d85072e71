--------------------------- MODULE PartitionLayout ---------------------------
(***************************************************************************)
(* boat-ab-layout.py: the boat's NVMe layout derived from NVIDIA's A/B     *)
(* template at build time.  GRUB, the initramfs and RAUC address the slots *)
(* by GPT entry number, and a partition without an id is numbered by its   *)
(* place, so one partition more or less in a BSP update moves all those    *)
(* after it.  The script takes a template or refuses it; the XML around    *)
(* the partitions is left out.                                             *)
(***************************************************************************)
EXTENDS Naturals, Sequences, FiniteSetsExt

CONSTANT Jobs    \* [src |-> template, want |-> partition name -> GPT number]

VARIABLES job, dst, said

vars == <<job, dst, said>>

(***************************************************************************)
(* A partition: its name, whether it is one of the partition tables, its   *)
(* id (0: none), the file the flash writes into it ("": none) and whether  *)
(* it has the 0x800 bit, fill to the end of the disk.                      *)
(***************************************************************************)
Part(name, id, file) ==
  [name |-> name, table |-> FALSE, id |-> id, file |-> file, fill |-> FALSE]
Table(name) == [Part(name, 0, "") EXCEPT !.table = TRUE]

Names(parts) == {parts[i].name : i \in DOMAIN parts}

\* The partitions that get a GPT entry: all but the tables themselves.
Entries(parts) == SelectSeq(parts, LAMBDA p : ~p.table)

\* gpt_numbers: an entry without an id gets the one before it, plus one.
GptNumbers(parts) ==
  LET e == Entries(parts)
      num[i \in DOMAIN e] == IF e[i].id # 0 THEN e[i].id
                             ELSE IF i = 1 THEN 1 ELSE num[i - 1] + 1
  IN  num

\* No number twice, else it dies.
NumbersDiffer(parts) ==
  LET num == GptNumbers(parts)
  IN  \A i, j \in DOMAIN num : num[i] = num[j] => i = j

\* SWAP without an id of its own.
NewParts_NoId(want) ==
  <<Part("SWAP", 0, ""), [Part("DATA", want["DATA"], "DATAFILE") EXCEPT !.fill = TRUE]>>

\* SWAP and DATA, with the ids NUMBERS has for them.
NewParts(want) ==
  <<Part("SWAP", want["SWAP"], ""),
    [Part("DATA", want["DATA"], "DATAFILE") EXCEPT !.fill = TRUE]>>

\* The inactive slot keeps the file the template writes into it.
Derived_Written(src, want) ==
  SubSeq(src, 1, Len(src) - 1) \o NewParts(want) \o <<src[Len(src)]>>

\* APP_b is created but not written; SWAP and DATA go before the last
\* partition of the template.
Derived(src, want) ==
  LET n == Len(src)
      kept == [i \in 1..n |-> IF src[i].name = "APP_b"
                                THEN [src[i] EXCEPT !.file = ""] ELSE src[i]]
  IN  SubSeq(kept, 1, n - 1) \o NewParts(want) \o <<kept[n]>>

\* The number an entry of that name has, 0 when there is none.
NumberOf(parts, name) ==
  LET e == Entries(parts)
  IN  IF name \in Names(e)
        THEN GptNumbers(parts)[CHOOSE i \in DOMAIN e : e[i].name = name] ELSE 0

(***************************************************************************)
(* What main checks, in its order, and what it says when it dies there.    *)
(***************************************************************************)
Checks(src, want) ==
  LET taken == {GptNumbers(src)[i] : i \in DOMAIN Entries(src)}
  IN  << [why |-> "NUMBERS has no entry",
          holds |-> {"APP", "APP_b", "esp", "SWAP", "DATA"} \subseteq DOMAIN want],
         [why |-> "no such partition",
          holds |-> {"APP", "APP_b", "esp"} \subseteq Names(src)],
         [why |-> "already has one", holds |-> {"SWAP", "DATA"} \cap Names(src) = {}],
         [why |-> "secondary GPT not last", holds |-> src[Len(src)].name = "secondary_gpt"],
         [why |-> "already fills to end", holds |-> \A i \in DOMAIN src : ~src[i].fill],
         [why |-> "used twice", holds |-> NumbersDiffer(src)],
         [why |-> "already taken", holds |-> {want["SWAP"], want["DATA"]} \cap taken = {}],
         [why |-> "used twice", holds |-> NumbersDiffer(Derived(src, want))],
         [why |-> "would be another entry",
          holds |-> \A name \in DOMAIN want :
                      NumberOf(Derived(src, want), name) = want[name]] >>

Failing(src, want) == {i \in 1..9 : ~Checks(src, want)[i].holds}

-----------------------------------------------------------------------------
Init == job \in Jobs /\ dst = <<>> /\ said = "nothing"

\* main dies at the first check that does not hold; nothing is written.
Refuse ==
  /\ said = "nothing" /\ Failing(job.src, job.want) # {}
  /\ said' = Checks(job.src, job.want)[Min(Failing(job.src, job.want))].why
  /\ UNCHANGED <<job, dst>>

Write ==
  /\ said = "nothing" /\ Failing(job.src, job.want) = {}
  /\ dst' = Derived(job.src, job.want)
  /\ said' = "written"
  /\ UNCHANGED job

Next == Refuse \/ Write

Spec == Init /\ [][Next]_vars

-----------------------------------------------------------------------------
(***************************************************************************)
(* What the flash makes of a layout (external: meta-tegra's                *)
(* nvflashxmlparse and make-sdcard), stated on its own: an entry counts on *)
(* from the last id at or before it.                                       *)
(***************************************************************************)
FlashedAs(parts, i) ==
  LET e == Entries(parts)
      ids == {j \in 1..i : e[j].id # 0}
  IN  IF ids = {} THEN i ELSE e[Max(ids)].id + (i - Max(ids))

\* The entries the flash puts at a number, and those it grows to the end.
At(parts, n) == {i \in DOMAIN Entries(parts) : FlashedAs(parts, i) = n}
Growing(parts) == {i \in DOMAIN Entries(parts) : Entries(parts)[i].fill}

\* meta-tegra drops the lines that name DATAFILE when there is none.
NoDatafile(parts) ==
  [i \in DOMAIN parts |-> IF parts[i].file = "DATAFILE"
                            THEN [parts[i] EXCEPT !.file = ""] ELSE parts[i]]

\* Every number the boot and update path uses leads, in a layout that was
\* written, to exactly the partition it means; APP_b stays unwritten; DATA
\* alone grows, and is last; and SWAP and DATA have moved no entry of the
\* template ("Every partition named in NUMBERS ends up at exactly that GPT
\* entry number ... or the build fails here").
Addressable ==
  said = "written" =>
    \A parts \in {dst, NoDatafile(dst)} :
      LET e == Entries(parts)
          old == Entries(job.src)
      IN  /\ \A name \in DOMAIN job.want :
               \E i \in DOMAIN e : At(parts, job.want[name]) = {i} /\ e[i].name = name
          /\ \A i \in DOMAIN e : e[i].name \in {"APP_b", "SWAP"} => e[i].file = ""
          /\ Growing(parts) = {Len(e)} /\ e[Len(e)].name = "DATA"
          /\ \A i \in DOMAIN old :
               /\ e[i].name = old[i].name
               /\ FlashedAs(parts, i) = FlashedAs(job.src, i)
               /\ old[i].name # "APP_b" => e[i].file = old[i].file

\* A template the flash would number as wanted, with room for SWAP and DATA
\* and nothing else growing, is not refused.
NotRefusedNeedlessly ==
  LET e == Entries(job.src)
      free == {job.want["SWAP"], job.want["DATA"]}
  IN  /\ job.src[Len(job.src)].name = "secondary_gpt"
      /\ \A i \in DOMAIN job.src : ~job.src[i].fill
      /\ {"SWAP", "DATA"} \cap Names(job.src) = {}
      /\ Cardinality(free) = 2
      /\ \A i, j \in DOMAIN e : FlashedAs(job.src, i) = FlashedAs(job.src, j) => i = j
      /\ \A n \in free : At(job.src, n) = {}
      /\ \A name \in DOMAIN job.want \ {"SWAP", "DATA"} :
           \E i \in At(job.src, job.want[name]) : e[i].name = name
      => said \in {"nothing", "written"}

=============================================================================
