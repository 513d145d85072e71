------------------------------ MODULE MCLayout ------------------------------
(***************************************************************************)
(* Templates for PartitionLayout: those scripts/test-ab-layout.py runs the *)
(* script on, with what it expects of each, and every small template of    *)
(* four partitions in any order with any ids.                              *)
(***************************************************************************)
EXTENDS PartitionLayout, TLC

Framed(entries) ==
  <<Table("master_boot_record"), Table("primary_gpt")>> \o entries
    \o <<Table("secondary_gpt")>>

\* NVIDIA's R35.6.4 template: the kernels first, APP and APP_b last.
NVIDIA_PARTS ==
  << Part("kernel", 3, "LNXFILE"), Part("kernel-dtb", 0, "DTB_FILE"),
     Part("reserved_for_chain_A_user", 0, ""), Part("kernel_b", 0, "LNXFILE_b"),
     Part("kernel-dtb_b", 0, "DTB_FILE"), Part("reserved_for_chain_B_user", 0, ""),
     Part("RECNAME", 0, "RECFILE"), Part("RECDTB-NAME", 0, "RECDTB-FILE"),
     Part("RECROOTFS", 0, ""), Part("esp", 0, "ESP_FILE"),
     Part("RECNAME_alt", 0, ""), Part("RECDTB-NAME_alt", 0, ""),
     Part("esp_alt", 0, ""), Part("UDA", 0, ""),
     Part("APP", 1, "APPFILE"), Part("APP_b", 2, "APPFILE_b") >>

\* One numbered purely by place.
TEMPLATE_PARTS ==
  << Part("APP", 0, "APPFILE"), Part("APP_b", 0, "APPFILE_b"),
     Part("A_kernel", 0, "LNXFILE"), Part("A_kernel-dtb", 0, "DTB_FILE"),
     Part("A_reserved_on_user", 0, ""), Part("B_kernel", 0, "LNXFILE"),
     Part("B_kernel-dtb", 0, "DTB_FILE"), Part("B_reserved_on_user", 0, ""),
     Part("recovery", 0, "RECFILE"), Part("recovery-dtb", 0, "RECDTB-FILE"),
     Part("RECROOTFS", 0, ""), Part("esp", 0, "EFIFILE"),
     Part("recovery_alt", 0, ""), Part("recovery-dtb_alt", 0, ""),
     Part("esp_alt", 0, ""), Part("UDA_reserved", 0, "") >>

NUMBERS == ("APP" :> 1) @@ ("APP_b" :> 2) @@ ("esp" :> 12)
             @@ ("SWAP" :> 17) @@ ("DATA" :> 18)

Without(name) == SelectSeq(TEMPLATE_PARTS, LAMBDA p : p.name # name)

Case(entries, says) == [src |-> Framed(entries), want |-> NUMBERS, says |-> says]

\* The cases of test-ab-layout.py.
CASES ==
  { Case(NVIDIA_PARTS, "written"),
    Case(TEMPLATE_PARTS, "written"),
    Case(Append(TEMPLATE_PARTS, Part("DATA", 0, "")), "already has one"),
    Case([TEMPLATE_PARTS EXCEPT ![16].fill = TRUE], "already fills to end"),
    Case(Without("APP_b"), "no such partition"),
    Case(Without("A_reserved_on_user"), "would be another entry"),
    [Case(TEMPLATE_PARTS, "already taken") EXCEPT !.want["SWAP"] = 12],
    Case(Append(TEMPLATE_PARTS, Part("extra", 3, "")), "used twice") }

\* Small templates: the slots, the ESP and one more, in any order, with any
\* ids; and what the numbers may have to be.
SmallParts ==
  {f \in [1..4 -> [name : {"APP", "APP_b", "esp", "UDA"}, id : {0, 1, 3}]] :
     \A i, j \in 1..4 : f[i].name = f[j].name => i = j}
SmallWants ==
  {("APP" :> 1) @@ ("APP_b" :> 2) @@ ("esp" :> esp) @@ ("SWAP" :> 4) @@ ("DATA" :> 5)
     : esp \in 3..4}

SmallJobs ==
  {[src |-> Framed([i \in 1..4 |-> Part(f[i].name, f[i].id, f[i].name)]), want |-> w]
     : f \in SmallParts, w \in SmallWants}

MCJobs == SmallJobs \cup {[src |-> c.src, want |-> c.want] : c \in CASES}

\* The layout the boot and update path counts on (expect_boat_layout).
BoatLayout(parts, datafile) ==
  LET e == Entries(parts)
      row(name) == LET i == CHOOSE k \in DOMAIN e : e[k].name = name
                   IN  <<FlashedAs(parts, i), e[i].file, e[i].fill>>
      esp == IF "RECNAME" \in Names(parts) THEN "ESP_FILE" ELSE "EFIFILE"
  IN  /\ row("APP") = <<1, "APPFILE", FALSE>> /\ row("APP_b") = <<2, "", FALSE>>
      /\ row("esp") = <<12, esp, FALSE>> /\ row("SWAP") = <<17, "", FALSE>>
      /\ row("DATA") = <<18, datafile, TRUE>>

\* The script does on each template of test-ab-layout.py what the test
\* expects: the boat's layout, also without DATAFILE, or that refusal and no
\* output.
AsTested ==
  \A c \in CASES :
    job.src = c.src /\ job.want = c.want /\ said # "nothing" =>
      /\ said = c.says
      /\ IF said = "written" THEN /\ BoatLayout(dst, "DATAFILE")
                                  /\ BoatLayout(NoDatafile(dst), "")
                             ELSE dst = <<>>

=============================================================================
