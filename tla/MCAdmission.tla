----------------------------- MODULE MCAdmission -----------------------------
(* Instances of Admission for TLC. *)
EXTENDS Admission

Policy0 ==
    [selects |-> {"llm", "rag"}, namespaces |-> FALSE, confidential |-> FALSE, allowed |-> <<>>,
     imageDigest |-> FALSE, modelDigest |-> FALSE, gpu |-> FALSE, maxAge |-> 1,
     untimed |-> FALSE, mode |-> "enforce"]

SomeSpecs ==
    {[Policy0 EXCEPT !.confidential = TRUE, !.allowed = <<None, "kata-qemu-tdx">>],
     [Policy0 EXCEPT !.confidential = TRUE, !.namespaces = TRUE, !.selects = {"llm"},
                     !.allowed = <<"kata-qemu-snp", "kata-qemu-tdx">>, !.maxAge = 2],
     [Policy0 EXCEPT !.allowed = <<"runc">>, !.imageDigest = TRUE, !.mode = "warn"],
     [Policy0 EXCEPT !.confidential = TRUE, !.modelDigest = TRUE, !.mode = "audit"],
     [Policy0 EXCEPT !.selects = {"rag"}, !.gpu = TRUE, !.untimed = TRUE]}

Pod0 ==
    [label |-> "llm", runtime |-> None, scheduler |-> None, gates |-> 0, evidence |-> FALSE,
     pinned |-> TRUE, model |-> TRUE, inject |-> None, govar |-> "off", sidecars |-> 0,
     injected |-> FALSE, proxies |-> 0, tokenVolumes |-> 0, restricted |-> FALSE,
     native |-> FALSE, ann |-> None]

SomePods ==
    {Pod0,
     [Pod0 EXCEPT !.runtime = "simulated-kata-qemu-tdx", !.inject = "off", !.evidence = TRUE],
     [Pod0 EXCEPT !.runtime = "kata-qemu-snp", !.label = "rag", !.inject = "on",
                  !.govar = "complete", !.scheduler = Scheduler, !.proxies = 1],
     [Pod0 EXCEPT !.runtime = "runc", !.sidecars = 1, !.inject = "on", !.gates = 1],
     [Pod0 EXCEPT !.pinned = FALSE, !.model = FALSE, !.inject = "on", !.govar = "incomplete"]}

Labels == {"llm", "rag"}
=============================================================================
