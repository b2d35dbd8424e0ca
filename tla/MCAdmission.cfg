CONSTANTS
    None = None
    PolicyCount = 2
    Specs <- SomeSpecs
    Label <- Labels
    NewPods <- SomePods
    Environments = {"kind", "production", "staging"}
    Labelled = {"kata-qemu-snp"}
    SidecarPinned = FALSE
    MaxEdits = 2
SPECIFICATION Spec
INVARIANTS TypeOK   
