--------------------------- MODULE MCDoctorCheck ---------------------------
EXTENDS DoctorCheck, TLC

Volume(kind, source, body) == [name |-> source, kind |-> kind, source |-> source, body |-> body]
Env(volumes, docker) ==
    [verify |-> "v", compose |-> "parsed", text |-> "t", volumes |-> volumes,
     config |-> "c", image |-> "i", docker |-> docker]
MCEnvironments == <<Env({Volume("bind", "inside", "a")}, TRUE),
                    Env({Volume("bind", "inside", "b"), Volume("bind", "absolute", "a")}, TRUE)>>
MCOnlys == <<{{}, {<<"reference", 1>>, <<"mutant", 1>>}, {<<"typo", 0>>}},
             {{}, {<<"mutant", 1>>}}, {{<<"mutant", 1>>}, {<<"reference", 0>>}}>>
MCMutants == <<[expect |-> "killed", origin |-> "hand", applies |-> TRUE],
               [expect |-> "equivalent", origin |-> "generated", applies |-> TRUE],
               [expect |-> "killed", origin |-> "generated", applies |-> FALSE]>>
MCEndings == {"pass", "fail"}
DirSymmetry == Permutations(Dirs)
=============================================================================
