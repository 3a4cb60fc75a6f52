------------------------ MODULE VerifierEnvironment ------------------------
(* The instrument a health check measures with, and the fingerprint that      *)
(* decides whether two checks used the same one (doctor/environment.go).      *)
(* Contents are short strings standing for bytes; a digest is modelled by the *)
(* set of named parts it is taken over.                                       *)
EXTENDS Integers, Sequences, FiniteSets

ABSENT == "absent"

(* How a compose volume may name its source, by what the fingerprint makes of *)
(* it: a path inside the task directory is hashed, and a named volume, an     *)
(* absolute path, an interpolated one and one that escapes are not.           *)
Hashed(volume) == volume.kind = "bind" /\ volume.source = "inside"

(* compose: "absent", "unparsed" or "parsed"; text: the bytes of the file;    *)
(* volumes: what it mounts, at most one body per name; config: the file as    *)
(* compose resolves it on this machine; image: the built image; docker:       *)
(* whether docker answers within the timeout.                                 *)
Environment == [verify : STRING, compose : {ABSENT, "unparsed", "parsed"}, text : STRING, volumes : SUBSET
                [name : STRING, kind : STRING, source : STRING, body : STRING],
                config : STRING, image : STRING, docker : BOOLEAN]

(* The list of parts is ordered, so that what a part is of says where it is.  *)
Part(of, name, body) == [of |-> of, name |-> name, body |-> body, omitted |-> FALSE]

(* What could not be read is a part too, so that reading it later shows.      *)
Omitted(of, name) == [of |-> of, name |-> name, body |-> ABSENT, omitted |-> TRUE]

PathPart(volume) ==
    IF volume.body = ABSENT THEN Omitted("mount", volume.name) ELSE Part("mount", volume.name, volume.body)

MountedParts(e) ==
    IF e.compose = "unparsed"
    THEN {Omitted("mounts", "")}
    ELSE {PathPart(v) : v \in {u \in e.volumes : Hashed(u)}}

ResolvedParts(e) ==
    {IF e.docker THEN Part("config", "", e.config) ELSE Omitted("config", "")}

ImageParts(e) == {IF e.docker THEN Part("image", "", e.image) ELSE Omitted("image", "")}

Fingerprint(e) ==
    {Part("verify", "", e.verify)} \cup
    IF e.compose = ABSENT THEN {Omitted("compose", "")}
    ELSE {Part("compose", "", e.text)} \cup MountedParts(e) \cup ResolvedParts(e) \cup ImageParts(e)

(* What a verification of the environment depends on and the task declares:   *)
(* the two environments differ in nothing of it.                              *)
SameInstrument(e, f) ==
    /\ e.verify = f.verify /\ e.compose = f.compose
    /\ e.compose # ABSENT =>
          /\ e.text = f.text /\ e.config = f.config /\ e.image = f.image
          /\ {v \in e.volumes : Hashed(v)} = {v \in f.volumes : Hashed(v)}
=============================================================================
