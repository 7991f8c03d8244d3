----------------------------- MODULE FileStore -----------------------------
(* What a file system promises its user: named files that hold cells.  A     *)
(* call that succeeds does what it says and nothing else; a call that fails  *)
(* leaves every file as it was, but for a write, which may have done a first *)
(* part of its work.                                                         *)
EXTENDS Integers, Sequences

CONSTANTS Names, NoFile

VARIABLES
    files,      \* name -> its cells, or NoFile
    ret         \* the last call: op, name, new, flags, at, data, res

Exists(n) == files[n] # NoFile

Overlay(old, at, data) ==
    SubSeq(old, 1, at) \o data \o SubSeq(old, at + Len(data) + 1, Len(old))

(* A store may hold files already. *)
Init == DOMAIN files = Names /\ ret.op = "none"

Opened ==
    LET n == ret'.name
        creates == "CREAT" \in ret'.flags
    IN  /\ ret'.op = "open"
        /\ ret'.res = "OK" => Exists(n) \/ creates
        /\ ret'.res = "NOT_FOUND" => ~Exists(n) /\ ~creates
        /\ ret'.res = "FILE_EXISTS" => Exists(n) /\ {"CREAT", "EXCL"} \subseteq ret'.flags
        /\ files' = IF ret'.res = "OK" /\ (~Exists(n) \/ "TRUNC" \in ret'.flags)
                    THEN [files EXCEPT ![n] = <<>>] ELSE files

(* At most `at` cells precede the data; the whole of it or, on failure, a    *)
(* first part of it takes its place.                                         *)
Wrote ==
    LET n == ret'.name
        done(k) == files' = [files EXCEPT ![n] = Overlay(@, ret'.at, SubSeq(ret'.data, 1, k))]
    IN  /\ ret'.op = "write"
        /\ IF ret'.res = "OK" THEN Exists(n) /\ ret'.at <= Len(files[n]) /\ done(Len(ret'.data))
           ELSE files' = files \/ (Exists(n) /\ \E k \in 1..Len(ret'.data) : done(k))

(* A read that asks for all the rest gets it, and nothing at the end.        *)
ReadCells ==
    /\ ret'.op = "read"
    /\ ret'.res = "OK" =>
           ret'.data = SubSeq(files[ret'.name], ret'.at + 1, Len(files[ret'.name]))
    /\ files' = files

Removed ==
    /\ ret'.op = "remove"
    /\ ret'.res = "NOT_FOUND" => ~Exists(ret'.name)
    /\ files' = IF ret'.res = "OK" THEN [files EXCEPT ![ret'.name] = NoFile] ELSE files

Renamed ==
    LET n == ret'.name
        m == ret'.new
    IN  /\ ret'.op = "rename"
        /\ ret'.res = "NOT_FOUND" => ~Exists(n)
        /\ ret'.res = "CONFLICTING_NAME" => Exists(m)
        /\ files' = IF ret'.res = "OK" THEN [files EXCEPT ![m] = files[n], ![n] = NoFile]
                    ELSE files

Other ==
    /\ ret'.op \notin {"open", "write", "read", "remove", "rename"}
    /\ files' = files

Next == Opened \/ Wrote \/ ReadCells \/ Removed \/ Renamed \/ Other

Spec == Init /\ [][Next]_<<files, ret>>
=============================================================================
