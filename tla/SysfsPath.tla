----------------------------- MODULE SysfsPath -----------------------------
(***************************************************************************)
(* OSFileSystem.resolve: a path of the controller below the root it was    *)
(* given.  Source: internal/sysfs/fs.go.                                   *)
(*                                                                         *)
(* A path is the sequence of what is between its slashes.  A gap is        *)
(* between two slashes that follow each other, and before the first of a   *)
(* path that begins with one.  A backslash is part of a name, but for the  *)
(* slashes and backslashes that a path begins with, which are taken off.   *)
(***************************************************************************)
EXTENDS Integers, SequencesExt

CONSTANTS
    Root,   \* OSFileSystem.Root, cleaned
    Gap,    \* nothing, between two slashes
    Bare(_) \* a segment without the backslashes it begins with

Refused == <<"refused">>

\* strings.TrimLeft of slashes and backslashes: the path begins with the first
\* segment that has anything else, without its backslashes.
Trimmed(path) == SelectInSeq(path, LAMBDA s : Bare(s) # Gap)
Relative(path) ==
    LET first == Trimmed(path) IN
    IF first = 0 THEN <<>>
    ELSE <<Bare(path[first])>> \o SubSeq(path, first + 1, Len(path))

\* filepath.Clean of a relative path: ".." takes back the segment before it,
\* unless there is none.
Walk(done, segment) ==
    CASE segment \in {Gap, "."} -> done
      [] segment = ".." /\ done # <<>> /\ Last(done) # ".." -> Front(done)
      [] OTHER -> Append(done, segment)
Walked(path) ==
    LET walked[n \in 0..Len(path)] ==
          IF n = 0 THEN <<>> ELSE Walk(walked[n - 1], path[n])
    IN walked
Clean(path) == Walked(path)[Len(path)]

\* Mutant: only ".." itself is refused.
ResolveSuffix(path) ==
    LET cleaned == Clean(Relative(path))
    IN IF cleaned = <<"..">> THEN Refused ELSE Root \o cleaned

\* resolve, whose error every operation returns before it touches a file.
Resolve(path) ==
    LET cleaned == Clean(Relative(path))
    IN IF cleaned # <<>> /\ Head(cleaned) = ".." THEN Refused ELSE Root \o cleaned

-----------------------------------------------------------------------------
(* The reference: how far below the root each segment of the path leads    *)

Rise(segment) == IF segment \in {Gap, "."} THEN 0 ELSE IF segment = ".." THEN -1 ELSE 1
Depth(path) ==
    LET depth[n \in 0..Len(path)] ==
          IF n = 0 THEN 0 ELSE depth[n - 1] + Rise(path[n])
    IN depth

\* The way down to a depth that a path takes last.
Rises(path, depth) == {n \in 1..Len(path) : Rise(path[n]) = 1 /\ Depth(path)[n] = depth}
LastRise(path, depth) ==
    CHOOSE n \in Rises(path, depth) : \A m \in Rises(path, depth) : m <= n

\* A path that climbs above the root at any of its segments is refused; of
\* another, what led down last to each of the depths it ends below remains,
\* below the root (resolve, on whose result ReadFile, WriteFile, ReadDir and
\* Stat work).
InsideRoot(path) ==
    LET p == Relative(path) IN
    Resolve(path) =
      IF \A n \in 1..Len(p) : Depth(p)[n] >= 0
        THEN Root \o [d \in 1..Depth(p)[Len(p)] |-> p[LastRise(p, d)]]
        ELSE Refused
=============================================================================
