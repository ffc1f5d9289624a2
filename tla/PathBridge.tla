----------------------------- MODULE PathBridge -----------------------------
(***************************************************************************)
(* PathBridgeNode: the planner's path is passed on when it has changed     *)
(* against the path passed on last, in length or at one of three points.   *)
(***************************************************************************)
EXTENDS Integers, Sequences

CONSTANTS
    Paths,      \* what the planner publishes: sequences of points <<x, y>>
    Threshold   \* changeThreshold_, in the unit of the points

ASSUME PathAssumption == Paths \subseteq Seq(Int \X Int) /\ Threshold \in Int

VARIABLES
    lastPath,   \* lastPath_
    pathOut,    \* the last path published
    pathHeard   \* history: the last path with a point that the planner published

pathVars == <<lastPath, pathOut, pathHeard>>

SqDist(a, b) == (a[1] - b[1]) * (a[1] - b[1]) + (a[2] - b[2]) * (a[2] - b[2])

(* First, middle and last point of a path of n points.                     *)
KeyPoints(n) == {1, n \div 2 + 1, n}

Moved(p, q) == \E i \in KeyPoints(Len(p)) : SqDist(p[i], q[i]) > Threshold * Threshold

IsPathChanged(current) ==
    lastPath = <<>> \/ Len(current) # Len(lastPath) \/ Moved(current, lastPath)

(* Fault: lastPath_ follows the planner, so that a slow drift goes unseen. *)
OnPathFollowing(path) ==
    /\ path # <<>>
    /\ pathHeard' = path
    /\ lastPath' = path
    /\ pathOut' = IF IsPathChanged(path) THEN path ELSE pathOut
OnPath(path) ==
    /\ path # <<>>
    /\ pathHeard' = path
    /\ IF IsPathChanged(path)
         THEN lastPath' = path /\ pathOut' = path
         ELSE UNCHANGED <<lastPath, pathOut>>

PathInit == lastPath = <<>> /\ pathOut = <<>> /\ pathHeard = <<>>
PathNext == \E path \in Paths : OnPath(path)
PathSpec == PathInit /\ [][PathNext]_pathVars
-----------------------------------------------------------------------------
(* However the planner moves its path, and however slowly, the path passed *)
(* on last is as long as the planner's and within the threshold of it at   *)
(* the three points compared.                                              *)
NoDrift ==
    pathHeard # <<>> => Len(pathOut) = Len(pathHeard) /\ ~Moved(pathHeard, pathOut)
=============================================================================
