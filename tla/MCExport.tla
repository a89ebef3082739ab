------------------------------ MODULE MCExport ------------------------------
EXTENDS Export, TLC

CONSTANTS FS, HS, a, b, r1, r2, r3, t, u, topic, general

(* Two resources of the current term share a title, not their section.     *)
MCSemesterOf == a :> FS @@ b :> HS
MCCourseOf == r1 :> a @@ r2 :> a @@ r3 :> b
MCSectionOf == r1 :> topic @@ r2 :> general @@ r3 :> topic
MCTitleOf == r1 :> t @@ r2 :> t @@ r3 :> u

MCCommands ==
    {[term |-> Null, upload |-> TRUE, profile |-> "goodnotes"],
     [term |-> HS, upload |-> TRUE, profile |-> "full"],
     [term |-> Null, upload |-> FALSE, profile |-> "goodnotes"]}
=============================================================================
