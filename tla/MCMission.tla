------------------------------ MODULE MCMission ------------------------------
(***************************************************************************)
(* Missions, and what one run of a mission revision leaves to the next, in *)
(* three parts that share no state: the posts, cursors and watermarks of   *)
(* its sources; its opportunities with their decisions; the commands on    *)
(* missions. One of them moves while the others rest where they begin.     *)
(* Time is counted in half days.                                           *)
(***************************************************************************)
EXTENDS MCLifecycle, Collection, Missions

MCPosts == 1..2
MCHomes == {<<"HACKER_NEWS", "HACKER_NEWS">>, <<"REDDIT", "REDDIT">>, <<"GITHUB", "GITHUB">>}
MCQueryOrder == <<"issues", "hn", "reddit">>
MCQueries == [issues |-> [source |-> "GITHUB", posts |-> MCPosts],
              hn |-> [source |-> "HACKER_NEWS", posts |-> MCPosts],
              reddit |-> [source |-> "REDDIT", posts |-> MCPosts]]
MCPlans == {{"issues", "hn"}, {"reddit"}}
MCBands == <<<<0, 1>>, <<1, 6>>>>

VARIABLE moves      \* which of them moves

leftVars == <<vars, collectionVars, missionVars, moves>>

MissionInit ==
    /\ Init /\ CollectionInit /\ MissionsInit
    /\ moves \in {"posts", "opportunities", "commands"}
    /\ moves # "posts" => home = CHOOSE h \in Homes : TRUE

MissionNext ==
    /\ UNCHANGED moves
    /\ \/ moves = "posts" /\ CollectionNext /\ UNCHANGED <<vars, missionVars>>
       \/ moves = "opportunities" /\ Next /\ UNCHANGED <<collectionVars, missionVars>>
       \/ moves = "commands" /\ MissionsNext /\ UNCHANGED <<vars, collectionVars>>

MissionSpec == MissionInit /\ [][MissionNext]_leftVars
=============================================================================
