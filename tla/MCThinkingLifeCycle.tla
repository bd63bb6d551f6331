------------------------ MODULE MCThinkingLifeCycle ------------------------
(* Two requests at a time: robotic data of a channel with and of one without *)
(* a critic, data that lack a field, text, and training.                     *)
EXTENDS ThinkingLifeCycle

Robotic(body) ==
    [type |-> "RoboticDataRequest", name |-> "rawroboticdata", body |-> body]
Training == [type |-> "TrainingRequest", name |-> "inputtext", body |-> "text"]

MCRequests ==
    {Robotic(b) : b \in {"hand", "distance", "other", "incomplete"}}
        \cup {[type |-> "Request", name |-> "inputtext", body |-> "text"], Training}
OnlyTraining == {Training}
=============================================================================
