------------------------------ MODULE MCTraining ------------------------------
(* A small instance of Training: three concepts of the default model, two of   *)
(* them without phrases, a specialisation, and sentences over these and three  *)
(* new words.                                                                  *)
EXTENDS Training, TLC

MCWords == {"be", "has", "object", "software", "browser", "firefox", "remove"}
MCNodes == <<"object", "be", "has">>
MCBelow == [w \in MCWords |-> IF w = "object" THEN <<"software">> ELSE <<>>]
MCPlain == {"be", "has", "software"}
MCSynonyms == [w \in MCWords |-> IF w = "firefox" THEN <<"software", "browser">> ELSE <<>>]

Parsed(words, head, deps, next) ==
    LET at(f, w) == IF w \in DOMAIN f THEN f[w] ELSE <<>>
    IN  [words |-> words, head |-> head,
         deps |-> [w \in Range(words) |-> at(deps, w)],
         next |-> [w \in Range(words) |-> at(next, w)]]

MCSentences ==
    { \* Browser is an object.
      Parsed(<<"browser", "be", "object">>, "be", "be" :> <<"browser", "object">>, <<>>),
      \* Firefox is a browser.
      Parsed(<<"firefox", "be", "browser">>, "be", "be" :> <<"browser", "firefox">>, <<>>),
      \* Firefox removes the browser of the software.
      Parsed(<<"firefox", "remove", "browser", "software">>, "remove",
             ("remove" :> <<"firefox", "browser">>) @@ ("browser" :> <<"software">>), <<>>),
      \* To be is to have.
      Parsed(<<"be", "has">>, "be", "be" :> <<"has">>, <<>>),
      \* Having is being, and removes software.
      Parsed(<<"has", "be", "remove", "software">>, "has",
             ("has" :> <<"be">>) @@ ("remove" :> <<"software">>), "has" :> <<"remove">>) }

TrainerSymmetry == Permutations(Trainers)
===============================================================================
