------------------------------ MODULE MCChoices ------------------------------
(* A league of nine players for the run of the decision engine: squads of two
   goalkeepers, two defenders, two midfielders and a forward, of whom five start. *)
EXTENDS DecisionReliability

MCPosition == 1 :> "DEF" @@ 2 :> "MID" @@ 3 :> "DEF" @@ 4 :> "GK" @@ 5 :> "FWD"
              @@ 6 :> "MID" @@ 7 :> "GK" @@ 8 :> "DEF" @@ 9 :> "MID"
MCClub  == 1 :> "c1" @@ 2 :> "c1" @@ 3 :> "c2" @@ 4 :> "c2" @@ 5 :> "c3"
           @@ 6 :> "c3" @@ 7 :> "c4" @@ 8 :> "c1" @@ 9 :> "c4"
MCPrice == [p \in Player |-> IF p = 8 THEN 3 ELSE IF p = 9 THEN 1 ELSE 2]

MCSquadCount == "GK" :> 2 @@ "DEF" :> 2 @@ "MID" :> 2 @@ "FWD" :> 1
MCStartLeast == "GK" :> 1 @@ "DEF" :> 1 @@ "MID" :> 1 @@ "FWD" :> 1
MCStartMost == "GK" :> 1 @@ "DEF" :> 2 @@ "MID" :> 2 @@ "FWD" :> 1
MCSelling    == [p \in Owned |-> IF p = 3 THEN 1 ELSE 2]

Full(x) == [fixtures |-> 1, projection |-> x, complete |-> TRUE, minutes |-> 60]
Odd     == {Full(20), Full(21), [Full(20) EXCEPT !.complete = FALSE],
            [fixtures |-> 0, projection |-> 0, complete |-> FALSE, minutes |-> 0],
            [fixtures |-> 0, projection |-> 20, complete |-> TRUE, minutes |-> 60],
            [Full(20) EXCEPT !.complete = FALSE, !.minutes = 0],
            [Full(None) EXCEPT !.complete = FALSE]}

MCArtifact ==
  {[p \in Player |-> IF p = 6 THEN six
                     ELSE IF p = 9 THEN [Full(f[9]) EXCEPT !.complete = f[9] # None]
                     ELSE IF p \in DOMAIN f THEN Full(f[p])
                     ELSE IF p = 7 THEN Full(0) ELSE Full(20)] :
     f \in {f \in [{1, 2, 3, 8, 9} -> {0, 20, 40, None}] :
              /\ f[1] \in {20, 40} /\ f[2] \in {0, 20, 40} /\ f[3] \in {0, 20}
              /\ f[8] \in {20, 40} /\ f[9] \in {20, 40, None}},
     six \in Odd}

Lock(xi, c, v, chip) == [squad |-> Owned, xi |-> xi, captain |-> c, vice |-> v, chip |-> chip]
MCLocked ==
  LET best  == Lock({1, 2, 3, 4, 5}, 1, 2, FALSE)
      other == Lock({2, 3, 5, 6, 7}, 5, 7, FALSE)
      chip  == Lock({1, 2, 3, 4, 5}, 5, 1, TRUE)
      wrong == Lock({1, 3, 4, 5, 7}, 1, 3, FALSE)
  IN  {<<best>>, <<None, other>>, <<chip>>, <<wrong, best>>, <<None>>}

MCScreens == {{}, {8}}
MCCaps    == {[p \in Player |-> 100], [p \in Player |-> IF p = 8 THEN 20 ELSE 40]}
=============================================================================
