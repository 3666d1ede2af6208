----------------------------- MODULE MCBarrier -----------------------------
(* Three days, up to two dividends and barriers on both sides of a price   *)
(* of 8 (64 eighths), one below the largest escrow of 6 (48 eighths).      *)
EXTENDS ContinuousBarrier

MCMonitoring == {{-1}, {0}, {3}, {-1, 2}, {0, 2}, {1, 3}}
Declared(monitoring) ==
  IF monitoring = {-1} THEN {{FALSE}}
  ELSE IF \E t \in monitoring : t < 0 THEN {{TRUE}, {FALSE}} ELSE {{}}
Levels(direction) == IF direction = "up" THEN {52, 80} ELSE {32, 56}
MCContracts ==
  {[direction |-> dir, level |-> b, monitoring |-> m, expiry |-> x, hit |-> h] :
     dir \in {"up", "down"}, b \in {32, 52, 56, 80}, m \in MCMonitoring,
     x \in {0, 3}, h \in {{}, {TRUE}, {FALSE}}}
MCValidContracts ==
  {c \in MCContracts :
     /\ c.level \in Levels(c.direction) /\ c.hit \in Declared(c.monitoring)
     /\ \A t \in c.monitoring : t <= c.expiry}

Kinds == {<<2, 2>>, <<0, 1>>, <<1, 1>>}
OneDividend(times) == {<<Dividend(t, k[1], k[2])>> : t \in times, k \in Kinds}
TwoDividends(s, t) ==
  {<<Dividend(s, k[1], k[2]), Dividend(t, l[1], l[2])>> :
     k \in Kinds \ {<<2, 2>>}, l \in Kinds}
Unfunded == <<Dividend(1, 2, 1), Dividend(2, 2, 1)>>
MCDividends ==
  {<<>>, Unfunded} \cup OneDividend({1, 2, 4}) \cup TwoDividends(1, 2) \cup TwoDividends(2, 4)
MCTodayContracts == {c \in MCValidContracts : c.monitoring = {0, 2}}
MCTodayDividends == OneDividend({0})
MCStates == {1, 2, 3}
=============================================================================
