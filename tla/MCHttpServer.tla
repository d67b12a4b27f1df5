---------------------------- MODULE MCHttpServer ----------------------------
(* HttpServer with one client that sends two requests, perhaps without     *)
(* waiting for the first answer, and one that only connects.               *)
EXTENDS HttpServer

CONSTANTS c1, c2

K(head, body, close, persist, upgrade, bad) ==
  [head |-> head, body |-> body, close |-> close, persist |-> persist,
   upgrade |-> upgrade, bad |-> bad]

Plain   == K(1, 0, FALSE, TRUE, FALSE, FALSE)
Large   == K(2, 4, FALSE, TRUE, FALSE, FALSE)   \* if half comes with the header
Refused == K(1, 5, FALSE, TRUE, FALSE, FALSE)   \* always too large
Last    == K(1, 1, TRUE, FALSE, FALSE, FALSE)   \* Connection: Close
Old     == K(1, 0, FALSE, FALSE, FALSE, FALSE)  \* HTTP/1.0, no such header
Upgrade == K(1, 0, FALSE, TRUE, TRUE, FALSE)
Bad     == K(1, 0, FALSE, TRUE, FALSE, TRUE)

MCKinds == {Plain, Large, Refused, Last, Old, Upgrade, Bad}

MCMenu ==
  [c \in Conn |-> IF c = c1 THEN <<MCKinds, {Plain, Large}>> ELSE << >>]
=============================================================================
