--------------------------- MODULE PolicyVerdict ----------------------------
(***************************************************************************)
(* The verdict on a site, python/src/wbauth/policy/verdict.py, from what   *)
(* its endpoints said.  `site` is a function from the endpoints to what    *)
(* they said, "none" for one that was not consulted; `robots` is one of    *)
(* them.  Reasons are left out.                                            *)
(***************************************************************************)
EXTENDS Integers

(* _build_policy: a failure the verdict must not overlook.  A file that is *)
(* not published and a chain of redirects without an end are none.         *)
Partial(site) ==
  \E ep \in DOMAIN site : site[ep] \in {"failed", "garbled", "odd"}

(* compute_verdict: the robots.txt that leave the path open ...            *)
RobotsClean(said) == said \in {"allows", "absent", "loops"}

(* ... and those that close it: it says so, it is no robots.txt but HTML,  *)
(* or nobody knows (RFC 9309, 2.3.1.4).                                    *)
RobotsForbid(said) == said \in {"disallows", "garbled", "failed"}

compute_verdict(site, robots) ==
  IF RobotsForbid(site[robots]) THEN "forbidden"
  ELSE IF \E ep \in DOMAIN site \ {robots} : site[ep] = "restricts" THEN "restricted"
  ELSE IF RobotsClean(site[robots]) /\ ~Partial(site) THEN "allowed"
  ELSE "restricted"

(* _robots_forbids, before the other endpoints are asked.                  *)
robots_forbids(said) == RobotsForbid(said)

=============================================================================
