----------------------------- MODULE MCRequestPath -----------------------------
(***************************************************************************)
(* What a request passes before a model is asked, side by side for TLC:    *)
(* the limiter ("limiter") and the semantic cache ("cache").  They share   *)
(* no state: Init chooses the one a behaviour is about, and the other      *)
(* stands still.                                                           *)
(***************************************************************************)
EXTENDS MCSemanticCache, MCRateLimiter

VARIABLE station

pathLimiterVars == <<mode, limiterVars, bucketVars, counterVars>>

\* Where the cache is chosen, the limiter need not be.
RequestPathInit ==
    /\ station \in {"limiter", "cache"}
    /\ RateLimiterInit /\ Init
    /\ station = "cache" => mode = "redis"

RequestPathNext ==
    /\ \/ station = "limiter" /\ RateLimiterNext /\ UNCHANGED vars
       \/ station = "cache" /\ MCNext /\ UNCHANGED pathLimiterVars
    /\ UNCHANGED station

RequestPathSpec ==
    RequestPathInit /\ [][RequestPathNext]_<<station, vars, pathLimiterVars>>

PathSymmetry == LookupSymmetry \cup LimiterSymmetry
=============================================================================
