------------------------------- MODULE MCCrawl -------------------------------
(* Small instances of Crawl for TLC. *)
EXTENDS Crawl, TLC

\* Workers are alike; tokens are not, claim takes the lowest unused one.
Alike == Permutations(Worker)
==============================================================================
