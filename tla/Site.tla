-------------------------------- MODULE Site --------------------------------
(***************************************************************************)
(* The site, from its text to its URLs and its servers: a behaviour is of  *)
(* the router, of the book compiler or of a release, and the variables of  *)
(* the others stay as they are.                                            *)
(***************************************************************************)
EXTENDS Routing

CONSTANTS
  Books, Texts, Terms, Sources, MaxEdits,       \* of Book
  MaxReleases, MaxTroubles, MaxLength,
  Pause, Drain, Grace, Lag,                     \* of Release
  None                                          \* nothing referred to, no request

VARIABLES part,                                    \* "router", "book" or "release"
          text, xref, building, at, ctx, site, cited, edits, served, \* of Book
          target, valid, phase, age, pools, ready, upstream,
          req, cut, db, trouble, troubles                            \* of Release

Compiler == INSTANCE Book WITH lang <- building
Servers  == INSTANCE Release

ASSUME BooksAssumption == /\ \A b \in Books : \A l \in Compiler!Langs : Compiler!Manifest(b[l])
                          /\ Texts \subseteq Compiler!Source

\* The ingress learns of a pod that ends before the pod's sleep is over, and the
\* grace period leaves the drain its time after that (deployment.yaml, main.go).
ASSUME ReleasesAssumption == /\ MaxReleases \in Nat
                             /\ Pause \in Nat /\ Drain \in Nat /\ Grace \in Nat
                             /\ Lag \in Nat /\ Lag < Pause /\ Lag + Drain <= Grace

bookVars    == <<text, xref, building, at, ctx, site, cited, edits, served>>
serverVars  == <<target, valid, phase, age, pools, ready, upstream, req, cut, db,
                 trouble, troubles>>
siteVars    == <<part, vars, bookVars, serverVars>>

NoRouter  == url = << >> /\ answer = NoAnswer /\ dynamic = "none" /\ lang = Seg("en")
NoBook    == /\ text = 0 /\ xref = 0 /\ building = 0 /\ at = 0 /\ ctx = 0 /\ site = 0
             /\ cited = 0 /\ edits = 0 /\ served = 0
NoServers == /\ target = 0 /\ valid = [p \in 0 .. MaxReleases |-> TRUE]
             /\ phase = [p \in 0 .. MaxReleases |-> "none"] /\ age = 0
             /\ pools = {} /\ ready = {} /\ upstream = {} /\ req = 0 /\ cut = 0
             /\ db = FALSE /\ trouble = FALSE /\ troubles = 0

SiteInit ==
  \/ part = "router"  /\ Init          /\ NoBook   /\ NoServers
  \/ part = "book"    /\ Compiler!Init /\ NoRouter /\ NoServers
  \/ part = "release" /\ Servers!Init  /\ NoRouter /\ NoBook

SiteNext ==
  /\ \/ part = "router"  /\ Next          /\ UNCHANGED <<bookVars, serverVars>>
     \/ part = "book"    /\ Compiler!Next /\ UNCHANGED <<vars, serverVars>>
     \/ part = "release" /\ Servers!Next  /\ UNCHANGED <<vars, bookVars>>
  /\ UNCHANGED part

\* The server answers and the browser follows; the fairness of Release.
SiteFairness ==
  /\ WF_siteVars(part = "router" /\ Next /\ UNCHANGED <<part, bookVars, serverVars>>)
  /\ WF_serverVars(part = "release" /\ Servers!Surge)
  /\ WF_serverVars(part = "release" /\ Servers!StopOld)
  /\ WF_serverVars(part = "release" /\ Servers!Boot)
  /\ WF_serverVars(part = "release" /\ Servers!Probe)
  /\ WF_serverVars(part = "release" /\ Servers!Sigterm)
  /\ WF_serverVars(part = "release" /\ Servers!Exit)
  /\ WF_serverVars(part = "release" /\ Servers!Sync)
  /\ WF_serverVars(part = "release" /\ Servers!Tick)

SiteSpec == SiteInit /\ [][SiteNext]_siteVars /\ SiteFairness

----------------------------------------------------------------------------
(* The properties, each for its own behaviours; the invariants of Routing  *)
(* hold of no answer.                                                      *)

\* Book: every link the build writes, to a section, a figure, a term, a source, a
\* first use or a neighbour, lands where it has written what the link is to.
LinksLand == part = "book" => Compiler!LinksLand

\* Book: the development server answers with what a build of what is on disk now
\* would write, whatever it has been asked for and whichever pages have been edited
\* before, but for how references to what edits have relabelled are shown and, in
\* the index of search, for sources that earlier answers cited.
DevAsBuilt == part = "book" => Compiler!DevAsBuilt

\* Book: the index of search of the development server mirrors the build's, and
\* edits show up in it without a restart (dev.ts).
SearchMirrorsBuild == part = "book" => Compiler!SearchMirrorsBuild

\* Release: however releases overlap, readers are routed to a server that answers, and
\* answers of a server that is told to stop are whole, its drain permitting.
ReleaseServes == part = "release" => Servers!ReleaseServes

\* Routing: every chain of redirects ends with an answer that is none. Release: a
\* release that can start comes to be the one that runs.
AllEnd == /\ (part = "router") ~> (answer.kind \notin {"none", "redirect"})
          /\ Servers!ReleaseEnds
============================================================================
