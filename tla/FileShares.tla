----------------------------- MODULE FileShares -----------------------------
(* Share links: made, deleted, downloaded and saved into the user's own      *)
(* files (handler/share_*.go, store/share_repo.go, agentsvc/share.go).      *)
EXTENDS FileRows

VARIABLES share,     \* the subject of the link each request made
          links,     \* the rows of the shares table
          visits,    \* the visitors in share_downloads, by link
          count,     \* the download_count column of each link
          \* history
          uncounted  \* visits whose second statement never ran, by link

shareVars == <<share, links, visits, count, uncounted>>
linkVars == <<visits, count, uncounted>>

(* A link leads to a row or to a directory of a space.                      *)
NoLink == [kind |-> "none", id |-> None, space |-> None, dir |-> None]

InShare(x, sh) ==
    \/ sh.kind = "file" /\ x = sh.id
    \/ sh.kind = "dir" /\ row[x].name[1] = sh.dir

(* The link is made of what was listed: a live row, or a prefix with rows.    *)
CreateShare(r) ==
    /\ At(r, "createShare", "start")
    /\ \/ \E x \in {y \in Row : Live(y)} :
             cur' = [cur EXCEPT ![r] = Snapshot(x)] /\ UNCHANGED <<name, space>>
       \/ \E s \in Space \ {Nowhere}, d \in Dir :
             /\ InDir(s, d) # {}
             /\ name' = [name EXCEPT ![r] = <<d, Keep>>]
             /\ space' = [space EXCEPT ![r] = s]
             /\ UNCHANGED cur
    /\ Goto(r, "link")
    /\ UNCHANGED <<todo, row, marked, faults, history, shareVars>>

LinkTo(r) ==
    IF cur[r] # Nothing
    THEN [NoLink EXCEPT !.kind = "file", !.id = cur[r].id]
    ELSE [NoLink EXCEPT !.kind = "dir", !.space = space[r], !.dir = name[r][1]]

InsertShare(r) ==
    /\ At(r, "createShare", "link")
    /\ \/ /\ Works
          /\ share' = [share EXCEPT ![r] = LinkTo(r)]
          /\ links' = links \cup {r}
       \/ Fails /\ UNCHANGED <<share, links>>
    /\ Goto(r, "done")
    /\ UNCHANGED <<name, space, todo, cur, row, marked, history, linkVars>>

(* The visits of a deleted link stay.                                       *)
DeleteShare(r) ==
    /\ At(r, "deleteShare", "start")
    /\ \E s \in links : links' = links \ {s}
    /\ Goto(r, "done")
    /\ UNCHANGED <<name, space, todo, cur, row, marked, faults, history, share,
                   linkVars>>
-----------------------------------------------------------------------------
GetShare(r) ==
    /\ At(r, "download", "start")
    /\ \E s \in links : cur' = [cur EXCEPT ![r] = [id |-> s, name |-> None]]
    /\ Goto(r, "visit")
    /\ UNCHANGED <<name, space, todo, row, marked, faults, history, shareVars>>

(* Mutant of RecordVisit: a visitor who comes again counts again.            *)
RecordEveryVisit(r) ==
    /\ At(r, "download", "visit")
    /\ LET s == cur[r].id
       IN  \E v \in Visitor :
             \/ /\ v \notin visits[s] /\ Works
                /\ visits' = [visits EXCEPT ![s] = @ \cup {v}]
                /\ Goto(r, "count")
             \/ /\ v \in visits[s] /\ Works
                /\ Goto(r, "count") /\ UNCHANGED visits
             \/ Fails /\ Goto(r, "serve") /\ UNCHANGED visits
    /\ UNCHANGED <<name, space, todo, cur, row, marked, history, share, links, count,
                   uncounted>>

(* INSERT IGNORE: a visitor is entered once.  An error does not stop the      *)
(* download.                                                                *)
RecordVisit(r) ==
    /\ At(r, "download", "visit")
    /\ LET s == cur[r].id
       IN  \E v \in Visitor :
             \/ /\ v \notin visits[s] /\ Works
                /\ visits' = [visits EXCEPT ![s] = @ \cup {v}]
                /\ Goto(r, "count")
             \/ /\ v \in visits[s] /\ Works
                /\ Goto(r, "serve") /\ UNCHANGED visits
             \/ Fails /\ Goto(r, "serve") /\ UNCHANGED visits
    /\ UNCHANGED <<name, space, todo, cur, row, marked, history, share, links, count,
                   uncounted>>

(* Nothing is counted for a link that was deleted meanwhile.                 *)
IncrementCount(r) ==
    /\ At(r, "download", "count")
    /\ LET s == cur[r].id
       IN  \/ /\ Works
              /\ count' = IF s \in links THEN [count EXCEPT ![s] = @ + 1] ELSE count
              /\ uncounted' = IF s \in links THEN uncounted
                              ELSE [uncounted EXCEPT ![s] = @ + 1]
           \/ /\ Fails /\ UNCHANGED count
              /\ uncounted' = [uncounted EXCEPT ![s] = @ + 1]
    /\ Goto(r, "serve")
    /\ UNCHANGED <<name, space, todo, cur, row, marked, history, share, links, visits>>

(* Only now is the file looked for: the visit counts without one.            *)
Serve(r) ==
    /\ At(r, "download", "serve")
    /\ Goto(r, "done")
    /\ UNCHANGED <<name, space, todo, cur, row, marked, faults, history, shareVars>>
-----------------------------------------------------------------------------
(* A file of a link is saved under the first free name.  The space is taken   *)
(* as it comes, empty or not; no name is marked and no quota asked.          *)
SaveShare(r) ==
    /\ At(r, "saveShare", "start")
    /\ \E s \in links, x \in {y \in Row : Live(y)}, to \in Space, d \in Dir :
          /\ cur' = [cur EXCEPT ![r] = [id |-> s, name |-> None]]
          /\ todo' = [todo EXCEPT ![r] = {[id |-> x, name |-> None]}]
          /\ space' = [space EXCEPT ![r] = to]
          /\ name' = [name EXCEPT ![r] = <<d, Keep>>]
    /\ Goto(r, "source")
    /\ UNCHANGED <<row, marked, faults, history, shareVars>>

(* The share is what it was when it was read; the row is read now.           *)
CheckInShare(r) ==
    /\ At(r, "saveShare", "source")
    /\ \E t \in todo[r] :
          LET x == t.id
          IN  IF Live(x) /\ row[x].name[2] # Keep /\ InShare(x, share[cur[r].id])
              THEN /\ name' = [name EXCEPT ![r] = <<name[r][1], row[x].name[2]>>]
                   /\ Goto(r, "find")
              ELSE Goto(r, "done") /\ UNCHANGED name
    /\ UNCHANGED <<space, todo, cur, row, marked, faults, history, shareVars>>

(* generateUniqueFilename: the name, then the name with a number.            *)
TryName(r) ==
    /\ At(r, "saveShare", "find")
    /\ \E found \in Answers(space[r], name[r]), i \in DOMAIN Bases :
          /\ Bases[i] = name[r][2]
          /\ FindFileByName(r, space[r], name[r], found)
          /\ IF found = {}
             THEN Goto(r, "insert") /\ UNCHANGED name
             ELSE /\ i < Len(Bases)  \* bound: the names tried
                  /\ name' = [name EXCEPT ![r][2] = Bases[i + 1]]
                  /\ UNCHANGED pc
    /\ UNCHANGED <<space, todo, cur, shareVars>>

InsertSaved(r) ==
    /\ At(r, "saveShare", "insert")
    /\ CreateFile(r, name[r], space[r], "done") \/ GiveUp(r)
    /\ UNCHANGED <<name, space, todo, cur, shareVars>>

ShareStep(r) ==
    \/ CreateShare(r) \/ InsertShare(r) \/ DeleteShare(r)
    \/ GetShare(r) \/ RecordVisit(r) \/ IncrementCount(r) \/ Serve(r)
    \/ SaveShare(r) \/ CheckInShare(r) \/ TryName(r) \/ InsertSaved(r)
=============================================================================
