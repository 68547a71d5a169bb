------------------------------ MODULE SheetViewer ------------------------------
(***************************************************************************)
(* Reading a sheet: scores/pdf_viewer.js.  A run of renderPdfViewer loads  *)
(* the library, fetches the file, opens it and draws its pages; another    *)
(* sheet, a zoom or leaving the viewer overtakes it at any await.          *)
(*                                                                         *)
(* An entry is a document with what belongs to it; the entries and the     *)
(* runs of the past stay as history.  What a page looks like is left out.  *)
(***************************************************************************)
EXTENDS Naturals, Sequences

CONSTANTS
    None,
    Urls,
    Pages,       \* pages of a document
    MaxRuns,     \* bound: runs of renderPdfViewer
    MaxFailures  \* bound: failures of the network, the file or the drawing

VARIABLES seq, current, entries, runs, library, canvases, url, failures

vars == <<seq, current, entries, runs, library, canvases, url, failures>>

Init ==
    /\ seq = 0 /\ current = 0 /\ entries = <<>> /\ runs = <<>>
    /\ library = "none"
    /\ canvases = <<>>   \* on the screen, by the run that drew them
    /\ url = None        \* sheetPdfUrl: set while the viewer is open
    /\ failures = 0

\* destroyDocument: the fetch is aborted, the document and its drawings end.
Destroyed(e) ==
    IF e = 0 THEN entries
    ELSE [entries EXCEPT ![e].aborted = TRUE, ![e].pdf = IF @ = "none" THEN @ ELSE "gone"]

\* Mutant of Mine: the number of the run is not compared.
MineByEntry(r) == current = runs[r].entry
Mine(r) == entries[runs[r].entry].seq = runs[r].seq /\ current = runs[r].entry

Go(r, stage) == runs' = [runs EXCEPT ![r].at = stage]

-----------------------------------------------------------------------------
(* The user *)

\* renderPdfViewer up to its first await; a zoom draws the same document again.
Reuses(u) == current # 0 /\ entries[current].url = u /\ entries[current].pdf = "open"

Render(u) ==
    /\ Len(runs) < MaxRuns
    /\ seq' = seq + 1 /\ url' = u /\ canvases' = <<>>
    /\ LET left == Destroyed(current)
       IN  IF Reuses(u)
           THEN entries' = [entries EXCEPT ![current].seq = seq + 1] /\ UNCHANGED current
           ELSE /\ current' = Len(entries) + 1
                /\ entries' = Append(left, [url |-> u, seq |-> seq + 1, aborted |-> FALSE, pdf |-> "none"])
    /\ runs' = Append(runs, [entry |-> current', seq |-> seq + 1, at |-> "library", page |-> 1])
    /\ library' = IF library = "none" THEN "loading" ELSE library
    /\ UNCHANGED failures

Show(u) == u # url /\ Render(u)
Zoom == url # None /\ current # 0 /\ entries[current].pdf = "open" /\ Render(url)
Fit == url # None /\ Render(url)   \* also the button after a failure

\* clearSheetViewer: another tab, the end of the session.
Clear ==
    /\ url # None /\ seq' = seq + 1 /\ entries' = Destroyed(current) /\ current' = 0
    /\ url' = None /\ canvases' = <<>>
    /\ UNCHANGED <<runs, library, failures>>

-----------------------------------------------------------------------------
(* Answers *)

Rest == UNCHANGED <<seq, url, library, failures>>

\* loadPdfJs: both runs wait for the same load; after a failure it starts anew.
Loaded(ok) ==
    /\ library = "loading" /\ (ok \/ failures < MaxFailures)
    /\ library' = IF ok THEN "ready" ELSE "none"
    /\ failures' = IF ok THEN failures ELSE failures + 1
    /\ LET waiting(r) == runs[r].at = "library"
           next(r) == IF ~ ok \/ ~ Mine(r) THEN "over" ELSE IF entries[runs[r].entry].pdf = "open" THEN "first" ELSE "fetch"
       IN  runs' = [r \in DOMAIN runs |-> IF waiting(r) THEN [runs[r] EXCEPT !.at = next(r)] ELSE runs[r]]
    /\ IF ~ ok /\ \E r \in DOMAIN runs : runs[r].at = "library" /\ Mine(r)
       THEN entries' = Destroyed(current) /\ current' = 0
       ELSE UNCHANGED <<entries, current>>
    /\ UNCHANGED <<seq, canvases, url>>

Library(r) ==
    /\ runs[r].at = "library" /\ library = "ready"
    /\ Go(r, IF ~ Mine(r) THEN "over" ELSE IF entries[runs[r].entry].pdf = "open" THEN "first" ELSE "fetch")
    /\ Rest /\ UNCHANGED <<entries, current, canvases>>

\* getDocument begins when the file is there.
Fetched(r) ==
    /\ runs[r].at = "fetch" /\ ~ entries[runs[r].entry].aborted
    /\ IF Mine(r)
       THEN Go(r, "open") /\ entries' = [entries EXCEPT ![runs[r].entry].pdf = "opening"]
       ELSE Go(r, "over") /\ UNCHANGED entries
    /\ Rest /\ UNCHANGED <<current, canvases>>

\* A document that was destroyed while it was opened does not come.
Opened(r) ==
    /\ runs[r].at = "open" /\ entries[runs[r].entry].pdf = "opening"
    /\ entries' = [entries EXCEPT ![runs[r].entry].pdf = "open"]
    /\ Go(r, IF Mine(r) THEN "first" ELSE "over")
    /\ Rest /\ UNCHANGED <<current, canvases>>

\* renderPdfPage puts its canvas on the screen and draws it.
Draw(r) == canvases' = Append(canvases, r) /\ Go(r, "drawing")

FirstPage(r) ==
    /\ runs[r].at = "first" /\ entries[runs[r].entry].pdf = "open"
    /\ IF Mine(r) THEN Draw(r) ELSE Go(r, "over") /\ UNCHANGED canvases
    /\ Rest /\ UNCHANGED <<entries, current>>

NextPage(r) ==
    /\ runs[r].at = "page" /\ entries[runs[r].entry].pdf = "open"
    /\ IF Mine(r) THEN Draw(r) ELSE Go(r, "over") /\ UNCHANGED canvases
    /\ Rest /\ UNCHANGED <<entries, current>>

Drawn(r) ==
    /\ runs[r].at = "drawing" /\ entries[runs[r].entry].pdf = "open"
    /\ runs' = [runs EXCEPT ![r].page = @ + 1, ![r].at = IF runs[r].page < Pages /\ Mine(r) THEN "page" ELSE "over"]
    /\ Rest /\ UNCHANGED <<entries, current, canvases>>

\* A failure, or a document or drawing that was destroyed or cancelled.  What
\* cannot be drawn stays open, what cannot be opened does not.
Fail(r) ==
    /\ runs[r].at \notin {"over", "library"} /\ Go(r, "over")
    /\ IF Mine(r)
       THEN /\ failures < MaxFailures /\ failures' = failures + 1
            /\ IF runs[r].at \in {"fetch", "open"}
               THEN entries' = Destroyed(current) /\ current' = 0
               ELSE UNCHANGED <<entries, current>>
       ELSE UNCHANGED <<entries, current, failures>>
    /\ UNCHANGED <<seq, url, library, canvases>>

Next ==
    \/ \E u \in Urls : Show(u)
    \/ Zoom \/ Fit \/ Clear \/ \E ok \in BOOLEAN : Loaded(ok)
    \/ \E r \in DOMAIN runs :
         Library(r) \/ Fetched(r) \/ Opened(r) \/ FirstPage(r) \/ NextPage(r) \/ Drawn(r) \/ Fail(r)

Spec == Init /\ [][Next]_vars

-----------------------------------------------------------------------------
(* Properties *)

\* What is on the screen was drawn by the last request, from the document of the
\* sheet that is open; a viewer that was left shows nothing.
ShowsTheLatest ==
    \A i \in DOMAIN canvases :
        runs[canvases[i]].seq = seq /\ entries[runs[canvases[i]].entry].url = url

\* Every document that is open, or being opened, belongs to the sheet that is
\* shown: a telephone has no memory for those before.
OneDocument == \A e \in DOMAIN entries : entries[e].pdf \in {"open", "opening"} => e = current
=============================================================================
