------------------------------ MODULE WebPages ------------------------------
(***************************************************************************)
(* The pages of the web server that move: the start page with its slides   *)
(* (Carousel), the performance page with its dialogs and panels            *)
(* (PerformancePage), the record page with its questions and its list      *)
(* (RecordPage).  A visitor has one of them open; the scripts of a page    *)
(* begin anew when it is loaded, so pages share nothing but bootstrap.js.  *)
(***************************************************************************)
EXTENDS Carousel, PerformancePage, RecordPage

VARIABLE page       \* the page that is open

webVars == <<page, carouselVars, pageVars, recordVars>>

WebInit ==
    /\ page \in {"index", "performance", "record"}
    /\ CarouselInit /\ PageInit /\ RecordInit

Index == page = "index" /\ CarouselNext /\ UNCHANGED <<page, pageVars, recordVars>>

Performance == page = "performance" /\ PageNext /\ UNCHANGED <<page, carouselVars, recordVars>>

Record == page = "record" /\ RecordNext /\ UNCHANGED <<page, carouselVars, pageVars>>

WebNext == Index \/ Performance \/ Record

WebSpec == WebInit /\ [][WebNext]_webVars /\ CarouselFairness /\ PageFairness
=============================================================================
