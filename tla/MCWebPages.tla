----------------------------- MODULE MCWebPages -----------------------------
\* Three slides; the waiting dialog and the dialog of one row of the history;
\* two panels; the record page as it is, without links, and two days.
EXTENDS WebPages

CONSTANTS myModal, myModal1, today, yesterday

MCDialog == {myModal, myModal1}
MCStatic == {myModal}
MCDay == {today, yesterday}
=============================================================================
