------------------------------ MODULE MCImport ------------------------------
EXTENDS ImportFiles
CONSTANTS h1, h2, v1, v2

\* Imports one after the other on one host, with a database that answers or fails, and
\* what may come between them.
InTurnAndNot == {{"move", "midnight"}, {"move", "midnight", "db_error"},
                 {"move", "elsewhere", "overlap", "db_error"}}
=============================================================================
