--------------------------- MODULE MCAsyncLogging ---------------------------
EXTENDS AsyncLogging
=============================================================================
