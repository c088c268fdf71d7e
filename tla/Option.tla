--------------------------------- MODULE Option ---------------------------------
\* Option::None, for the modules that need it.
CONSTANT None
================================================================================
