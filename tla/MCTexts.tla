------------------------------- MODULE MCTexts ------------------------------
EXTENDS Texts

\* Texts of keys and queries, and texts of all the classes of RucioName.
MCAlphabets == { [chars |-> {"a", "b", "=", ",", "/"},           max |-> 7],
                 [chars |-> Punctuation \cup {"a", "/", Blank}, max |-> 5] }
=============================================================================
