\* Every part may stop: a trie that is finished with, a block that is decoded.
SPECIFICATION MCSpec
CHECK_DEADLOCK FALSE
INVARIANTS NibblesRight TrieIsMap SubTriesRight SmtRight DecoderRight
