---- MODULE MCVStorage ----
EXTENDS VStorage
MCMinSize == <<3, 1>>
====
