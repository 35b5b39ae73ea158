---------------------------- MODULE MCCacheBank ----------------------------
EXTENDS CacheBank
=============================================================================
