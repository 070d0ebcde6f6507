---------------------------- MODULE MCRpcServer ----------------------------
EXTENDS RpcServer
=============================================================================
