SPECIFICATION Spec
INVARIANT NavLinksResolve
